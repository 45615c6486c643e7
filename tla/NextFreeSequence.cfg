\* Every subset of five numbers, searched from every counter value.
SPECIFICATION Spec
CONSTANTS
    RelaySequenceFloor = 2
    RelaySequenceCeil = 6
INVARIANTS
    TypeOK
    FindsFirstFree
CHECK_DEADLOCK FALSE
