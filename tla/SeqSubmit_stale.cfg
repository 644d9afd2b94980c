\* Sequences of two ops, in one group or in none, nothing goes wrong.
SPECIFICATION SeqSpec
CONSTANTS
    OpCount = 2
    Caps = {4}
    SeqCores = 2
    GroupIds = {0, 1}
    Entry = {"seq"}
    MaxRefused = 0
CHECK_DEADLOCK FALSE
INVARIANT ReadsInOrder
