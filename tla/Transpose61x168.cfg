SPECIFICATION Spec
CONSTANT Sizes <- Size61x168
INVARIANT Transposed
CHECK_DEADLOCK FALSE
