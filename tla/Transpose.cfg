SPECIFICATION Spec
CONSTANT Sizes <- EvaluatedSizes
INVARIANTS TransposedBut61x168 InBounds FullMarks
CHECK_DEADLOCK FALSE
