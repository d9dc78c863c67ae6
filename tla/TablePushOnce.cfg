SPECIFICATION Spec
CONSTANT Cases <- FkCases
INVARIANT OnePushSuffices
