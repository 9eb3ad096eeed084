CONSTANTS Programs <- Samples
SPECIFICATION Spec
INVARIANTS RunsAsWritten CountIsTrue CachedIsCurrent ReadsBack
