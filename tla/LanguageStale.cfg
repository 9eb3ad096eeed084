CONSTANTS Programs <- StalePrograms
SPECIFICATION Spec
INVARIANTS CachedIsCurrent
