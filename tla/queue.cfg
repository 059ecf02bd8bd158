SPECIFICATION Spec
CONSTANT Elem = {v1, v2, v3, v4, v5}
INVARIANTS QueueConsistent BatchesAreCalls
PROPERTY OrderKept
