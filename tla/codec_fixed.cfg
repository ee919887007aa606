SPECIFICATION Spec
CONSTANT Uses <- AsyncFixedUses
INVARIANT RoundTrip
CHECK_DEADLOCK FALSE
