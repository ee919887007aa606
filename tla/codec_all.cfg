SPECIFICATION Spec
CONSTANT Uses <- MCUses
INVARIANTS TypeOK RoundTrip TornIsSeen ReadsWithin ReserveIsEnough
CHECK_DEADLOCK FALSE
