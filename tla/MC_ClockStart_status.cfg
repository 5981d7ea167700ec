CONSTANT Timeout = 16
SPECIFICATION Spec
INVARIANT ClockStatusTruthful
