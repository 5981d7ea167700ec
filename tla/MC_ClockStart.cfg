CONSTANT Timeout = 16
SPECIFICATION Spec
PROPERTY ClockSetupReturns
