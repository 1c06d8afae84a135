SPECIFICATION Spec
CONSTANT MaxFaults = 1
CONSTANT MaxGates = 1
INVARIANT PoweredWhileHeld
INVARIANT JobUndisturbed
INVARIANT ColdWhenDropped
