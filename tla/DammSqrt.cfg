CONSTANT Bits = 12
SPECIFICATION Spec
INVARIANT SqrtIsFloor
