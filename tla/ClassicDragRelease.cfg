SPECIFICATION Spec
CONSTANT Windows = {a, b, c}
INVARIANT NoActivationAfterReorder
