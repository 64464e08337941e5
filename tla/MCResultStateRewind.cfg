CONSTANT Ops <- RewindOps
SPECIFICATION Spec
INVARIANT ContextOutlivesResume
