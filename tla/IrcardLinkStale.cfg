SPECIFICATION Spec
CONSTANT MaxOpens = 2
INVARIANTS StaleLinkDetached
