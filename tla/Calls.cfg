SPECIFICATION Spec
CONSTANT Calls <- AllCalls
INVARIANT OneOrder
INVARIANT ErrorFaithful
INVARIANT RecoveryKept
INVARIANT VerdictsAgree
PROPERTY InvokeEnds
CHECK_DEADLOCK FALSE
