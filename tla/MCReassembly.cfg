SPECIFICATION StreamSpec
CONSTANT Last = 7
INVARIANTS DeliversPrefix QueueHoldsRest FinIsLast HolesAreFound
CHECK_DEADLOCK FALSE
