CONSTANT MaxTime = 4
SPECIFICATION Spec
INVARIANT GapCoversOutage
