SPECIFICATION LoneSpec
CONSTANT MaxTimers = 2
INVARIANT ShowHonoured
