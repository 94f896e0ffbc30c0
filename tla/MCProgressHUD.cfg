SPECIFICATION LoneSpec
CONSTANT MaxTimers = 2
INVARIANTS LoneTypeOK FadesCoherent DismissHonoured
PROPERTY DismissedEventually
