SPECIFICATION Spec
CONSTANT Most = 2
CHECK_DEADLOCK FALSE
INVARIANTS TypeOK Answerable PaidInFull NotForNothing Whole AsShown
PROPERTIES NoMeansNo GivesOnce
