SPECIFICATION Spec
CONSTANTS Delays = {0, 1}  MaxEvents = 3  UidMod = 16
INVARIANTS ExpiryTrue EachKeptOnce HandedInIsSeen
PROPERTIES CalendarSpec
CHECK_DEADLOCK FALSE
