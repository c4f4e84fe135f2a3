SPECIFICATION Spec
CONSTANTS
    Threads = {"ctl", "user"}
    Times = {1, 2}
    Handlers = {"h1", "h2"}
    Calls <- LooksBesidePop
    DeletesOwn = FALSE
    MaxEvents = 3
    MaxLooks = 3
INVARIANTS
    UsedListAlive
