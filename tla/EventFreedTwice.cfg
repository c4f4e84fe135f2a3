SPECIFICATION Spec
CONSTANTS
    Threads = {"user"}
    Times = {1, 2}
    Handlers = {"h1", "h2"}
    Calls <- Deletes
    DeletesOwn = FALSE
    MaxEvents = 3
    MaxLooks = 3
INVARIANTS
    FreedOnce
