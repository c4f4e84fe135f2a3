SPECIFICATION Spec
CONSTANTS
    Threads = {"user"}
    Times = {1, 2}
    Handlers = {"h1", "h2"}
    Calls <- Installs
    DeletesOwn = FALSE
    MaxEvents = 3
    MaxLooks = 3
PROPERTIES
    HandlerAssociated
