SPECIFICATION FairRegisterSpec
CONSTANTS
    Links = {l1}
    None = None
    MaxEdits = 2
    MaxRemote = 1
    MaxFailures = 1
    MaxRestarts = 0
    MaxCommands = 1
    MaxBacklog = 2
    CommandKinds <- Recoveries

PROPERTIES ImplementsRegister InflightResolves Converges
CHECK_DEADLOCK FALSE
