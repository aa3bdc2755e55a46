CONSTANTS
    None = None
    Channel = Channel
    Ignored = Ignored
    Forms <- MCForms
    Protocols <- MCProtocols
    MaxStreams = 3
    MaxSizes = 1
SPECIFICATION Spec
INVARIANTS ContextIsComplete RepliesBeforeClose NobodyLeftBehind
CHECK_DEADLOCK FALSE
