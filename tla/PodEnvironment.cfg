CONSTANTS
    None = None
    Pods <- MCPods
    Caches <- MCCaches
    Services <- MCServices
    Namespace = "ns"
    Links = {TRUE, FALSE}
    Chars <- MCChars
    NameChars <- MCNameChars
    Upper <- MCUpper
    Fields <- MCFields
    MaxChanges = 1
SPECIFICATION Spec
INVARIANTS EnvironmentIsReference ReferencesAreReplaced
CHECK_DEADLOCK FALSE
