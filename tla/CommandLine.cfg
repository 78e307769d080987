CONSTANTS
    LowerOf <- MCLower
    Protocol <- MCProtocol
    Words <- MCWords
    Numbers <- MCNumbers
    ExcludedDomains <- MCDomains
    SkipBodyPatterns <- MCSkipPatterns
    SkipBodyMimeTypes = {"css"}
    TextMimeTypes = {"css", "text"}
    Telemetry = {"network", "console", "dom"}
    Messages <- MCMessages
    Viewings <- MCViewings
    Calls <- MCCalls
    Window = 2
    PeekMax = 4
    MaxConsole = 2
    MaxLogged = 3
    MaxPages = 1
    MaxPolls = 2
    MaxFaults = 1
    Tasks <- MCTasks
    Limit = 2
    Queries <- MCQueries
    Matches <- MCMatches
    MaxChanges = 1
    Forms <- MCForms
    Fields <- MCFields
    MaxMatched = 2
    MaxRequests = 3
    Plain = {"a"}
    Frames <- MCFrames
    MaxFrames = 3
SPECIFICATION MCSpec
INVARIANTS ProtocolAgrees SuggestionsAreClosest ValidatedIsNavigated FiltersMean FramesReassembled ListsAreWhole ConsoleIsTrue SlotsAreShared QueryTells FormsDoWhatTheySay
PROPERTIES FollowCatchesUp CommandsEnd
CHECK_DEADLOCK FALSE
