\* Two threads with a stream each, of two operations each; three streams that
\* are copied; format strings of three pieces of two flags.
CONSTANTS
    Threads = {1, 2}
    Locales <- MCLocales
    Manipulators <- MCManipulators
    Values <- MCValues
    Formats <- MCFormats
    NotSimple = {"he"}
    Uncreatable = {"spell"}
    GlobalZone = "local"
    GlobalBackend = "icu"
    Inputs <- MCInputs
    Targets <- MCTargets
    Numbers <- MCNumbers
    BaseParams = 2
    MaxText = 3
    MaxOps = 2
    Streams = {s1, s2, s3}
    Objects = {o1, o2, o3, o4, o5}
    InfoValues = {"posix", "number"}
    Default = "posix"
    MaxCallbacks = 2
SPECIFICATION MCSpec
INVARIANTS
    ShownAsAsked
    ReadingIsExact
    InfoIsOwn
    StringsAreRead
PROPERTIES
    StreamIsRestored
CHECK_DEADLOCK FALSE
