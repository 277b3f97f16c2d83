\* Dates that are read into a double.
CONSTANTS
    Threads = {1, 2}
    Locales <- MCLocales
    Manipulators <- MCManipulators
    Values <- MCValues
    Formats <- MCFormats
    NotSimple = {"he"}
    Uncreatable = {"spell"}
    GlobalZone = "local"
    GlobalBackend = "icu"
    Inputs <- MCInputs
    Targets <- MCTargets
    Numbers <- MCNumbers
    BaseParams = 2
    MaxText = 3
    MaxOps = 2
    Streams = {s1, s2, s3}
    Objects = {o1, o2, o3, o4, o5}
    InfoValues = {"posix", "number"}
    Default = "posix"
    MaxCallbacks = 2
SPECIFICATION MCSpec
INVARIANT DateIsReadIfItFits
CHECK_DEADLOCK FALSE
