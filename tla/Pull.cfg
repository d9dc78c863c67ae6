SPECIFICATION Spec
CONSTANTS
    FileNameForObject <- MCFileNameForObject
    IgnoredNames <- MCIgnoredNames
    Hosts <- MCHosts
    Servers <- MCServers
    Commands <- MCCommands
    DirOrder <- MCDirOrder
    IgnoreSchema <- MCIgnoreSchema
    TempSchema = "tmp"
    LowerName <- MCLowerName
    Faults = {"refused", "full", "workspace"}
    MaxCommands = 2
    MaxChanges = 1
    MaxFaults = 1
INVARIANTS
    PullReflectsServer
    Settles
    FormatKeepsMeaning
    UnparsedKept
    DryRunPredicts
