SPECIFICATION Spec
CONSTANTS
    FileNameForObject <- MCFileNameForObject
    IgnoredNames <- MCIgnoredNames
    Hosts <- OpenHosts
    Servers <- MCServers
    Commands <- MCCommands
    DirOrder <- MCDirOrder
    IgnoreSchema <- MCIgnoreSchema
    TempSchema = "tmp"
    LowerName <- MCLowerName
    Faults = {}
    MaxCommands = 1
    MaxChanges = 0
    MaxFaults = 0
INVARIANTS
    AppendedIsRead
