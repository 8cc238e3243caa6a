SPECIFICATION Spec
CONSTANTS
    Names <- MCNames
    Upper <- MCUpper
    Spelling <- MCSpelling
    ProgramName <- MCProgramName
    Capacity = 10
    Inputs <- MCInputs
    CdInputs <- MCCdInputs
    ArgLines <- MCArgLines
    Commands = {"PG", "PG.ELF"}
    Trees <- MCTrees
    TreePaths <- MCTreePaths
    ProgramData <- MCProgramData
    Text <- MCText
    Space = " "
    NUL = "NUL"
    ArgBuffer = 10
    MaxArgs = 3
PROPERTIES
    StaleCwdHarmless
    ResolvesRight
    RunsRight
CHECK_DEADLOCK FALSE
