\* Every kind of column and index definition, kept over restarts.
SPECIFICATION Spec
CONSTANTS
    Plain = {"a", "b", "c", "d", "e", "i", "j", "k", "z"}
    Odd = {"B"}
    Long = {"long"}
    MaxColumns = 4
    MaxIndexes = 2
    MaxParts = 4
    NodeSize = 4096
    Tables <- SmallTables
    Indexes <- SmallIndexes
INVARIANT DefinitionsKept
INVARIANT KeysFitNodes
