\* One literal through lexer, converter, row, key, WHERE and schema file.
SPECIFICATION Spec
CONSTANTS
    IntBuf = 3
    IntMax = 99
    FloatBuf = 5
    Decimals = 3
    Precision = 2
    PlainZeros = 1
    MaxString = 3
    MaxBinary = 3
    ByteBase = 256
    WordBytes = 3
    NoDefault = NoDefault
    Chars <- SmallChars
    MaxText = 4
    Types <- SmallTypes
    Probes <- SmallProbes
    NoRow = NoRow
INVARIANT LiteralsExact
INVARIANT DefaultsSurvive
INVARIANT ReadBack
INVARIANT KeyAgrees
INVARIANT KeysDecide
