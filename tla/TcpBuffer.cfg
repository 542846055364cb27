CONSTANTS
    Byte = {a, b}
    Zero = zero
    InitialSize = 6
    MaxChunk = 2
    MaxBytes = 6
SPECIFICATION Spec
INVARIANTS IndicesInBounds OnlySentBytes
PROPERTY IsLossyStream
