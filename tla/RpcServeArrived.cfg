CONSTANTS
    Zero = zero
    Calls = 1
    BufferSize = 4
    SocketSize = 4
SPECIFICATION Spec
INVARIANT ArrivedIsServed
