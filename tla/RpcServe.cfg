\* Three requests: the buffer is full with two of them, the socket with two
\* answers.
CONSTANTS
    Zero = zero
    Calls = 3
    BufferSize = 4
    SocketSize = 4
SPECIFICATION FairSpec
INVARIANTS TypeOK ServedInOrder NothingForged WholeIsServed
PROPERTY AnswerIsWritten
