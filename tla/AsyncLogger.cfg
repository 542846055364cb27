\* A thread that logs, files of one line, a change of date and a restart.
CONSTANTS
    Loggers = {t1}
    TimerThread = main
    Writer = writer
    MaxFileSize = 1
    MaxLines = 3
    Days = 2
    MaxRestarts = 1
SPECIFICATION FairSpec
INVARIANTS TypeOK LinesInOrder
PROPERTIES FilesAreBounded LinesAreWritten
