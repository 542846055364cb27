SPECIFICATION FairSpec
INVARIANTS TypeOK ClosureAtMostOnce AnswerSettles
PROPERTIES ClosureIsTold ClosureRuns
