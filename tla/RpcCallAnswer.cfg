SPECIFICATION FairSpec
PROPERTY AnswerRunsClosure
