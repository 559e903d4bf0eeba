SPECIFICATION Spec
CONSTANTS
    Replies <- MCProseReplies
    IsObject <- MCIsObject
    DirLists <- MCDirLists
    Answers <- MCAnswerLists
    ChunkSize = 2
    Depth = 1
    MaxPieces = 2
    MaxAnswer = 0
INVARIANT ObjectIsFound
CHECK_DEADLOCK FALSE
