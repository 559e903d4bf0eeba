SPECIFICATION Spec
CONSTANTS
    Replies <- MCReplies
    IsObject <- MCIsObject
    DirLists <- MCDirLists
    Answers <- MCAnswerLists
    ChunkSize = 2
    Depth = 1
    MaxPieces = 2
    MaxAnswer = 2
INVARIANT DraftIsWhatTheModelWrote
INVARIANT PlainObjectIsFound
INVARIANT EveryDirectoryOnce
CHECK_DEADLOCK FALSE
