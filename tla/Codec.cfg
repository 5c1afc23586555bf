SPECIFICATION Spec
CONSTANTS
    Base = 256
    HeaderBytes = 2
    HashModulus = 1073741824
    StaticSize <- MCStaticSize
    SetBodies <- MCSetBodies
    MaxRequests = 3
INVARIANTS TypeOK AcceptsWellFormed UndefinedOnlyAtEdges NoticeFilled NoticeStoresSame AnswersLatest
CHECK_DEADLOCK FALSE
