SPECIFICATION Spec
CONSTANTS
    Null = Null
    Capacity = 12
    Logger <- MCLogger
    Messages <- MCMessages
    Attributes <- MCAttributes
    Texts <- MCTexts
    MaxCalls = 2
    MaxDepth = 2
    MaxTexts = 2
INVARIANTS
    TypeOK
    SubmittedRecordsMatchTheirCalls
    EveryCallIsRoutedOnce
    RecordsCompleteInOrder
    AttributesCanBeReadBack
