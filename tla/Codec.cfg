\* Three clients, two transaction numbers, up to three TLVs in an answer.
CONSTANTS
    Clients <- OfEachService
    Transactions = {1, 255}
    TLVs <- Pool
    MaxTLVs = 3
SPECIFICATION Spec
INVARIANTS RequestsWellFormed FramesFollowFormat
PROPERTY AnswersUnderstood
