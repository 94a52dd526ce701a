SPECIFICATION RefundsSpec
CONSTANTS
    Captured <- UnevenSources
    Keys = {k1, k2}
    ClaimReference = ClaimReference
    FirstStatuses = {"pending"}
    Moves <- CardMoves
    MaxCalls = 1
    MaxSnapshots = 1
    BookedPrice = 2
    PriceChanges <- RaiseOrReduceByOne
    MaxPriceChanges = 3
    MaxInvoices = 2
    MaxBookingRefunds = 2
    MaxReturns = 1
    MaxNoteRequests = 2
SYMMETRY Symmetry
CHECK_DEADLOCK FALSE
INVARIANTS
    RefundsTypeOK
    StatusMatchesLedger
    SourcesCoverRefunds
    RefundsKeepTheirRequest
    MoneyIsAccounted
    LostRefundsAreFound
    NotesStayVerifiable
    DocumentsEndAtZero
PROPERTIES
    KeepsPaymentContract
