SPECIFICATION Spec
CONSTANTS
    LastDay = 5
    Names = {1, 2, 3}
    Calendars <- MCCalendars
    OpeningCash = 65
    Quantities <- MCQuantities
    Price = 12
    Fees = 2
    MaxFills = 4
INVARIANTS
    TypeOK
    HoldingsAsStated
    CashAsStated
    EntitlementsAsStated
    BooksAgree
    BoundariesRepeat
PROPERTIES
    PrincipalCarried
    SalesTakeOldestUnlocked
    ImplementsAccount
CHECK_DEADLOCK FALSE
