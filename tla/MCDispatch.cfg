CONSTANTS
    db = db
    dbx = dbx
    clean = clean
    u1 = u1
    u2 = u2
    g1 = g1
    slash = slash
    bang = bang
    Events = {e1, e2}
    Buttons = {b1}
    Commands = {db, dbx, clean}
    Registered <- MCRegistered
    Symbols = {slash, bang}
    PrefixChars = {slash}
    Bare = TRUE
    NoSymbol = NoSymbol
    Users = {u1, u2}
    Groups = {g1}
    NoId = NoId
    NoCommand = NoCommand
    NoMessage = NoMessage
    NoButton = NoButton
    NoAccess = NoAccess
    Cmd <- MCCmd
    Inputs <- MCInputs
    Texts <- MCTexts
    Trim <- MCTrim
    ModeTexts <- MCModeTexts
    Mode <- MCMode
    u1Blank = u1Blank
    cleanBlank = cleanBlank
    blank = blank
    Messages <- MCMessages
    MaxApply = 2
SPECIFICATION FairSpec
INVARIANTS TypeOK RunsOnlyPermitted
PROPERTIES FailureReported EveryEventAnswered
CHECK_DEADLOCK FALSE
