CONSTANTS
    imagegen = imagegen
    other = other
    access = access
    assets = assets
    markdown = markdown
    retry = retry
    prefixes = prefixes
    note = note
    all = all
    table = table
    link = link
    photo = photo
    gone = gone
    voice = voice
    empty = empty
    Requests = {r1, r2, r3}
    Plugins = {imagegen, other}
    Accesses = {access}
    Hosts = {assets}
    Core = {markdown, retry, prefixes}
    Unsavable = {prefixes}
    Patches <- MCPatches
    Unset = {other}
    Shipped = Shipped
    Absent = Absent
    NoPassword = NoPassword
    MaxFaults = 2
    Replies = {reply}
    Parts = {note, all, table, link, photo, gone, voice, empty}
    Kind <- MCKind
    MaxParts = 2
    ReplyLimit = 3
    Providers <- MCProviders
    MarkdownKey = markdown
    MarkdownOn <- Requests
    AssetsKey = assets
    MaxWork = 3
SPECIFICATION ReplySpec
INVARIANTS TypeOK CopiesAgree PartsOnce
PROPERTIES SavesOnlyItsOwn PasswordKept
SYMMETRY MCSymmetry
CHECK_DEADLOCK FALSE
