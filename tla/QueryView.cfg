\* All the hooks; three edits reach a filter changed during a refetch that
\* follows a row action.
SPECIFICATION LiveSpec
CONSTANTS
    f1 = f1
    f2 = f2
    none = none
    x1 = x1
    x2 = x2
    Filter <- MCFilter
    NoRequest = none
    Text <- MCText
    Blank = Blank
    Unread = Unread
    MaxPage = 2
    MaxEdits = 3
CHECK_DEADLOCK FALSE
INVARIANTS
    TypeOK
    ViewIsCurrent
    LoadingIsAnswered
PROPERTIES
    ViewNeverGoesBack
    LoadsEnd
