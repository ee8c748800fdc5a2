SPECIFICATION Spec
INVARIANTS
    NothingLost
    
    UnreadIsShown
    DueOnItsDay
PROPERTIES
    RewrittenOnce
    InterruptEnds
CONSTANTS
    note = note
    a1 = a1
    a2 = a2
    Subtask = {"#a.x"}
    NoTask = note
    Today <- MCToday
    Files <- MCFiles
    FirstLines <- MCFirstLines
    Edits <- MCEdits
    TaskLists <- MCTaskLists
    Dates <- MCDates
    Mailboxes <- MCMailboxes
    Account <- MCAccount
    MaxEdits = 1
