\* Three rows, two changes during a request, lists of one or two rows.  Deadlock:
\* all rows may be inserted and old (and a request can always be sent).
SPECIFICATION Spec
CONSTANTS
    MaxRows = 3
    MaxChanges = 2
    MaxLimit = 2
INVARIANTS
    FiguresAgree
    PollsAdvance
