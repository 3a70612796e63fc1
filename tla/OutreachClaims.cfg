SPECIFICATION Spec
CONSTANTS
    e1 = e1
    e2 = e2
    reply1 = reply1
    reply2 = reply2
    reply3 = reply3
    handoff1 = handoff1
    note1 = note1
    draft1 = draft1
    None = None
    Executors = {e1, e2}
    Actions = {reply1, reply2, reply3, handoff1, draft1, note1}
    KindOf <- OneOfEach
    Known = {note1}
    Cap = 1
    MaxEvents = 1
SYMMETRY Workers
INVARIANTS
    HandedOnce
    PostsBounded
    SecondNoteHasAReason
PROPERTIES
    ImplementsAtMostOnceSend
