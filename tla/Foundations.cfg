SPECIFICATION MCSpec
CONSTANTS
    RamPages = 9
    KernelPages = 2
    WordBits = 2
    BitmapBits = 12
    Gap = 9
    Node = {n1, n2, n3}
    End = end
    Nil = nil
    Process = {1, 2}
    LastPage = 8
    MaxAllocations = 2
    PeCount = 2
    VtCount = 2
    QueueSize = 11
    MaxKeys = 4
    Typed = {"KEYCODE_A", "KEYCODE_LSHIFT", "KEYCODE_ALTGR", "KEYCODE_CAPSLOCK", "KEYCODE_F2", "KEYCODE_PGUP", "Pause"}
    Unlocked = {}
    Letter = {"x", "tab"}
    Files <- Edited
    Room = 5
    MaxBytes = 7
INVARIANTS
    NeverFailsCounting
    
    ListIsSequence
    PrintsAsC
    
    
    KeyboardServes
    EditorServes
PROPERTY
    HandedOutOnce
