SPECIFICATION Spec
CONSTANTS
    Call = {c1, c2}
    Folder = {q1}
    Root = Root
    File = {f1, f2}
    Name = {n1, n2}
    FolderName = {d1, d2}
    Share = {s1}
    Limit = 1
    MaxServed = 2
    NoFolder = NoFolder
    NoName = NoName
    NoFile = NoFile
INVARIANT OnlyEmptyFoldersGo
CHECK_DEADLOCK FALSE
