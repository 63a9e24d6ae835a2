\* Two invocations of any kind with one damage to a stored file, or a race of three.
CONSTANTS
    proc1 = proc1
    proc2 = proc2
    proc3 = proc3
    file1 = file1
    file2 = file2
    file3 = file3
    file4 = file4
    chunk1 = chunk1
    chunk2 = chunk2
    absent = absent
    Proc = {proc1, proc2, proc3}
    File = {file1, file2, file3, file4}
    Pass = {1, 2}
    Chunk = {chunk1, chunk2}
    Jobs <- AllJobs
    Starts <- PairsAndRace
    Files0 <- TwoFiles
    Absent = absent
    MaxRot = 1
SPECIFICATION Spec
INVARIANTS TypeOK Authentic NoFalseRefusal StoredIsReadable InPlaceKeepsText
PROPERTIES RefusalLeavesFiles Terminates VaultSpec
CHECK_DEADLOCK FALSE
