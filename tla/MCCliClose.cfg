\* What a comment or a message says, against the code: the result of fclose() is not looked at.
CONSTANTS
    proc1 = proc1
    proc2 = proc2
    proc3 = proc3
    file1 = file1
    file2 = file2
    file3 = file3
    file4 = file4
    chunk1 = chunk1
    chunk2 = chunk2
    absent = absent
    Proc = {proc1, proc2, proc3}
    File = {file1, file2, file3, file4}
    Pass = {1, 2}
    Chunk = {chunk1, chunk2}
    Jobs <- AllJobs
    Starts <- Pairs
    Files0 <- TwoFiles
    Absent = absent
    MaxRot = 0
SPECIFICATION Spec
INVARIANTS ExitOkMeansStored
CHECK_DEADLOCK FALSE
