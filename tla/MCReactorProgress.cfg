SPECIFICATION FairSpec
CONSTANTS
    Conn = {c1}
    Fd = {1}
    NLoops = 2
    Acceptor = acceptor
    None = none
PROPERTIES
    
    WriteErrorCloses
