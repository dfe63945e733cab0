SPECIFICATION Spec
CONSTANTS
    n1 = n1
    n2 = n2
    n3 = n3
    j1 = j1
    alice = alice
    bob = bob
    carol = carol
    NoNode = NoNode
    NoWork = NoWork
    MaxPending = 2
    Members = {alice, bob, carol}
    Owner <- MCOwner
    Consumer <- MCConsumer
    Fits <- MCFits
    Nodes = {n1, n2}
    JobIds = {j1}
    PrintJobs = {j1}
    AgentNodes = {}
    ProtocolNodes = {}
    PrintConfirm = TRUE
    MaxRestarts = 0
PROPERTIES
    ConfirmedByOwner
