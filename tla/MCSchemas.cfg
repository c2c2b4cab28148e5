SPECIFICATION Spec
CONSTANTS
    q1 = q1  q2 = q2  q3 = q3  hostA = hostA  hostB = hostB
    Requests = {q1, q2, q3}
    Hosts = {hostA, hostB}
    NoLink = NoLink
    Garbled = Garbled
    N = 2
    Listed = {1}
SYMMETRY Symmetry
INVARIANTS TypeOK NoStaleLinks AloneAnswersOwnLinks
