\* Two confirmations over a clock of one TTL and more; a request may name its
\* method and URL or leave them open.
CONSTANTS
    Id = {id1, id2}
    Op = {o1}
    Method = {POST, PUT}
    URL = {u1}
    Unset = Unset
    TTL = 2
    MaxTime = 4
SPECIFICATION Spec
INVARIANTS TypeOK UsesAreCovered
PROPERTY ImplementsPermit
