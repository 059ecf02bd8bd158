SPECIFICATION Spec
CONSTANTS
    Account = {trinci, alice}
    Service = trinci
    Contract = {c1}
    Key = {k1}
    NoHash = NoHash
    MaxDepth = 3
INVARIANTS StaleIsMarked OwnerExists
