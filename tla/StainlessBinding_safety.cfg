SPECIFICATION Spec
CONSTANTS
    Request = {q1, q2, q3}
    Key = {os, arch}
    Value = {v1, v2}
    NoValue = NoValue
    MaxFaults = 1
    q1 = q1
    q2 = q2
    q3 = q3
    os = os
    arch = arch
    v1 = v1
    v2 = v2
INVARIANTS
    TypeOK
    SameIdentity
PROPERTIES
SYMMETRY Symmetry
