CONSTANTS
    Bits = {1}
    Values = {{}, {1}}
    Targets = {11, 12}
    Sizes = {1, 2, 4}
SPECIFICATION Spec
INVARIANTS
    TypeOK
    AllocationsDisjoint
PROPERTIES
    ImplementsNonVolatile
