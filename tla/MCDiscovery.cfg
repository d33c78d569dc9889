SPECIFICATION Spec
CONSTANTS
    first = first
    second = second
    proxy = proxy
    other = other
    ZeroAddress = zero
    Contracts = {first, second, proxy, other}
    Storages = {first, second}
    Proxies = {proxy}
    Code <- CodeOf
    PageSize = 3
    ChunkSize = 2
    MaxHeight = 3
    MaxUpgrades = 1
    MaxStops = 1
\* The chain of the model ends, and the goroutine may end.
CHECK_DEADLOCK FALSE
INVARIANTS
    TypeOK
    NothingLeftOut
    OnlyContractsDue
    NeverAsksForAll
