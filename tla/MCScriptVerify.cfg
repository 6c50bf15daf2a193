\* Every call of VerifyScript a C++ or a C client can make, on transactions that
\* decoded or not and with up to two spent outputs.
CONSTANTS
    NULL = NULL
    Addresses <- MCAddresses
    MaxInputs <- MCMaxInputs
    MaxSpentC <- MCMaxSpentC
SPECIFICATION Spec
INVARIANTS
    TypeOK
    ContractOfVerify
    PrecomputedWhenAvailable
    RefusedBeforeDereference
    OnlyKnownFaults
