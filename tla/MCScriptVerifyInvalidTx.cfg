\* The calls of MCScriptVerify.cfg, asked whether every one of them returns.
CONSTANTS
    NULL = NULL
    Addresses <- MCAddresses
    MaxInputs <- MCMaxInputs
    MaxSpentC <- MCMaxSpentC
SPECIFICATION Spec
INVARIANT VerifyNeverFaults
