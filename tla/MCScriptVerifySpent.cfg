\* The calls of MCScriptVerify.cfg, asked whether the outputs read are the
\* client's.
CONSTANTS
    NULL = NULL
    Addresses <- MCAddresses
    MaxInputs <- MCMaxInputs
    MaxSpentC <- MCMaxSpentC
SPECIFICATION Spec
INVARIANT SpentOutputsAreTheClients
