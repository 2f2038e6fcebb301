\* crespo_modem_bootstrap against a modem that answers every wait within the
\* 4 s timeout (after 0 or 3 s) and ACKs the first byte, with no I/O faults.
CONSTANTS
    PsiLen = 2
    Delays = {0, 3}
    AckAts = {0}
    IoFaults = FALSE
SPECIFICATION Spec
INVARIANT BootFailsOnlyOnFault
CHECK_DEADLOCK FALSE
