----------------------------- MODULE AriesSystem -----------------------------
(***************************************************************************)
(* The aries modem as rild drives it: aries_modem_bootstrap first, then   *)
(* the FMT and RFS clients over phonet.  The clients are opened, and the   *)
(* modem's firmware speaks IPC, only once the bootstrap has returned 0;    *)
(* until then only the bootstrap moves, and after it only the clients.     *)
(***************************************************************************)
EXTENDS Naturals

CONSTANTS
    IpcHdrSize, RfsHdrSize, MaxData, Lens, ReqLens, MaxMsgs, MaxReqs, Faults,
    PsiLen, Delays, WordDelays, AckAts

VARIABLES
    pc, left, i, ackAt, img, fault,                  \* AriesBoot
    sock, q, msent, got, nreq, modemGot, overflow    \* AriesIpc

Boot == INSTANCE AriesBoot WITH IoFaults <- Faults
Ipc == INSTANCE AriesIpc

bootVars == <<pc, left, i, ackAt, img, fault>>
ipcVars == <<sock, q, msent, got, nreq, modemGot, overflow>>
vars == <<bootVars, ipcVars>>

Booted == pc = "done"

BootStep == Boot!Next /\ UNCHANGED ipcVars
IpcStep == Booted /\ Ipc!Next /\ UNCHANGED bootVars

Init == Boot!Init /\ Ipc!Init

Next == BootStep \/ IpcStep

(* The bootstrap runs to its end on rild's thread; then each client has    *)
(* its own thread calling recv.                                            *)
Spec ==
    /\ Init /\ [][Next]_vars
    /\ WF_vars(BootStep)
    /\ \A c \in Ipc!Clients : WF_vars(Booted /\ Ipc!Recv(c) /\ UNCHANGED bootVars)

-----------------------------------------------------------------------------
(* Properties: those of the components, checked on the composition.        *)

RecvRefined == Ipc!RecvRefined

(* Every send reaches the modem whole (AriesIpc!SendDatagramsIntact).      *)
SendDatagramsIntact == Ipc!SendDatagramsIntact

====
