---------------------------- MODULE H1Transport ----------------------------
(***************************************************************************)
(* The h1 transport adapter (device/h1/h1_ipc.c): the handler table whose  *)
(* common data is a malloc'd int holding the descriptor, and open, close,  *)
(* power_on, power_off, read and write, which take that int as io_data.    *)
(* The IPC client calls the handlers in any order its user calls them;     *)
(* each call is one atomic step.  Descriptors are model values: Stdin is   *)
(* descriptor 0, Ttys the ones open(DPRAM_TTY) may return.                 *)
(***************************************************************************)
EXTENDS Naturals, FiniteSets

CONSTANTS
    Stdin,      \* descriptor 0
    Ttys,       \* descriptors open() may return for DPRAM_TTY
    FdsToSet,   \* descriptors the client may pass to common_data_set_fd
    OpenFaults, \* open(DPRAM_TTY) may fail
    MaxOpens    \* how many times the client calls open

ASSUME Stdin \notin Ttys /\ FdsToSet \subseteq Ttys \cup {Stdin}
ASSUME OpenFaults \in BOOLEAN /\ MaxOpens \in Nat

Null == "NULL"

VARIABLES
    ioData,   \* the int io_data points to, or Null before create/after destroy
    open,     \* the tty descriptors open and not closed
    opened,   \* the tty descriptors some open() returned 0 for (history)
    nopen,    \* how many times open has been called
    io        \* the descriptors device calls used after an open returned 0 (history)

vars == <<ioData, open, opened, nopen, io>>

-----------------------------------------------------------------------------
(* h1_ipc_common_data_create: malloc(sizeof(int)), zeroed; NULL when       *)
(* malloc fails (h1_ipc.c:215-229).                                        *)
CommonDataCreate ==
    /\ ioData = Null
    /\ ioData' \in {Null, Stdin}
    /\ UNCHANGED <<open, opened, nopen, io>>

(* h1_ipc_common_data_destroy frees it (231-240).                          *)
CommonDataDestroy ==
    /\ ioData # Null
    /\ ioData' = Null
    /\ UNCHANGED <<open, opened, nopen, io>>

(* A plausible fix of set_fd: *common_data = fd.                           *)
StoreFd(d, fd) == fd

(* h1_ipc_common_data_set_fd assigns &fd to its local pointer and returns  *)
(* 0: the int is not written (242-253).                                     *)
SetFd(d, fd) == d

CommonDataSetFd ==
    /\ ioData # Null
    /\ \E fd \in FdsToSet : ioData' = SetFd(ioData, fd)
    /\ UNCHANGED <<open, opened, nopen, io>>

(* h1_ipc_open: -1 for a NULL io_data; reads the int, then overwrites its  *)
(* local copy with open(DPRAM_TTY); returns 1 when that fails, else sets   *)
(* the tty raw and returns 0.  The int is not written (28-50).             *)
Open ==
    /\ ioData # Null /\ nopen < MaxOpens
    /\ nopen' = nopen + 1
    /\ \/ /\ OpenFaults
          /\ UNCHANGED <<open, opened>>
       \/ \E fd \in Ttys \ open :
            /\ open' = open \cup {fd}
            /\ opened' = opened \cup {fd}
    /\ UNCHANGED <<ioData, io>>

(* h1_ipc_close: closes the int's descriptor unless it is 0 (52-66).       *)
Close ==
    /\ ioData # Null
    /\ open' = IF ioData # Stdin THEN open \ {ioData} ELSE open
    /\ UNCHANGED <<ioData, opened, nopen, io>>

(* h1_ipc_power_on, h1_ipc_power_off, h1_ipc_read and h1_ipc_write use     *)
(* the int's descriptor (68-94, 185-213).                                  *)
DeviceIo ==
    /\ ioData # Null
    /\ io' = IF opened # {} THEN io \cup {ioData} ELSE io
    /\ UNCHANGED <<ioData, open, opened, nopen>>

Init ==
    /\ ioData = Null /\ open = {} /\ opened = {} /\ nopen = 0 /\ io = {}

Next ==
    CommonDataCreate \/ CommonDataDestroy \/ CommonDataSetFd \/ Open \/ Close \/ DeviceIo

Spec == Init /\ [][Next]_vars

-----------------------------------------------------------------------------
(* Properties.                                                             *)

TypeOK ==
    /\ ioData \in {Null} \cup Ttys \cup {Stdin} /\ open \subseteq Ttys
    /\ opened \subseteq Ttys /\ nopen \in 0..MaxOpens

(* Once open has returned 0, the modem I/O of read, write and the power    *)
(* ioctls reaches the DPRAM tty, never descriptor 0.                       *)
IoReachesTty == io \subseteq Ttys

(* Each open tty descriptor is one the adapter can still close: at most    *)
(* one is open, and it is the one io_data holds.                           *)
NoTtyLeak == \A fd \in open : fd = ioData

=============================================================================
