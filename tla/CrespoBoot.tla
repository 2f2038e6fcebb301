----------------------------- MODULE CrespoBoot -----------------------------
(***************************************************************************)
(* The crespo bootstrap sequencer, crespo_modem_bootstrap                  *)
(* (device/crespo/crespo_ipc.c:43-299): read radio.img from the MTD,        *)
(* reset the modem through modem_ctl, send AT on the serial line, read the *)
(* bootcore version and info size, send the PSI magic, length and the PSI  *)
(* (the first PSI_DATA_LEN bytes of radio.img) byte by byte with its XOR   *)
(* CRC, wait for the modem's ACK byte, write the rest of radio.img to      *)
(* modem_ctl in 1 MiB blocks, then the NV part.                            *)
(*                                                                         *)
(* Every wait of the PSI upload, the ACK and the radio blocks is a select  *)
(* on one struct timeval set to 4 s once (168-169).  Linux select writes   *)
(* back the time not slept, so the waits share one 4 s budget: `left`.     *)
(* Time is counted in seconds; a wait takes a delay from Delays, 0 for a   *)
(* descriptor that is ready at once.  Image bytes are not modelled, only   *)
(* how many of each part the modem got.                                    *)
(***************************************************************************)
EXTENDS Naturals

CONSTANTS
    PsiLen,     \* PSI_DATA_LEN (0x5000), scaled down: the PSI bytes sent
    Delays,     \* how long a select waits for the descriptor to be ready, in s
    AckAts,     \* the read (counting from 0) at which the modem sends its ACK
    IoFaults    \* reads, writes, opens and the reset ioctl may fail

ASSUME PsiLen \in Nat \ {0} /\ Delays \subseteq Nat /\ AckAts \subseteq Nat
ASSUME IoFaults \in BOOLEAN

Timeout == 4                   \* timeout.tv_sec (crespo_ipc.c:168)
MaxAckReads == 50              \* the `i > 50` of the ACK loop (218)
BOOTCORE_VERSION == 240        \* 0xf0 (crespo_ipc.h)
RADIO_IMG_SIZE == 14155776     \* 0xd80000
PSI_DATA_LEN == 20480          \* 0x5000
BlockSize == 1048576           \* block_size = 0x100000 (238)
RadioBlocks == (RADIO_IMG_SIZE - PSI_DATA_LEN) \div BlockSize   \* the bound at 240

VARIABLES
    pc,         \* the statement crespo_modem_bootstrap is at
    left,       \* the seconds left in the shared struct timeval
    i,          \* the loop counter of the PSI, ACK and radio loops
    ackAt,      \* which byte after the CRC is the modem's ACK
    got,        \* got[p]: how many units of part p the modem has received
    fault       \* something outside the sequencer failed it: a call returned
                \* an error, the bootcore version was wrong, one wait alone
                \* outlasted the 4 s, or the modem's ACK was never read

vars == <<pc, left, i, ackAt, got, fault>>

Parts == {"psi", "crc", "radio"}
Failures == IF IoFaults THEN {TRUE, FALSE} ELSE {FALSE}
Versions == IF IoFaults THEN {BOOTCORE_VERSION, 0} ELSE {BOOTCORE_VERSION}

(* goto error, recording whether a fault of the modem or the I/O excuses it *)
Fail(excused) ==
    /\ pc' = "error"
    /\ fault' = (fault \/ excused)

-----------------------------------------------------------------------------
(* The steps up to the PSI upload (crespo_ipc.c:77-161).                   *)

(* ipc_client_mtd_read of /dev/mtd/mtd5ro, then of /dev/mtd5ro (79-84).    *)
ReadRadioImage ==
    /\ pc = "mtd"
    /\ \E failed \in Failures :
         IF failed THEN Fail(TRUE) ELSE pc' = "modem_ctl" /\ UNCHANGED fault
    /\ UNCHANGED <<left, i, ackAt, got>>

(* open("/dev/modem_ctl") and ioctl(IOCTL_MODEM_RESET), then usleep (88-97). *)
ResetModem ==
    /\ pc = "modem_ctl"
    /\ \E failed \in Failures :
         IF failed THEN Fail(TRUE) ELSE pc' = "serial" /\ UNCHANGED fault
    /\ UNCHANGED <<left, i, ackAt, got>>

(* open("/dev/s3c2410_serial3", O_NDELAY) and the raw 115200 termios       *)
(* (100-112), then 20 writes of "AT" whose results are ignored (116-123).  *)
OpenSerial ==
    /\ pc = "serial"
    /\ \E failed \in Failures :
         IF failed THEN Fail(TRUE) ELSE pc' = "bootcore" /\ UNCHANGED fault
    /\ UNCHANGED <<left, i, ackAt, got>>

(* Read the bootcore version and check it, then read info_size; a read    *)
(* error or another version fails (126-138).                               *)
ReadBootcore ==
    /\ pc = "bootcore"
    /\ \E failed \in Failures, version \in Versions :
         IF failed \/ version # BOOTCORE_VERSION
         THEN Fail(TRUE)
         ELSE pc' = "psi_header" /\ UNCHANGED fault
    /\ UNCHANGED <<left, i, ackAt, got>>

(* Write PSI_MAGIC and the two bytes of PSI_DATA_LEN, failing on an error  *)
(* (143-161); then the 4 s timeout is set and the PSI loop starts          *)
(* (165-175).                                                              *)
SendPsiHeader ==
    /\ pc = "psi_header"
    /\ \E failed \in Failures :
         IF failed THEN Fail(TRUE) /\ UNCHANGED <<left, i>>
         ELSE /\ pc' = "psi" /\ left' = Timeout /\ i' = 0
              /\ UNCHANGED fault
    /\ UNCHANGED <<ackAt, got>>

-----------------------------------------------------------------------------
(* The waits.                                                              *)

(* select(..., &timeout) on a descriptor that is ready after d seconds:    *)
(* it returns 0 when the time left runs out first, and writes back the     *)
(* time not slept.  On 0 the code goes to error, which is excused only if  *)
(* the wait alone outlasted a whole timeout.  Otherwise A is the rest of   *)
(* the loop body.                                                          *)
SelectThen(d, A) ==
    IF d > left
    THEN /\ left' = 0 /\ Fail(d > Timeout)
         /\ UNCHANGED <<i, got>>
    ELSE /\ left' = left - d /\ A

(* One pass of the PSI loop: select for writing, write one byte, fold it   *)
(* into crc_byte (175-189).                                                *)
SendPsiByte ==
    /\ pc = "psi"
    /\ \E d \in Delays, failed \in Failures :
         SelectThen(d,
           IF failed THEN Fail(TRUE) /\ UNCHANGED <<i, got>>
           ELSE /\ i' = i + 1
                /\ got' = [got EXCEPT !["psi"] = @ + 1]
                /\ pc' = IF i + 1 = PsiLen THEN "crc" ELSE "psi"
                /\ UNCHANGED fault)
    /\ UNCHANGED ackAt

(* Select for writing and write crc_byte (193-201); the ACK loop starts    *)
(* with data = 0 and i = 0 (205-206).                                       *)
SendCrc ==
    /\ pc = "crc"
    /\ \E d \in Delays, failed \in Failures :
         SelectThen(d,
           IF failed THEN Fail(TRUE) /\ UNCHANGED <<i, got>>
           ELSE /\ got' = [got EXCEPT !["crc"] = 1]
                /\ pc' = "ack" /\ i' = 0
                /\ UNCHANGED fault)
    /\ UNCHANGED ackAt

(* The `i > 50` test (218).                                                 *)
AckGivesUp(n) == n > MaxAckReads

(* One pass of the ACK loop: select for reading, read a byte into data,    *)
(* give up when i > 50, and leave the loop when data = 0x01 (206-223).     *)
(* The modem's byte number ackAt is the ACK.  Leaving it closes the serial *)
(* port, and the radio loop starts (226-240).                              *)
ReadAck ==
    /\ pc = "ack"
    /\ \E d \in Delays, failed \in Failures :
         SelectThen(d,
           IF failed THEN Fail(TRUE) /\ UNCHANGED <<i, got>>
           ELSE IF AckGivesUp(i) THEN Fail(ackAt > i) /\ UNCHANGED <<i, got>>
           ELSE IF i = ackAt THEN pc' = "radio" /\ i' = 0 /\ UNCHANGED <<got, fault>>
           ELSE i' = i + 1 /\ UNCHANGED <<pc, got, fault>>)
    /\ UNCHANGED ackAt

(* One pass of the radio loop: select modem_ctl for writing and write a    *)
(* block of radio.img from PSI_DATA_LEN on, for                            *)
(* (RADIO_IMG_SIZE - PSI_DATA_LEN) / block_size blocks (240-255).          *)
WriteRadioBlock ==
    /\ pc = "radio"
    /\ \E d \in Delays, failed \in Failures :
         SelectThen(d,
           IF failed THEN Fail(TRUE) /\ UNCHANGED <<i, got>>
           ELSE /\ i' = i + 1
                /\ got' = [got EXCEPT !["radio"] = @ + 1]
                /\ pc' = IF i + 1 = RadioBlocks THEN "nv" ELSE "radio"
                /\ UNCHANGED fault)
    /\ UNCHANGED ackAt

(* The NV part: nv_data_check, nv_data_md5_check and the copy of           *)
(* nv_data.bin to modem_ctl (257-290), which NvData models step by step;   *)
(* here it succeeds or fails on a fault of the store.                      *)
NvPart ==
    /\ pc = "nv"
    /\ \E failed \in Failures :
         IF failed THEN Fail(TRUE) ELSE pc' = "done" /\ UNCHANGED fault
    /\ UNCHANGED <<left, i, ackAt, got>>

-----------------------------------------------------------------------------

Init ==
    /\ pc = "mtd" /\ left = 0 /\ i = 0 /\ ackAt \in AckAts
    /\ got = [p \in Parts |-> 0] /\ fault = FALSE

Next ==
    \/ ReadRadioImage \/ ResetModem \/ OpenSerial \/ ReadBootcore
    \/ SendPsiHeader \/ SendPsiByte \/ SendCrc \/ ReadAck
    \/ WriteRadioBlock \/ NvPart

(* rild runs the bootstrap to its end on one thread.                       *)
Spec == Init /\ [][Next]_vars /\ WF_vars(Next)

-----------------------------------------------------------------------------
(* Properties.                                                             *)

TypeOK ==
    /\ pc \in {"mtd", "modem_ctl", "serial", "bootcore", "psi_header", "psi",
               "crc", "ack", "radio", "nv", "done", "error"}
    /\ left \in 0..Timeout /\ i \in Nat /\ fault \in BOOLEAN
    /\ got \in [Parts -> Nat]

(* crespo_modem_bootstrap fails only when something outside it failed: a   *)
(* call returned an error, the modem sent the wrong bootcore version, it   *)
(* left one wait unanswered for longer than the 4 s timeout, or it sent no *)
(* ACK among the bytes the ACK loop read.  A modem that answers each wait  *)
(* within 4 s and whose ACK is read is booted.                              *)
BootFailsOnlyOnFault == pc = "error" => fault

(* A bootstrap that returns 0 has handed the modem the whole PSI, its CRC  *)
(* and all of radio.img after the PSI.                                      *)
BootedModemGotImage ==
    pc = "done" =>
        /\ got["psi"] = PsiLen /\ got["crc"] = 1
        /\ got["radio"] * BlockSize = RADIO_IMG_SIZE - PSI_DATA_LEN

====
