------------------------------ MODULE AriesBoot ------------------------------
(***************************************************************************)
(* The aries bootstrap sequencer, aries_modem_bootstrap                    *)
(* (device/aries/aries_ipc.c:103-413): read radio.img, open onedram, take  *)
(* the phonet interface down and power-cycle the modem, send AT on the     *)
(* serial line, read the bootcore version and info size, send the PSI      *)
(* magic, length, the PSI byte by byte and its CRC, wait for the ACK, wait *)
(* for ONEDRAM_INIT_READ in the onedram mailbox, copy the rest of radio.img *)
(* and nv_data.bin into the mapped onedram, release the semaphore, send     *)
(* ONEDRAM_DEINIT_CMD and wait for ONEDRAM_DEINIT_READ.                    *)
(*                                                                         *)
(* Unlike crespo, most read() and write() results are ignored, and the     *)
(* struct timeval is set again before each phase: 5 s for each of the two  *)
(* first reads, the PSI upload with its CRC, and the ACK loop; 3 s for each *)
(* onedram wait loop.  Within a phase the waits share what select leaves   *)
(* of it: `left`, in ticks.                                                *)
(***************************************************************************)
EXTENDS Naturals

CONSTANTS
    PsiLen,      \* PSI_DATA_LEN, scaled down: the PSI bytes sent
    Delays,      \* ticks a select on the serial line waits for it to be ready
    WordDelays,  \* ticks until the modem writes its next onedram mailbox word
    AckAts,      \* how many bytes the modem sends before its ACK
    IoFaults     \* calls may fail, the modem may send the wrong bootcore version
                 \* and other mailbox words

ASSUME PsiLen \in Nat \ {0} /\ Delays \subseteq Nat /\ AckAts \subseteq Nat
(* A mailbox word is an interrupt the modem raises: at least a tick apart. *)
ASSUME WordDelays \subseteq Nat \ {0}
ASSUME IoFaults \in BOOLEAN

SerialTimeout == 5      \* timeout.tv_sec = 5 (aries_ipc.c:191, 210, 239, 278)
OnedramTimeout == 3     \* timeout.tv_sec = 3 (305, 380)
MaxAckReads == 50       \* the `i > 50` of the ACK loop (295)

VARIABLES
    pc,     \* the statement aries_modem_bootstrap is at, or "crashed"
    left,   \* the ticks left in the struct timeval
    i,      \* the loop counter of the PSI and ACK loops
    ackAt,  \* the bytes the modem still sends before its ACK
    img,    \* radio_img_p is not NULL
    fault   \* something outside the sequencer failed it (as in CrespoBoot)

vars == <<pc, left, i, ackAt, img, fault>>

Failures == IF IoFaults THEN {TRUE, FALSE} ELSE {FALSE}

Fail(excused) == pc' = "error" /\ fault' = (fault \/ excused)

(* A step to statement p that does not fail.                               *)
Goto(p) == pc' = p /\ UNCHANGED fault

(* select(..., &timeout) on a descriptor ready after d ticks; on 0 the code *)
(* goes to error, excused when the wait alone outlasted a whole timeout t. *)
(* Otherwise A is the rest of the loop body.                               *)
SelectThen(d, t, A) ==
    IF d > left
    THEN left' = 0 /\ Fail(d > t) /\ UNCHANGED <<i, ackAt>>
    ELSE A

Spend(d, t) == left' = left - d

-----------------------------------------------------------------------------
(* ipc_client_mtd_read of /dev/block/bml12; NULL is not checked (141).     *)
ReadRadioImage ==
    /\ pc = "mtd"
    /\ \E failed \in Failures : img' = ~failed
    /\ pc' = "onedram"
    /\ UNCHANGED <<left, i, ackAt, fault>>

(* open("/dev/onedram"), phonet_iface_ifdown (51-75), power off and on,    *)
(* open("/dev/s3c2410_serial3") and its termios, 20 writes of "AT" whose   *)
(* results are ignored, and the first 5 s timeout (145-192).  A failed     *)
(* open or ifdown fails.                                                    *)
ResetModem ==
    /\ pc = "onedram"
    /\ \E failed \in Failures :
         IF failed THEN Fail(TRUE) ELSE Goto("bootcore")
    /\ left' = SerialTimeout
    /\ UNCHANGED <<i, ackAt, img>>

(* Select, read the bootcore version (a failed read leaves it 0) and check *)
(* it, then the second 5 s timeout (194-211).                              *)
ReadBootcore ==
    /\ pc = "bootcore"
    /\ \E d \in Delays, wrong \in Failures :
         SelectThen(d, SerialTimeout,
           /\ left' = SerialTimeout /\ UNCHANGED i
           /\ IF wrong THEN Fail(TRUE) ELSE Goto("info"))
    /\ UNCHANGED <<ackAt, img>>

(* Select, read info_size, write PSI_MAGIC and the two length bytes, all   *)
(* results ignored; the PSI loop gets 5 s (213-246).                       *)
ReadInfoSize ==
    /\ pc = "info"
    /\ \E d \in Delays :
         SelectThen(d, SerialTimeout,
           left' = SerialTimeout /\ i' = 0 /\ Goto("psi"))
    /\ UNCHANGED <<ackAt, img>>

(* One pass of the PSI loop: select, write one byte (result ignored), and  *)
(* crc_byte ^= *data_p, which dereferences a NULL radio_img_p (246-261).   *)
SendPsiByte ==
    /\ pc = "psi"
    /\ \E d \in Delays :
         SelectThen(d, SerialTimeout,
           /\ Spend(d, SerialTimeout)
           /\ IF ~img THEN Goto("crashed") /\ UNCHANGED i
              ELSE i' = i + 1 /\ Goto(IF i + 1 = PsiLen THEN "crc" ELSE "psi"))
    /\ UNCHANGED <<ackAt, img>>

(* Select and write crc_byte (265-274); the ACK loop gets 5 s (278-282).    *)
SendCrc ==
    /\ pc = "crc"
    /\ \E d \in Delays :
         SelectThen(d, SerialTimeout,
           left' = SerialTimeout /\ i' = 0 /\ Goto("ack"))
    /\ UNCHANGED <<ackAt, img>>

(* The `i > 50` test (295).                                                 *)
AckGivesUp(n) == n > MaxAckReads

(* One pass of the ACK loop: select, read a byte into data (a failed read  *)
(* leaves data and the byte where they are), give up when i > 50, leave    *)
(* the loop on 0x01 (282-300).  Leaving it closes the serial port and the   *)
(* onedram wait gets 3 s (303-310).                                         *)
ReadAck ==
    /\ pc = "ack"
    /\ \E d \in Delays, failed \in Failures :
         SelectThen(d, SerialTimeout,
           LET acked == ~failed /\ ackAt = 0 IN
           /\ ackAt' = IF failed \/ ackAt = 0 THEN ackAt ELSE ackAt - 1
           /\ \/ AckGivesUp(i) /\ Fail(~acked) /\ Spend(d, SerialTimeout) /\ UNCHANGED i
              \/ ~AckGivesUp(i) /\ acked
                 /\ Goto("init_wait") /\ left' = OnedramTimeout /\ i' = 0
              \/ ~AckGivesUp(i) /\ ~acked
                 /\ i' = i + 1 /\ Spend(d, SerialTimeout) /\ UNCHANGED <<pc, fault>>)
    /\ UNCHANGED img

(* The words the modem may write to the onedram mailbox.                  *)
Words == IF IoFaults THEN {"expected", "other"} ELSE {"expected"}

(* One pass of an onedram wait loop: select, read the mailbox word (result *)
(* ignored), and leave the loop on the expected word (311-322, 386-397).   *)
(* A word other than the expected one is the modem's fault.  After the     *)
(* loop the time left is dead (set again before its next use, or the       *)
(* function returns), and so is i after the ACK loop: both are kept at 0.  *)
WaitWord(from, to) ==
    /\ pc = from
    /\ \E d \in WordDelays, w \in Words :
         SelectThen(d, OnedramTimeout,
           IF w = "expected" THEN Goto(to) /\ left' = 0
           ELSE Spend(d, OnedramTimeout) /\ pc' = pc /\ fault' = TRUE)
    /\ UNCHANGED <<i, ackAt, img>>

InitWait == WaitWord("init_wait", "mmap")

(* mmap the onedram and copy the rest of radio.img into it (328-343).     *)
MapOnedram ==
    /\ pc = "mmap"
    /\ \E failed \in Failures :
         IF failed THEN Fail(TRUE) ELSE Goto("nv")
    /\ UNCHANGED <<left, i, ackAt, img>>

(* The NV part: nv_data_check, nv_data_md5_check, the read of nv_data.bin  *)
(* and its copy into onedram (345-365), which NvData models step by step;   *)
(* then munmap, ioctl(ONEDRAM_REL_SEM), the write of ONEDRAM_DEINIT_CMD     *)
(* (result ignored) and 3 s for the last wait (367-385).                   *)
NvPart ==
    /\ pc = "nv"
    /\ \E failed \in Failures :
         IF failed THEN Fail(TRUE) ELSE Goto("deinit_wait")
    /\ left' = OnedramTimeout
    /\ UNCHANGED <<i, ackAt, img>>

(* The wait for ONEDRAM_DEINIT_READ; then close(onedram_fd), return 0       *)
(* (386-404).                                                               *)
DeinitWait == WaitWord("deinit_wait", "done")

-----------------------------------------------------------------------------

Init ==
    /\ pc = "mtd" /\ left = 0 /\ i = 0 /\ ackAt \in AckAts
    /\ img = TRUE /\ fault = FALSE

Next ==
    \/ ReadRadioImage \/ ResetModem \/ ReadBootcore \/ ReadInfoSize
    \/ SendPsiByte \/ SendCrc \/ ReadAck \/ InitWait \/ MapOnedram
    \/ NvPart \/ DeinitWait

(* rild runs the bootstrap to its end on one thread.                       *)
Spec == Init /\ [][Next]_vars /\ WF_vars(Next)

-----------------------------------------------------------------------------
(* Properties.                                                             *)

Ended == pc \in {"done", "error", "crashed"}

BootFailsOnlyOnFault == pc = "error" => fault

(* The bootstrap never dereferences a NULL radio image.                    *)
NoNullImageUse == pc # "crashed"

====
