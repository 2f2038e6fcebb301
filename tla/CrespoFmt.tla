----------------------------- MODULE CrespoFmt -----------------------------
(***************************************************************************)
(* The FMT client of crespo (device/crespo/crespo_ipc.c):                  *)
(* crespo_ipc_fmt_client_send and crespo_ipc_fmt_client_recv, over the     *)
(* modem_io driver that crespo_ipc_write and crespo_ipc_read reach by      *)
(* ioctl.  A modem_io message carries a size and a pointer; the driver     *)
(* moves size bytes.  An FMT message is a struct ipc_header (u16 length,   *)
(* then mseq, aseq, group, index, type) followed by its payload.           *)
(*                                                                         *)
(* Bytes are not modelled one by one: the payload of message m with n      *)
(* bytes is Payload(m, n), and a copy of n bytes out of a frame is the     *)
(* payload it lands in, so lengths near 2^16 cost nothing.                 *)
(***************************************************************************)
EXTENDS Naturals, Integers, Sequences

CONSTANTS
    HdrSize,    \* sizeof(struct ipc_header) (include/ipc.h, not in src/)
    Lens,       \* payload lengths of the frames the modem sends
    ReqLens,    \* request->length of the requests rild sends
    MaxMsgs,    \* how many frames the modem sends
    MaxReqs,    \* how many requests rild sends
    IoFaults    \* the ioctls may fail

ASSUME HdrSize \in Nat \ {0} /\ Lens \subseteq Nat /\ ReqLens \subseteq Nat
ASSUME MaxMsgs \in Nat /\ MaxReqs \in Nat /\ IoFaults \in BOOLEAN

MAX_MODEM_DATA_SIZE == 327680   \* 0x50000 (crespo_ipc.h)
U16 == 65536                    \* the range of reqhdr.length

NoData == [m |-> 0, n |-> 0]
Payload(m, n) == IF n = 0 THEN NoData ELSE [m |-> m, n |-> n]
Msg(i, d) == [aseq |-> i, data |-> d]

VARIABLES
    mq,       \* modem_io messages from the modem waiting in the driver
    msent,    \* the FMT messages the modem has sent, in order
    fpc,      \* "idle", or "recv" inside crespo_ipc_fmt_client_recv
    flock,    \* the "secril_fmt-interface" wake lock is held
    fgot,     \* the responses recv returned 0 with, in order
    nreq,     \* how many requests rild has sent
    modemGot, \* the modem_io messages the modem has received from rild
    overflow  \* a memcpy of fmt_client_send went past its malloc'd buffer

vars == <<mq, msent, fpc, flock, fgot, nreq, modemGot, overflow>>

-----------------------------------------------------------------------------
(* The modem.                                                              *)

(* The modem sends its next FMT message: a header whose length counts     *)
(* itself, with aseq = its number, and a payload.                          *)
ModemSend ==
    /\ Len(msent) < MaxMsgs
    /\ \E n \in Lens :
         LET i == Len(msent) + 1 IN
         /\ msent' = Append(msent, Msg(i, Payload(i, n)))
         /\ mq' = Append(mq, [size |-> HdrSize + n, aseq |-> i, len |-> n])
    /\ UNCHANGED <<fpc, flock, fgot, nreq, modemGot, overflow>>

-----------------------------------------------------------------------------
(* crespo_ipc_fmt_client_recv.                                             *)

(* crespo_ipc_read returns -1 when its ioctl fails, as it may under        *)
(* IoFaults, and 0 otherwise (crespo_ipc.c:501-523).                       *)
ReadResults == IF IoFaults THEN {-1, 0} ELSE {0}

(* Called once the FMT descriptor is readable: the buffers are set up and *)
(* the wake lock taken (crespo_ipc.c:353-365).                             *)
FmtRecvStart ==
    /\ fpc = "idle" /\ mq # <<>>
    /\ fpc' = "recv" /\ flock' = TRUE
    /\ UNCHANGED <<mq, msent, fgot, nreq, modemGot, overflow>>

(* A plausible bug: the payload length is taken as the whole size.        *)
RespLengthWithHdr(size) == size

(* response->length = modem_data.size - sizeof(struct ipc_header), in the  *)
(* int of struct ipc_message_info (crespo_ipc.c:389).                      *)
RespLength(size) == size - HdrSize

(* The response's payload: length bytes copied from the frame after its   *)
(* header, or none when length <= 0 (crespo_ipc.c:381-397).                 *)
RespData(fr) ==
    LET length == RespLength(fr.size) IN
    IF length <= 0 THEN NoData
    ELSE IF length <= fr.len THEN Payload(fr.aseq, length)
    ELSE [m |-> fr.aseq, n |-> length, past |-> TRUE]

(* The ioctl, the size check, the parse and wake_unlock.  A failed ioctl   *)
(* or size check returns -1 with the wake lock held (crespo_ipc.c:366-405). *)
FmtRecv ==
    /\ fpc = "recv"
    /\ fpc' = "idle"
    /\ \/ /\ -1 \in ReadResults
          /\ UNCHANGED <<mq, flock, fgot>>
       \/ /\ 0 \in ReadResults /\ mq # <<>>
          /\ mq' = Tail(mq)
          /\ LET fr == Head(mq) IN
             IF fr.size <= 0 \/ fr.size >= MAX_MODEM_DATA_SIZE
             THEN UNCHANGED <<flock, fgot>>
             ELSE /\ fgot' = Append(fgot, Msg(fr.aseq, RespData(fr)))
                  /\ flock' = FALSE
    /\ UNCHANGED <<msent, nreq, modemGot, overflow>>

-----------------------------------------------------------------------------
(* crespo_ipc_fmt_client_send.                                             *)

(* crespo_ipc_write returns -1 when its ioctl fails (crespo_ipc.c:525-544). *)
WriteResults == IF IoFaults THEN {-1, 0} ELSE {0}

(* A plausible bug: the header length leaves out the header.              *)
HdrLengthPayloadOnly(len) == len % U16

(* reqhdr.length = (uint16_t) (request->length + sizeof(struct ipc_header)) *)
(* (crespo_ipc.c:315).                                                     *)
HdrLength(len) == (len + HdrSize) % U16

(* rild sends request number k with a payload of len bytes: modem_data.size *)
(* is len + sizeof(hdr), the buffer is malloc(reqhdr.length), the header   *)
(* and then len payload bytes are copied into it, and crespo_ipc_write     *)
(* hands the message to the driver, which moves size bytes to the modem    *)
(* (crespo_ipc.c:301-328).                                                 *)
FmtSend ==
    /\ nreq < MaxReqs
    /\ \E len \in ReqLens, rc \in WriteResults :
         LET k == nreq + 1
             alloc == HdrLength(len)
         IN  /\ nreq' = k
             /\ overflow' = (overflow \/ HdrSize + len > alloc)
             /\ modemGot' = IF rc = 0
                            THEN Append(modemGot, [mseq |-> k, size |-> len + HdrSize,
                                                   hdrlen |-> alloc,
                                                   pay |-> Payload(k, len)])
                            ELSE modemGot
    /\ UNCHANGED <<mq, msent, fpc, flock, fgot>>

-----------------------------------------------------------------------------

Init ==
    /\ mq = <<>> /\ msent = <<>> /\ fpc = "idle" /\ flock = FALSE
    /\ fgot = <<>> /\ nreq = 0 /\ modemGot = <<>> /\ overflow = FALSE

Next == ModemSend \/ FmtRecvStart \/ FmtRecv \/ FmtSend

(* rild's FMT thread calls recv again whenever the descriptor is readable. *)
Spec == Init /\ [][Next]_vars /\ WF_vars(FmtRecvStart \/ FmtRecv)

-----------------------------------------------------------------------------
(* Properties.                                                             *)

Payloads == {Payload(i, n) : i \in 1..MaxMsgs, n \in Lens}

TypeOK ==
    /\ Len(msent) <= MaxMsgs /\ Len(mq) <= Len(msent)
    /\ fpc \in {"idle", "recv"} /\ flock \in BOOLEAN /\ overflow \in BOOLEAN
    /\ Len(fgot) <= Len(msent) /\ nreq \in 0..MaxReqs /\ Len(modemGot) <= nreq

(* The FMT receive hands rild the messages the modem sent, each intact     *)
(* with its own aseq, in order, none twice: it implements RfsChannel.      *)
Chan == INSTANCE RfsChannel WITH sent <- msent, got <- fgot
FmtChanRefined == Chan!Spec

(* Every FMT message the modem receives from fmt_client_send is intact:   *)
(* its header's length field is the size the driver moved, so the modem   *)
(* finds the next message where it starts, and building it never wrote    *)
(* past the buffer malloc'd for it.                                        *)
SendFramesIntact ==
    /\ ~overflow
    /\ \A i \in 1..Len(modemGot) : modemGot[i].hdrlen = modemGot[i].size

=============================================================================
