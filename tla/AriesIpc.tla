------------------------------ MODULE AriesIpc ------------------------------
(***************************************************************************)
(* The aries IPC clients (device/aries/aries_ipc.c): the FMT and the RFS   *)
(* client, each on its own phonet datagram socket, opened by              *)
(* aries_ipc_open and closed by aries_ipc_close, and their send and recv  *)
(* over aries_ipc_write (sendto) and aries_ipc_read (recvfrom).            *)
(*                                                                         *)
(* A datagram is a record: the aseq of the message it carries, its size   *)
(* in bytes, the length field of its header and its payload length.  A    *)
(* payload is Payload(m, n), the n bytes of message m; bytes past the end *)
(* of a datagram are the zeros of recv's memset.                           *)
(***************************************************************************)
EXTENDS Naturals, Integers, Sequences

CONSTANTS
    IpcHdrSize,  \* sizeof(struct ipc_header), 7 (not in src/)
    RfsHdrSize,  \* sizeof(struct rfs_hdr) (aries_ipc.h, not in src/)
    MaxData,     \* MAX_MODEM_DATA_SIZE (aries_ipc.h, not in src/)
    Lens,        \* payload lengths of the datagrams the modem sends
    ReqLens,     \* request->length of the requests rild sends
    MaxMsgs,     \* datagrams the modem sends to each client
    MaxReqs,     \* requests rild sends through each client
    Faults       \* the socket calls of open, recvfrom and sendto may fail

ASSUME IpcHdrSize \in Nat \ {0} /\ RfsHdrSize \in Nat \ {0} /\ MaxData \in Nat
ASSUME Lens \subseteq Nat /\ ReqLens \subseteq Nat
ASSUME MaxMsgs \in Nat /\ MaxReqs \in Nat /\ Faults \in BOOLEAN

Clients == {"fmt", "rfs"}
U16 == 65536

NoData == [m |-> 0, n |-> 0]
Payload(m, n) == IF n = 0 THEN NoData ELSE [m |-> m, n |-> n]
Msg(i, d) == [aseq |-> i, data |-> d]

HdrSize(c) == IF c = "fmt" THEN IpcHdrSize ELSE RfsHdrSize

VARIABLES
    sock,     \* sock[c]: "init", "open", "failed" (open returned -1), "closed"
    q,        \* q[c]: datagrams queued at client c's socket
    msent,    \* msent[c]: the messages the modem has sent to client c
    got,      \* got[c]: the responses recv returned 0 with
    nreq,     \* nreq[c]: requests rild has sent through client c
    modemGot, \* modemGot[c]: the datagrams the modem has received: their
              \* size and the length of the request they were sent for
    overflow  \* a memcpy of a send went past its malloc'd buffer

vars == <<sock, q, msent, got, nreq, modemGot, overflow>>

-----------------------------------------------------------------------------
(* aries_ipc_open: socket(AF_PHONET, SOCK_DGRAM), SO_BINDTODEVICE,         *)
(* SIOCGIFINDEX, SO_REUSEADDR, bind to the client's phonet resource, the   *)
(* fd stored in the common data, SO_RFSMAGIC for the RFS client, then      *)
(* phonet_iface_ifup; any failure returns -1 (aries_ipc.c:564-648,         *)
(* 77-101).  rild gives up a client whose open failed.                     *)
Open(c) ==
    /\ sock[c] = "init"
    /\ sock' \in {[sock EXCEPT ![c] = "open"]}
                 \cup (IF Faults THEN {[sock EXCEPT ![c] = "failed"]} ELSE {})
    /\ UNCHANGED <<q, msent, got, nreq, modemGot, overflow>>

(* aries_ipc_close: close(common_data->fd); the fd is left in the common   *)
(* data (650-667).  Datagrams still queued go with the socket.             *)
Close(c) ==
    /\ sock[c] = "open"
    /\ sock' = [sock EXCEPT ![c] = "closed"]
    /\ q' = [q EXCEPT ![c] = <<>>]
    /\ UNCHANGED <<msent, got, nreq, modemGot, overflow>>

(* The modem sends its next message to client c's resource: a datagram   *)
(* whose header length counts the header.  Only a bound socket gets it.    *)
ModemSend(c) ==
    /\ Len(msent[c]) < MaxMsgs
    /\ \E n \in Lens :
         LET i == Len(msent[c]) + 1
             d == [aseq |-> i, size |-> HdrSize(c) + n,
                   hdrlen |-> HdrSize(c) + n, len |-> n]
         IN  /\ msent' = [msent EXCEPT ![c] = Append(@, Msg(i, Payload(i, n)))]
             /\ q' = IF sock[c] = "open" THEN [q EXCEPT ![c] = Append(@, d)] ELSE q
    /\ UNCHANGED <<sock, got, nreq, modemGot, overflow>>

-----------------------------------------------------------------------------
(* aries_ipc_read: -1 when the fd is closed or recvfrom fails, else 0, not *)
(* the number of bytes (669-695).                                          *)
ReadResults(c) ==
    IF sock[c] = "closed" THEN {-1}
    ELSE IF Faults THEN {-1, 0} ELSE {0}

(* A plausible bug: the payload length taken as the whole header length. *)
RespLengthWithHdr(c, hdrlen) == hdrlen

(* response->length = resphdr->length - sizeof(struct ipc_header) (500)   *)
(* and rfs_hdr->len - sizeof(struct rfs_hdr) (548), in an int.             *)
RespLength(c, hdrlen) == hdrlen - HdrSize(c)

(* The payload copied from the datagram after its header: length bytes,   *)
(* the ones past the datagram being the memset's zeros.                    *)
RespData(c, d) ==
    LET length == RespLength(c, d.hdrlen) IN
    IF length <= 0 THEN NoData
    ELSE IF length <= d.len THEN Payload(d.aseq, length)
    ELSE [m |-> d.aseq, n |-> length, zeros |-> length - d.len]

(* aries_ipc_fmt_client_recv and aries_ipc_rfs_client_recv: a zeroed       *)
(* MAX_MODEM_DATA_SIZE buffer, one read, the header, the length and the    *)
(* copy.  The RFS client returns -1 for a length field of 0 or MaxData and *)
(* above; the FMT client checks nothing (466-562).                         *)
Recv(c) ==
    /\ sock[c] \in {"open", "closed"}
    /\ \E rc \in ReadResults(c) :
         \/ /\ rc = -1
            /\ UNCHANGED <<q, got>>
         \/ /\ rc = 0 /\ q[c] # <<>>
            /\ q' = [q EXCEPT ![c] = Tail(@)]
            /\ LET d == Head(q[c]) IN
               IF c = "rfs" /\ (d.hdrlen <= 0 \/ d.hdrlen >= MaxData)
               THEN UNCHANGED got
               ELSE got' = [got EXCEPT ![c] = Append(@, Msg(d.aseq, RespData(c, d)))]
    /\ UNCHANGED <<sock, msent, nreq, modemGot, overflow>>

-----------------------------------------------------------------------------
(* A plausible bug: the FMT header length leaves out the header.          *)
HdrLengthPayloadOnly(c, len) == len % U16

(* reqhdr.length = (uint16_t) (request->length + sizeof(hdr)) (425) and   *)
(* rfs_hdr->len = request->length + sizeof(struct rfs_hdr) (453).          *)
HdrLength(c, len) ==
    IF c = "fmt" THEN (len + IpcHdrSize) % U16 ELSE len + RfsHdrSize

(* The buffer each send mallocs: reqhdr.length bytes (427), and           *)
(* request->length + sizeof(struct rfs_hdr) (445).                          *)
Alloc(c, len) == IF c = "fmt" THEN HdrLength(c, len) ELSE len + RfsHdrSize

(* aries_ipc_write: -1 when the fd is closed or sendto fails, else 0       *)
(* (697-724).                                                              *)
WriteResults(c) ==
    IF sock[c] = "closed" THEN {-1}
    ELSE IF Faults THEN {-1, 0} ELSE {0}

(* aries_ipc_fmt_client_send and aries_ipc_rfs_client_send: the header and *)
(* payload copied into the malloc'd buffer, and one sendto of the header's *)
(* length field bytes (415-464).                                           *)
Send(c) ==
    /\ sock[c] \in {"open", "closed"} /\ nreq[c] < MaxReqs
    /\ \E len \in ReqLens, rc \in WriteResults(c) :
         LET k == nreq[c] + 1
             hl == HdrLength(c, len)
         IN  /\ nreq' = [nreq EXCEPT ![c] = k]
             /\ overflow' = (overflow \/ HdrSize(c) + len > Alloc(c, len))
             /\ modemGot' = IF rc = 0
                            THEN [modemGot EXCEPT ![c] = Append(@,
                                    [mseq |-> k, size |-> hl, len |-> len])]
                            ELSE modemGot
    /\ UNCHANGED <<sock, q, msent, got>>

-----------------------------------------------------------------------------

Init ==
    /\ sock = [c \in Clients |-> "init"]
    /\ q = [c \in Clients |-> <<>>]
    /\ msent = [c \in Clients |-> <<>>]
    /\ got = [c \in Clients |-> <<>>]
    /\ nreq = [c \in Clients |-> 0]
    /\ modemGot = [c \in Clients |-> <<>>]
    /\ overflow = FALSE

Next ==
    \E c \in Clients :
        Open(c) \/ Close(c) \/ ModemSend(c) \/ Recv(c) \/ Send(c)

(* Each client has its own rild thread, which calls recv again whenever   *)
(* it returns.                                                             *)
Spec == Init /\ [][Next]_vars /\ \A c \in Clients : WF_vars(Recv(c))

-----------------------------------------------------------------------------
(* Properties.                                                             *)

Payloads == {Payload(i, n) : i \in 1..MaxMsgs, n \in Lens}

TypeOK ==
    /\ sock \in [Clients -> {"init", "open", "failed", "closed"}]
    /\ \A c \in Clients :
         /\ Len(q[c]) <= Len(msent[c]) /\ Len(msent[c]) <= MaxMsgs
         /\ Len(got[c]) <= Len(msent[c]) /\ nreq[c] \in 0..MaxReqs
    /\ overflow \in BOOLEAN

(* Both receive paths hand rild the messages the modem sent to them, each *)
(* intact with its own aseq, in order, none twice: each implements         *)
(* RfsChannel.  With datagrams there is no framing to lose; what is at     *)
(* stake is the length each recv takes from the header.                    *)
FmtChan == INSTANCE RfsChannel WITH sent <- msent["fmt"], got <- got["fmt"]
RfsChan == INSTANCE RfsChannel WITH sent <- msent["rfs"], got <- got["rfs"]
RecvRefined == FmtChan!Spec /\ RfsChan!Spec

(* Every datagram the modem receives from a send carries the whole         *)
(* request, header and payload, and building it never wrote past the      *)
(* buffer malloc'd for it.                                                 *)
SendDatagramsIntact ==
    /\ ~overflow
    /\ \A c \in Clients : \A i \in 1..Len(modemGot[c]) :
         modemGot[c][i].size = HdrSize(c) + modemGot[c][i].len

=============================================================================
