------------------------------- MODULE H1Ipc -------------------------------
(***************************************************************************)
(* The delimited (HDLC-like) frame codec of h1 (device/h1/h1_ipc.c):       *)
(* h1_ipc_send and h1_ipc_recv over the DPRAM tty, which h1_ipc_open puts  *)
(* in raw mode.  A frame is FRAME_START, a struct hdlc_header (u16 length, *)
(* u8 unknown, then the 7-byte struct ipc_header: u16 length, mseq, aseq,  *)
(* group, index, type), the payload and FRAME_END.  The hdlc length counts *)
(* the hdlc header and the payload, not the two markers.                   *)
(*                                                                         *)
(* A byte of the modem's stream is [m |-> i, k |-> j], the byte at offset *)
(* j of frame i: offset 0 is FRAME_START, the last offset FRAME_END, and   *)
(* the value of a header byte is read off the frame it belongs to.         *)
(* Payload bytes are never FRAME_START here (the code does no escaping).   *)
(***************************************************************************)
EXTENDS Naturals, Sequences

CONSTANTS
    HdlcHdrSize,  \* sizeof(struct hdlc_header) (h1_ipc.h, not in src/)
    IpcHdrSize,   \* sizeof(struct ipc_header)
    Lens,         \* payload lengths of the frames the modem sends
    ReqLens,      \* request->length of the requests rild sends
    MaxMsgs,      \* how many frames the modem sends
    MaxReqs,      \* how many requests rild sends
    MaxShortReads \* how many read()s on the raw tty return fewer bytes than asked

ASSUME HdlcHdrSize = IpcHdrSize + 3 /\ IpcHdrSize \in Nat \ {0}
ASSUME Lens \subseteq Nat /\ ReqLens \subseteq Nat
ASSUME MaxMsgs \in Nat /\ MaxReqs \in Nat /\ MaxShortReads \in Nat

U16 == 65536

(* The bytes of frame i with an n-byte payload, markers included.          *)
Frame(i, n) == [j \in 1..HdlcHdrSize + n + 2 |-> [m |-> i, k |-> j - 1]]
Payload(i, n) == SubSeq(Frame(i, n), HdlcHdrSize + 2, HdlcHdrSize + n + 1)
Msg(i, d) == [aseq |-> i, data |-> d]

(* What rild finds in a response recv returned 0 for without filling it.   *)
Unfilled == [aseq |-> 0, data |-> <<>>]

VARIABLES
    wire,      \* bytes the modem has written to the tty and rild not read
    msent,     \* the messages the modem has sent, in order
    plen,      \* plen[i]: the payload length of the modem's frame i
    fgot,      \* the responses h1_ipc_recv returned 0 with, in order
    nreq,      \* how many requests rild has sent
    modemGot,  \* the frames h1_ipc_send wrote towards the modem
    nshort,    \* how many reads have returned short
    cut        \* the frames a recv with a short read took bytes of (history)

vars == <<wire, msent, plen, fgot, nreq, modemGot, nshort, cut>>

-----------------------------------------------------------------------------
(* The modem writes its next frame, whole, with aseq = its number.         *)
ModemSend ==
    /\ Len(msent) < MaxMsgs
    /\ \E n \in Lens :
         LET i == Len(msent) + 1 IN
         /\ msent' = Append(msent, Msg(i, Payload(i, n)))
         /\ plen' = Append(plen, n)
         /\ wire' = wire \o Frame(i, n)
    /\ UNCHANGED <<fgot, nreq, modemGot, nshort, cut>>

(* h1_ipc_read is read(fd, data, size): on a raw tty (VMIN 1) it returns   *)
(* between 1 and size bytes once one is there (h1_ipc.c:185-198).  At     *)
(* most MaxShortReads reads come back short.                               *)
ReadSizes(size) ==
    IF nshort < MaxShortReads THEN 1..size ELSE {size}

FramesOf(s) == {s[j].m : j \in 1..Len(s)}

(* The value of the u16 at bytes k, k+1 of frame i: hdlc length at k = 1,  *)
(* ipc length at k = 4.                                                    *)
HdrField(b) ==
    IF b.k = 1 THEN (HdlcHdrSize + plen[b.m]) % U16
    ELSE (IpcHdrSize + plen[b.m]) % U16

IsStart(b) == b.k = 0                                \* FRAME_START, 0x7F
IsEnd(b) == b.k = HdlcHdrSize + plen[b.m] + 1         \* FRAME_END, 0x7E

(* response->length = ipc->length - sizeof(struct ipc_header)            *)
(* (h1_ipc.c:167).                                                         *)
RespLength(b) == HdrField(b) - IpcHdrSize

(* h1_ipc_recv: a 4-byte read for the start marker and the hdlc length and *)
(* unknown bytes, then a read of the rest of the frame, left = length - 2  *)
(* bytes, whose last must be FRAME_END.  On success the response is the    *)
(* ipc header's fields and length - 7 payload bytes.  Every path returns 0 *)
(* (h1_ipc.c:141-183).                                                     *)
H1Recv ==
    /\ wire # <<>>
    /\ \E r1 \in ReadSizes(4) :
         LET n1 == IF r1 <= Len(wire) THEN r1 ELSE Len(wire)
             buf == SubSeq(wire, 1, n1)
             rest == SubSeq(wire, n1 + 1, Len(wire))
         IN
         IF n1 # 4 \/ ~IsStart(buf[1])
         THEN /\ wire' = rest
              /\ fgot' = Append(fgot, Unfilled)
              /\ nshort' = IF r1 < 4 THEN nshort + 1 ELSE nshort
              /\ cut' = IF r1 < 4 THEN cut \cup FramesOf(buf) ELSE cut
         ELSE LET left == HdrField(buf[2]) - 3 + 1 IN
              \E r2 \in ReadSizes(left) :
                LET n2 == IF r2 <= Len(rest) THEN r2 ELSE Len(rest)
                    data == SubSeq(rest, 1, n2)
                IN
                /\ wire' = SubSeq(rest, n2 + 1, Len(rest))
                /\ nshort' = IF r2 < left THEN nshort + 1 ELSE nshort
                /\ cut' = IF r2 < left THEN cut \cup FramesOf(buf \o data) ELSE cut
                /\ IF n2 = left /\ IsEnd(data[left])
                   THEN LET len == RespLength(data[1]) IN
                        fgot' = Append(fgot,
                                  Msg(data[4].m, SubSeq(data, IpcHdrSize + 1, IpcHdrSize + len)))
                   ELSE fgot' = Append(fgot, Unfilled)
    /\ UNCHANGED <<msent, plen, nreq, modemGot>>

-----------------------------------------------------------------------------
(* h1_ipc_send: a frame of sizeof(hdlc) + length + 2 bytes, whose hdlc and  *)
(* ipc length fields are u16, written with one write() whose result is     *)
(* ignored; it returns 0 (h1_ipc.c:96-139).  h1_ipc_write is write(fd, ...) *)
(* (200-213); a blocking tty write takes the whole frame.                   *)
H1Send ==
    /\ nreq < MaxReqs
    /\ \E len \in ReqLens :
         /\ nreq' = nreq + 1
         /\ modemGot' = Append(modemGot,
                          [mseq |-> nreq + 1, size |-> HdlcHdrSize + len + 2,
                           hdlclen |-> (HdlcHdrSize + len) % U16,
                           ipclen |-> (IpcHdrSize + len) % U16])
    /\ UNCHANGED <<wire, msent, plen, fgot, nshort, cut>>

Init ==
    /\ wire = <<>> /\ msent = <<>> /\ plen = <<>> /\ fgot = <<>>
    /\ nreq = 0 /\ modemGot = <<>> /\ nshort = 0 /\ cut = {}

Next == ModemSend \/ H1Recv \/ H1Send

(* rild's FMT loop calls recv whenever the tty is readable.                *)
Spec == Init /\ [][Next]_vars /\ WF_vars(H1Recv)

-----------------------------------------------------------------------------
(* Properties.                                                             *)

Payloads == {Payload(i, n) : i \in 1..MaxMsgs, n \in Lens}

TypeOK ==
    /\ Len(msent) <= MaxMsgs /\ Len(plen) = Len(msent)
    /\ nreq \in 0..MaxReqs /\ Len(modemGot) = nreq
    /\ nshort \in 0..MaxShortReads /\ cut \subseteq 1..Len(msent)

(* Every response h1_ipc_recv returns 0 with is a message the modem sent,  *)
(* intact, in order and not twice: the receive implements RfsChannel, and  *)
(* a frame it cannot decode is a failure, not a response (the framing-error *)
(* rule of the delimited variant).                                         *)
Chan == INSTANCE RfsChannel WITH sent <- msent, got <- fgot
H1ChanRefined == Chan!Spec

(* A short read loses only the frames it took bytes of: every frame the     *)
(* modem wrote that no short read touched is returned by some later recv.  *)
(* h1_ipc_recv never looks for FRAME_START, so this is about whether the   *)
(* next 4-byte read starts on a frame again.                               *)
Delivered(i) == i <= Len(msent) /\ \E j \in 1..Len(fgot) : fgot[j] = msent[i]
UncutFramesDelivered ==
    \A i \in 1..MaxMsgs :
        (i <= Len(msent)) ~> (Delivered(i) \/ i \in cut)

(* Every frame h1_ipc_send writes has an hdlc length of its size less the  *)
(* two markers and an ipc length of the hdlc length less the hdlc prefix,  *)
(* so the modem finds the frame's end where it is.                         *)
SendFramesIntact ==
    \A i \in 1..Len(modemGot) :
        /\ modemGot[i].hdlclen + 2 = modemGot[i].size
        /\ modemGot[i].ipclen + 3 = modemGot[i].hdlclen

=============================================================================
