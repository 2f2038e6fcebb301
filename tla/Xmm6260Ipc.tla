----------------------------- MODULE Xmm6260Ipc -----------------------------
(***************************************************************************)
(* The xmm6260 IPC client (device/xmm6260/xmm6260_ipc.c) as three        *)
(* actors: the RFS thread calling xmm6260_ipc_rfs_client_recv on          *)
(* /dev/umts_rfs0, the FMT thread calling xmm6260_ipc_fmt_client_recv on  *)
(* /dev/umts_ipc0, and rild's requests going out through                  *)
(* xmm6260_ipc_fmt_client_send.  The modem is the environment.            *)
(*                                                                         *)
(* A frame is a header (rfs_hdr: id, cmd, size; ipc_header: length, mseq, *)
(* aseq, group, index, type) followed by the payload; the size or length  *)
(* field counts the header.  Both headers are HdrSize bytes here.  A byte *)
(* from the modem is the pair [m, k]: the k-th byte of frame m; a byte of *)
(* a host frame is [r, k], its header a record of its fields.            *)
(* The client reads at most IPC_MAX_XFER bytes per read() and             *)
(* accumulates a frame over several reads.  The fd is O_NONBLOCK and the  *)
(* read is preceded by expect(fd, 100), so a read with no byte ready      *)
(* returns -1, and a read at end of file returns 0.                       *)
(***************************************************************************)
EXTENDS Naturals, Integers, Sequences, FiniteSets, FiniteSetsExt

CONSTANTS HdrSize,       \* sizeof(struct rfs_hdr)
          MaxXfer,       \* IPC_MAX_XFER
          MaxMsgs,       \* how many frames the modem sends
          PayloadLens,   \* the payload lengths a frame may have
          Packetized,    \* the driver never returns bytes of two frames in one read
          SplitSends,    \* a frame may reach the driver in two pieces
          ModemResets,   \* the modem may stop in the middle of a frame (EOF)
          GarbageSizes,  \* values of header.size parsed from non-header bytes
          Junk,          \* header.id parsed from non-header bytes
          Unset,         \* a byte of a malloc'd buffer nothing was copied to
          NoHdr,         \* header before the first read
          MaxFmt,        \* how many FMT frames the modem sends
          MaxReqs,       \* how many FMT requests rild sends
          FmtLens,       \* the payload lengths of FMT frames and requests
          ShortWrites,   \* write() on the O_NONBLOCK fd may be short or fail
          Zero           \* a byte of the zero-initialised stack buffer

ASSUME HdrSize \in Nat \ {0} /\ MaxXfer >= HdrSize
ASSUME MaxMsgs \in Nat /\ PayloadLens \subseteq Nat /\ GarbageSizes \subseteq Nat

\* Frame i with a payload of len bytes; its header->size is
\* sizeof(struct rfs_hdr) + request->length, as rfs_client_send sets it.
Frame(i, len) == [k \in 1..HdrSize + len |-> [m |-> i, k |-> k]]

Payload(i, len) == SubSeq(Frame(i, len), HdrSize + 1, HdrSize + len)

MaxFrame == Max({HdrSize + l : l \in PayloadLens} \cup GarbageSizes)

Byte == [m : 1..MaxMsgs, k : 1..MaxFrame]

VARIABLES wire,      \* bytes written by the modem, not yet read
          outq,      \* the rest of a frame the modem is still writing
          hup,       \* the modem has stopped
          sent,      \* frames the modem has started to send (as messages)
          pc,        \* "idle" between calls of recv, "loop" inside it
          lock,      \* RFS_LOCK_NAME is held
          hdrRecv,   \* header_recv
          hdr,       \* header (id and size)
          data,      \* response->data, of length response->length
          count,     \* count
          overflow,  \* a memcpy wrote past response->data
          got,       \* responses recv returned 0 for, in order
          fwire, foutq, fsent,  \* the same three for /dev/umts_ipc0
          fpc,       \* FMT thread: "idle", "second" (before the second read), "dead"
          flock,     \* FMT_LOCK_NAME is held
          fbuf,      \* buf of fmt_client_recv, up to what was read
          fhdr,      \* ipc (the header parsed from buf)
          fgot,      \* responses fmt_client_recv returned 0 for
          down,      \* bytes fmt_client_send wrote towards the modem
          reqs       \* payload length of each request fmt_client_send was called with

rfsVars == <<wire, outq, sent, pc, lock, hdrRecv, hdr, data, count,
             overflow, got>>
fmtVars == <<fwire, foutq, fsent, fpc, flock, fbuf, fhdr, fgot>>
hostVars == <<down, reqs>>
vars == <<hup, rfsVars, fmtVars, hostVars>>

-----------------------------------------------------------------------------
(* The modem.                                                              *)

\* A frame reaches the driver whole, or (SplitSends, ModemResets) as a
\* first piece and the rest later.
ModemSend ==
    /\ ~hup /\ outq = <<>> /\ Len(sent) < MaxMsgs
    /\ \E len \in PayloadLens :
       LET i == Len(sent) + 1
           f == Frame(i, len)
           cuts == IF SplitSends \/ ModemResets THEN 1..Len(f) ELSE {Len(f)}
       IN \E c \in cuts :
            /\ wire' = wire \o SubSeq(f, 1, c)
            /\ outq' = SubSeq(f, c + 1, Len(f))
            /\ sent' = Append(sent, [aseq |-> i, data |-> Payload(i, len)])
    /\ UNCHANGED <<hup, pc, lock, hdrRecv, hdr, data, count, overflow, got,
                   fmtVars, hostVars>>

ModemFlush ==
    /\ outq # <<>>
    /\ wire' = wire \o outq
    /\ outq' = <<>>
    /\ UNCHANGED <<hup, sent, pc, lock, hdrRecv, hdr, data, count, overflow, got,
                   fmtVars, hostVars>>

\* The modem resets with a frame half written: both devices read EOF.
ModemReset ==
    /\ ModemResets /\ (outq # <<>> \/ foutq # <<>>)
    /\ outq' = <<>> /\ foutq' = <<>> /\ hup' = TRUE
    /\ UNCHANGED <<wire, sent, pc, lock, hdrRecv, hdr, data, count, overflow, got,
                   fwire, fsent, fpc, flock, fbuf, fhdr, fgot, hostVars>>

-----------------------------------------------------------------------------
(* xmm6260_ipc_read: expect(fd, 100), then read(fd, buf, size).           *)

\* The bytes at the head of the stream that belong to the same frame.
Rest(w) == Cardinality({j \in 1..Len(w) : w[j].m = w[1].m})

ReadSizes(w, size) ==
    IF w = <<>> THEN IF hup THEN {0} ELSE {-1}
    ELSE IF Packetized THEN {Min({size, Rest(w)})}
    ELSE 1..Min({size, Len(w)})

\* memcpy(&header, buf, sizeof(header)): the bytes of the header of a
\* frame in fr give that frame's id and size, any other bytes some id and size.
Headers(b, fr) ==
    IF \A j \in 1..HdrSize : b[j] = [m |-> b[1].m, k |-> j]
    THEN {[id |-> b[1].m, size |-> HdrSize + Len(fr[b[1].m].data)]}
    ELSE {[id |-> Junk, size |-> g] : g \in GarbageSizes}

\* memcpy(d + off, src, Len(src)) within the malloc'd d; what falls past
\* its end is the overflow.
Memcpy(d, off, src) ==
    [j \in DOMAIN d |-> IF off < j /\ j <= off + Len(src) THEN src[j - off]
                                                          ELSE d[j]]

Overruns(d, off, src) == off + Len(src) > Len(d)

\* The bytes of the first read after the header.
FirstPayloadWithHdr(b) == b
FirstPayload(b) == SubSeq(b, HdrSize + 1, Len(b))

\* Where a later read is copied: response->data + count - sizeof(hdr).
ChunkOffsetFromCount == count
ChunkOffset == count - HdrSize

\* while (count < header.size)
KeepReadingInclusive(c, h) == c <= h.size
KeepReading(c, h) == c < h.size

-----------------------------------------------------------------------------
(* xmm6260_ipc_rfs_client_recv.                                            *)

RecvStartKeepCount ==
    /\ pc = "idle"
    /\ pc' = "loop" /\ lock' = TRUE /\ hdrRecv' = FALSE /\ hdr' = NoHdr
    /\ UNCHANGED <<wire, outq, hup, sent, data, count, overflow, got,
                   fmtVars, hostVars>>

\* wake_lock, then the locals' initial values.
RecvStart ==
    /\ pc = "idle"
    /\ pc' = "loop" /\ lock' = TRUE /\ hdrRecv' = FALSE /\ hdr' = NoHdr
    /\ count' = 0
    /\ UNCHANGED <<wire, outq, hup, sent, data, overflow, got,
                   fmtVars, hostVars>>

\* ret = -1; goto done: wake_unlock, return -1.
Fail ==
    /\ pc' = "idle" /\ lock' = FALSE
    /\ UNCHANGED <<hdrRecv, hdr, data, count, overflow, got>>

\* The end of a loop iteration with header h, buffer d and count c: the
\* loop test, and on leaving it wake_unlock and return 0.
Accept(h, d, c) ==
    /\ hdrRecv' = TRUE /\ hdr' = h /\ data' = d /\ count' = c
    /\ IF KeepReading(c, h)
       THEN pc' = "loop" /\ UNCHANGED <<lock, got>>
       ELSE /\ pc' = "idle" /\ lock' = FALSE
            /\ got' = Append(got, [aseq |-> h.id, data |-> d])

\* The first read: check its size and the header's, set the response,
\* malloc response->length bytes and copy rc - sizeof(hdr) into them.
FirstChunk(b) ==
    IF Len(b) < HdrSize THEN Fail /\ UNCHANGED overflow
    ELSE \E h \in Headers(b, sent) :
           IF h.size < HdrSize THEN Fail /\ UNCHANGED overflow
           ELSE LET len == h.size - HdrSize
                    fresh == [j \in 1..len |-> Unset]
                    src == FirstPayload(b)
                IN /\ overflow' = (overflow \/ (len > 0 /\ Overruns(fresh, 0, src)))
                   /\ Accept(h, IF len > 0 THEN Memcpy(fresh, 0, src) ELSE <<>>,
                             count + Len(b))

\* A later read: copy rc bytes at count - sizeof(hdr), count += rc.
NextChunk(b) ==
    /\ overflow' = (overflow \/ Overruns(data, ChunkOffset, b))
    /\ Accept(hdr, Memcpy(data, ChunkOffset, b), count + Len(b))

\* One iteration of the do-while loop, from the read to the loop test.
RecvRead ==
    /\ pc = "loop"
    /\ \E rc \in ReadSizes(wire, MaxXfer) :
         /\ wire' = IF rc > 0 THEN SubSeq(wire, rc + 1, Len(wire)) ELSE wire
         /\ IF rc < 0 THEN Fail /\ UNCHANGED overflow
            ELSE IF ~hdrRecv THEN FirstChunk(SubSeq(wire, 1, rc))
            ELSE NextChunk(SubSeq(wire, 1, rc))
    /\ UNCHANGED <<outq, hup, sent, fmtVars, hostVars>>

-----------------------------------------------------------------------------
(* The FMT device: the modem's frames, and xmm6260_ipc_fmt_client_recv.    *)

fmtRecvLocals == <<fpc, flock, fbuf, fhdr, fgot>>

\* At EOF every call returns at once, so the responses are counted only
\* up to this bound: one more than the frames sent.
MaxFmtReturns == MaxFmt + 1

FmtModemSend ==
    /\ ~hup /\ foutq = <<>> /\ Len(fsent) < MaxFmt
    /\ \E len \in FmtLens :
       LET i == Len(fsent) + 1
           f == Frame(i, len)
           cuts == IF SplitSends \/ ModemResets THEN 1..Len(f) ELSE {Len(f)}
       IN \E c \in cuts :
            /\ fwire' = fwire \o SubSeq(f, 1, c)
            /\ foutq' = SubSeq(f, c + 1, Len(f))
            /\ fsent' = Append(fsent, [aseq |-> i, data |-> Payload(i, len)])
    /\ UNCHANGED <<hup, rfsVars, fmtRecvLocals, hostVars>>

FmtModemFlush ==
    /\ foutq # <<>>
    /\ fwire' = fwire \o foutq
    /\ foutq' = <<>>
    /\ UNCHANGED <<hup, rfsVars, fsent, fmtRecvLocals, hostVars>>

\* memcpy(&ipc, buf, sizeof(ipc)) after a read of fewer bytes than the
\* header parses the zeros of buf as well.
FmtHeaders(b) ==
    IF Len(b) >= HdrSize THEN Headers(b, fsent)
    ELSE {[id |-> Junk, size |-> g] : g \in GarbageSizes}

\* response->length = ipc.length - sizeof(ipc)
FmtLenWithHdr(h) == h.size
FmtLen(h) == h.size - HdrSize

\* memcpy(response->data, buf + sizeof(ipc), response->length): buf holds
\* what the reads put there and zeros after it.
FmtPayload(buf, len) ==
    [j \in 1..len |-> IF HdrSize + j <= Len(buf) THEN buf[HdrSize + j] ELSE Zero]

\* From the second memcpy of the header to done: a length below the header
\* wraps, malloc of it fails and the memcpy to NULL kills the thread.
FmtDone(h, buf) ==
    /\ fbuf' = buf /\ fhdr' = h
    /\ IF FmtLen(h) < 0
       THEN fpc' = "dead" /\ UNCHANGED <<flock, fgot>>
       ELSE /\ fpc' = "idle" /\ flock' = FALSE
            /\ fgot' = Append(fgot, [aseq |-> h.id,
                                     data |-> FmtPayload(buf, FmtLen(h))])

\* rild calls recv once the fd is readable.  wake_lock and the first read;
\* a read of 0 or -1 returns 0 with an empty response whose other fields
\* were never set.
FmtRecv ==
    /\ fpc = "idle" /\ (fwire # <<>> \/ hup) /\ Len(fgot) < MaxFmtReturns
    /\ \E rc \in ReadSizes(fwire, MaxXfer) :
         LET b == SubSeq(fwire, 1, Max({rc, 0})) IN
         /\ fwire' = SubSeq(fwire, Len(b) + 1, Len(fwire))
         /\ IF rc <= 0
            THEN /\ fgot' = Append(fgot, [aseq |-> Junk, data |-> <<>>])
                 /\ UNCHANGED <<fpc, flock, fbuf, fhdr>>
            ELSE \E h \in FmtHeaders(b) :
                   IF h.size - rc > 0
                   THEN /\ fpc' = "second" /\ flock' = TRUE
                        /\ fbuf' = b /\ fhdr' = h
                        /\ UNCHANGED fgot
                   ELSE FmtDone(h, b)
    /\ UNCHANGED <<hup, rfsVars, foutq, fsent, hostVars>>

\* read(buf + num_read, left), then the rest of the function.
FmtRecvRest ==
    /\ fpc = "second"
    /\ \E rc \in ReadSizes(fwire, fhdr.size - Len(fbuf)) :
         LET b == SubSeq(fwire, 1, Max({rc, 0})) IN
         /\ fwire' = SubSeq(fwire, Len(b) + 1, Len(fwire))
         /\ FmtDone(fhdr, fbuf \o b)
    /\ UNCHANGED <<hup, rfsVars, foutq, fsent, hostVars>>

-----------------------------------------------------------------------------
(* xmm6260_ipc_fmt_client_send and xmm6260_ipc_write.                      *)

\* frame_length = sizeof(*hdr) + request->length; hdr->length is 16 bits.
HdrLengthPayloadOnly(len) == len % 65536
HdrLength(len) == (HdrSize + len) % 65536

\* The frame of request i: the header, as a record of its fields and
\* padding bytes, then the payload copied from request->data.
HostFrame(i, len) ==
    <<[aseq |-> i, length |-> HdrLength(len)]>>
    \o [k \in 1..HdrSize - 1 |-> [r |-> i, k |-> 0]]
    \o [k \in 1..len |-> [r |-> i, k |-> k]]

\* What write() may return on the O_NONBLOCK fd for n bytes.
Writes(n) == IF ShortWrites THEN {-1} \cup 0..n ELSE {n}

\* The whole function, under its wake lock; the result of write() is
\* ignored and 0 is returned.
FmtSend ==
    /\ Len(reqs) < MaxReqs
    /\ \E len \in FmtLens :
       LET f == HostFrame(Len(reqs) + 1, len) IN
       \E w \in Writes(Len(f)) :
          /\ down' = down \o SubSeq(f, 1, Max({w, 0}))
          /\ reqs' = Append(reqs, len)
    /\ UNCHANGED <<hup, rfsVars, fmtVars>>

-----------------------------------------------------------------------------

Init ==
    /\ wire = <<>> /\ outq = <<>> /\ hup = FALSE /\ sent = <<>>
    /\ pc = "idle" /\ lock = FALSE /\ hdrRecv = FALSE /\ hdr = NoHdr
    /\ data = <<>> /\ count = 0 /\ overflow = FALSE /\ got = <<>>
    /\ fwire = <<>> /\ foutq = <<>> /\ fsent = <<>>
    /\ fpc = "idle" /\ flock = FALSE /\ fbuf = <<>> /\ fhdr = NoHdr
    /\ fgot = <<>> /\ down = <<>> /\ reqs = <<>>

Modem == ModemSend \/ ModemFlush \/ ModemReset \/ FmtModemSend \/ FmtModemFlush

Recv == RecvStart \/ RecvRead

Next == Modem \/ Recv \/ FmtRecv \/ FmtRecvRest \/ FmtSend

\* rild's RFS and FMT threads call recv again and again; the driver passes
\* on what the modem wrote.  Neither the modem nor rild need send.
Spec == Init /\ [][Next]_vars
        /\ WF_vars(Recv) /\ WF_vars(FmtRecv \/ FmtRecvRest)
        /\ WF_vars(ModemFlush) /\ WF_vars(FmtModemFlush)


-----------------------------------------------------------------------------
(* Properties.                                                             *)

TypeOK ==
    /\ wire \in Seq(Byte) /\ outq \in Seq(Byte) /\ hup \in BOOLEAN
    /\ sent \in Seq([aseq : 1..MaxMsgs, data : Seq(Byte)])
    /\ pc \in {"idle", "loop"} /\ lock \in BOOLEAN /\ hdrRecv \in BOOLEAN
    /\ hdr \in {NoHdr} \cup [id : (1..MaxMsgs) \cup {Junk}, size : 0..MaxFrame]
    /\ data \in Seq(Byte \cup {Unset})
    /\ count \in 0..MaxFrame + MaxXfer
    /\ overflow \in BOOLEAN
    /\ got \in Seq([aseq : (1..MaxMsgs) \cup {Junk}, data : Seq(Byte \cup {Unset})])
    /\ fwire \in Seq(Byte) /\ foutq \in Seq(Byte)
    /\ fpc \in {"idle", "second", "dead"} /\ flock \in BOOLEAN
    /\ fbuf \in Seq(Byte) /\ Len(fbuf) <= MaxFrame
    /\ fgot \in Seq([aseq : (1..MaxFmt) \cup {Junk}, data : Seq(Byte \cup {Zero})])
    /\ reqs \in Seq(FmtLens)

\* No memcpy of recv, the one after the header or the ones of later reads,
\* writes past the response->length bytes malloc'd for the frame.
NoOverflow == ~overflow

\* recv implements the RFS channel: every response it returns 0 for is a
\* frame the modem sent, with that frame's aseq and payload, later than the
\* previous response's; frames are only ever dropped, never mixed.
Chan == INSTANCE RfsChannel
          WITH Payloads <- {Payload(i, l) : i \in 1..MaxMsgs, l \in PayloadLens}

ChanRefined == Chan!Spec

\* Every frame the modem sends is eventually returned by a call of recv:
\* the loop accumulates all the reads of a frame before it returns.
EveryMessageDelivered ==
    \A i \in 1..MaxMsgs :
        Len(sent) >= i ~> \E j \in DOMAIN got : got[j].aseq = i

\* fmt_client_recv implements the same channel for the FMT device: every
\* response it returns 0 for is an FMT frame the modem sent, intact, in
\* order; response->length is the header's length less the header.
FChan == INSTANCE RfsChannel
           WITH sent <- fsent, got <- fgot, MaxMsgs <- MaxFmt,
                Payloads <- {Payload(i, l) : i \in 1..MaxFmt, l \in FmtLens}

FmtChanRefined == FChan!Spec

\* The modem splits what it reads from /dev/umts_ipc0 into frames by the
\* length field of each header (a reference decoder, not code of rild).
RECURSIVE ModemFrames(_)
ModemFrames(s) ==
    IF s = <<>> THEN <<>>
    ELSE IF "length" \notin DOMAIN s[1] \/ s[1].length = 0 \/ s[1].length > Len(s)
    THEN <<s>>
    ELSE <<SubSeq(s, 1, s[1].length)>> \o ModemFrames(SubSeq(s, s[1].length + 1, Len(s)))

\* Request i as the spec describes its frame: header with its aseq, then
\* exactly its payload.
IsRequestFrame(f, i, len) ==
    /\ Len(f) = HdrSize + len
    /\ "aseq" \in DOMAIN f[1] /\ f[1].aseq = i
    /\ SubSeq(f, HdrSize + 1, Len(f)) = [k \in 1..len |-> [r |-> i, k |-> k]]

\* fmt_client_send frames back to back decode, by their length fields, into
\* exactly the requests rild sent, in order.
ModemGetsRequests ==
    LET fr == ModemFrames(down) IN
    /\ Len(fr) = Len(reqs)
    /\ \A i \in 1..Len(reqs) : IsRequestFrame(fr[i], i, reqs[i])

\* No response recv returns 0 for holds a byte of response->data that no
\* read was copied to: count - sizeof(hdr) tracks the bytes copied, so the
\* loop only ends once the whole payload is filled, even when the header
\* was parsed from the wrong bytes.
NoUninitialisedBytes ==
    \A j \in DOMAIN got : \A x \in 1..Len(got[j].data) : got[j].data[x] # Unset

=============================================================================
