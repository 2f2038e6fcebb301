------------------------------- MODULE NvData -------------------------------
(***************************************************************************)
(* The NV-data store of libsamsung-ipc (samsung-ipc/rfs.c): the modem's    *)
(* parameter blob nv_data.bin, its MD5 file, a backup copy .nv_data.bak    *)
(* with its own MD5 file, and the one-byte marker .nv_state.  They are     *)
(* kept consistent by nv_data_check, nv_data_md5_check,                    *)
(* nv_data_backup_restore and nv_data_backup_create, and are read and      *)
(* written by nv_data_read and nv_data_write for the modem's RFS requests. *)
(* Those requests reach it through the crespo RFS client                   *)
(* (device/crespo/crespo_ipc.c): crespo_ipc_rfs_client_recv takes a        *)
(* modem_io message from the driver under the "secril_rfs-interface" wake *)
(* lock, the RFS handlers of rfs.c serve it, and crespo_ipc_rfs_client_send *)
(* hands their confirmation back to the driver.                            *)
(*                                                                         *)
(* One process runs this code: the NV part of the bootstrap                *)
(* (crespo_modem_bootstrap, aries_modem_bootstrap), then one RFS request   *)
(* after the other.  The C functions call one another; the model keeps a   *)
(* pc and a stack of return labels, with one action per block of code      *)
(* between two calls or two changes of a file, so that a crash can fall    *)
(* between any two of them.  The files outlive the process.                *)
(***************************************************************************)
EXTENDS Naturals, Integers, Sequences, FiniteSets

LOCAL INSTANCE SequencesExt

CONSTANTS
    NvSize,     \* nv_data_size(client): the size nv_data.bin must have
    Bytes,      \* the byte values a data file may hold (0 among them)
    Requests,   \* the NV read and write requests the modem may send
    FdLimit,    \* RLIMIT_NOFILE: descriptors the process may hold open
    IoFaults,   \* open() and write() called by rfs.c may fail or write short
    ReadBackFaults, \* a file read back may differ from what was written
    Crashes,    \* the process may die between any two steps
    InitFs,     \* the contents /efs may have when the process first starts
    NoFile,     \* model value: the file does not exist
    Blank,      \* model value: a text file left empty or torn by a failed write
    MaxModemReqs, \* how many RFS NV requests the modem sends
    ConfSize    \* sizeof(struct ipc_rfs_io_confirm) (include/rfs.h, not in src/)

ASSUME NvSize \in Nat \ {0} /\ 0 \in Bytes
ASSUME FdLimit \in Nat \ {0} /\ IoFaults \in BOOLEAN /\ Crashes \in BOOLEAN
ASSUME ReadBackFaults \in BOOLEAN
ASSUME MaxModemReqs \in Nat /\ ConfSize \in Nat \ {0}

MaxTries == 5   \* the bound on nv_data_write_tries (rfs.c:312, rfs.c:523)

DataFiles == {"nv_data", "nv_data_bak"}
Md5Files  == {"nv_data_md5", "nv_data_md5_bak"}
Files     == DataFiles \cup Md5Files \cup {"nv_state"}

(* nv_data_md5_compute followed by md5hash2string: the hex MD5 of the      *)
(* data and the secret.  The hash is taken to be free of collisions, so    *)
(* the digest of d is represented by a record that names d.                *)
Digest(d) == [md5 |-> d]

(* ipc_client_file_read(path, nv_data_size, chunk), which is not in this   *)
(* repository: a zeroed buffer of nv_data_size bytes filled from the file. *)
FileRead(f) == [i \in 1..NvSize |-> IF i <= Len(f) THEN f[i] ELSE 0]

MaxFileLen == LET ends == {r.offset + r.length : r \in Requests}
              IN  CHOOSE m \in ends \cup {NvSize} : \A e \in ends : m >= e
Contents   == BoundedSeq(Bytes, MaxFileLen)
Digests    == {Digest(d) : d \in [1..NvSize -> Bytes]}

NoReq   == [op |-> "none", offset |-> 0, length |-> 0, data |-> <<>>]
NoReply == [req |-> NoReq, ok |-> FALSE, data |-> <<>>, torn |-> FALSE]
Unset   == -1   \* nv_stat.st_size when no stat() has filled nv_stat (a size is >= 0)

MAX_MODEM_DATA_SIZE == 327680   \* 0x50000 (crespo_ipc.h)
RfsIoSize == 8  \* sizeof(struct ipc_rfs_io): offset and length, before a write's data
(* The ipc_message_info of the RFS request being served: mseq, aseq and   *)
(* index as crespo_ipc_rfs_client_recv sets them.                         *)
NoInfo  == [mseq |-> 0, aseq |-> 0, index |-> "none"]

VARIABLES
    fs,       \* file name -> content: the files under /efs
    pc,       \* label of the block the process runs next
    stack,    \* return labels of the calls in progress
    rv,       \* value returned by the last int function that returned
    stat,     \* nv_stat.st_size as nv_data_check sees it
    buf,      \* the buffer of the running copy, or the bytes nv_data_read got
    want,     \* nv_data_md5_hash_read: the digest the running copy must give
    tries,    \* nv_data_write_tries of the running copy
    leaked,   \* descriptors this process opened and never closed
    req,      \* the RFS request being served, or NoReq
    reply,    \* the confirmation of the last request served
    torn,     \* ghost: the data file holds the remains of a short write
    acked,    \* ghost: the NV content the modem has been told is stored
    rfsq,     \* modem_io messages the modem has queued in the driver, in order
    nsent,    \* how many RFS requests the modem has sent (its last id)
    info,     \* the ipc_message_info of the request being served
    rfsLock,  \* the "secril_rfs-interface" wake lock is held
    rfsData,  \* the bytes nv_data_read put at rfs_data, from offset ConfSize^2
    modemGot  \* the RFS confirmations the modem has received, in order

rfsVars == <<rfsq, nsent, info, rfsLock, rfsData, modemGot>>
vars   == <<fs, pc, stack, rv, stat, buf, want, tries, leaked, req, reply, torn, acked,
            rfsq, nsent, info, rfsLock, rfsData, modemGot>>
locals == <<rv, stat, buf, want, tries>>
world  == <<fs, leaked, req, reply, torn, acked>>

-----------------------------------------------------------------------------
(* Calls and returns.                                                      *)

Call(proc, ret) == pc' = proc /\ stack' = <<ret>> \o stack
Return          == pc' = Head(stack) /\ stack' = Tail(stack)

(* The process dies (SIGSEGV, or a crash of the phone) or its bootstrap    *)
(* fails; rild is started again and the bootstrap runs from the top.  The  *)
(* files stay as they are, and so do the messages the driver holds and a  *)
(* wake lock taken through /sys/power/wake_lock; descriptors and locals   *)
(* are gone (info and rfsData keep stale values that the next receive     *)
(* overwrites before it reads them).                                       *)
Restart ==
    /\ pc' = "boot" /\ stack' = <<>> /\ leaked' = 0
    /\ req' = NoReq /\ reply' = NoReply
    /\ rv' = 0 /\ stat' = Unset /\ buf' = <<>> /\ want' = Blank /\ tries' = 0
    /\ UNCHANGED <<fs, torn, acked>> /\ UNCHANGED rfsVars

(* The outcomes of open(): it fails when the file must exist and does not, *)
(* when the process is out of descriptors, and under IoFaults at will.     *)
Opens(f, mustExist) ==
    IF (mustExist => fs[f] # NoFile) /\ leaked < FdLimit
    THEN IF IoFaults THEN BOOLEAN ELSE {TRUE}
    ELSE {FALSE}

(* The bytes a write() of n data bytes puts in the file: all, or under     *)
(* IoFaults any shorter prefix (none at all when write() fails).           *)
Written(n) == IF IoFaults THEN 0..n ELSE {n}

(* A write() of an MD5 string: complete, short (rc >= 0, not checked), or  *)
(* failed (rc < 0).                                                        *)
TextWrites == IF IoFaults THEN {"full", "short", "error"} ELSE {"full"}

(* ipc_client_file_read returns NULL when it cannot open the file, and the *)
(* MD5 of a NULL buffer then faults.                                       *)
CanFileRead(f) == fs[f] # NoFile /\ leaked < FdLimit

(* A plausible bug: the lseek lands one byte past the requested offset.  *)
PatchAfterOffset(f, off, b) ==
    IF b = <<>> THEN f
    ELSE LET n == IF Len(f) > off + 1 + Len(b) THEN Len(f) ELSE off + 1 + Len(b)
         IN  [i \in 1..n |-> IF off + 1 < i /\ i <= off + 1 + Len(b) THEN b[i - off - 1]
                             ELSE IF i <= Len(f) THEN f[i] ELSE 0]

(* The file after write() of b at lseek offset off: bytes replaced or      *)
(* appended, a gap past the old end reading as zeros.                      *)
Patch(f, off, b) ==
    IF b = <<>> THEN f
    ELSE LET n == IF Len(f) > off + Len(b) THEN Len(f) ELSE off + Len(b)
         IN  [i \in 1..n |-> IF off < i /\ i <= off + Len(b) THEN b[i - off]
                             ELSE IF i <= Len(f) THEN f[i] ELSE 0]

(* stat() succeeds and st_size is nv_data_size.                          *)
HasNvSize(f) == IF fs[f] = NoFile THEN FALSE ELSE Len(fs[f]) = NvSize

(* A plausible bug: the lseek before the read is missing.                *)
ReadAtNoSeek(f, off, n) == SubSeq(f, 1, n)

(* The n bytes read() returns after lseek to off.                         *)
ReadAt(f, off, n) == SubSeq(f, off + 1, off + n)

(* A plausible bug: a failed try is not counted.                         *)
RetryNotCounted == tries' = tries

(* nv_data_write_tries++ after a failed open() or a short write().        *)
Retry == tries' = tries + 1

PrimaryValid ==
    HasNvSize("nv_data") /\ fs["nv_data_md5"] = Digest(fs["nv_data"])

-----------------------------------------------------------------------------
(* Bootstrap: crespo_modem_bootstrap (crespo_ipc.c:257-290), the NV part.  *)

BootCheck ==
    /\ pc = "boot"
    /\ Call("chk_stat", "boot_md5")
    /\ UNCHANGED <<locals, world>>

BootMd5Check ==
    /\ pc = "boot_md5"
    /\ \/ rv < 0 /\ Restart
       \/ rv >= 0 /\ Call("md5_check", "boot_done") /\ UNCHANGED <<locals, world>>

BootDone ==
    /\ pc = "boot_done"
    /\ \/ (rv < 0 \/ ~CanFileRead("nv_data")) /\ Restart
       \/ /\ rv >= 0 /\ CanFileRead("nv_data")
          /\ pc' = "idle" /\ acked' = FileRead(fs["nv_data"])
          /\ UNCHANGED <<stack, locals, fs, leaked, req, reply, torn>>

-----------------------------------------------------------------------------
(* nv_data_check (rfs.c:628-689).                                          *)

CheckStat ==
    /\ pc = "chk_stat"
    /\ IF fs["nv_data"] = NoFile
       THEN Call("restore", "chk_restat") /\ UNCHANGED stat
       ELSE pc' = "chk_size" /\ stat' = Len(fs["nv_data"]) /\ UNCHANGED stack
    /\ UNCHANGED <<rv, buf, want, tries, world>>

(* The second stat() leaves nv_stat unfilled when the file is still gone.  *)
CheckRestat ==
    /\ pc = "chk_restat"
    /\ pc' = "chk_size"
    /\ stat' = IF fs["nv_data"] = NoFile THEN Unset ELSE Len(fs["nv_data"])
    /\ UNCHANGED <<stack, rv, buf, want, tries, world>>

(* An unfilled st_size is whatever the stack held: it may or may not       *)
(* equal nv_data_size.                                                     *)
CheckSize ==
    /\ pc = "chk_size"
    /\ \E differs \in IF stat = Unset THEN BOOLEAN ELSE {stat # NvSize}:
         IF differs THEN Call("restore", "chk_md5")
         ELSE pc' = "chk_md5" /\ UNCHANGED stack
    /\ UNCHANGED <<locals, world>>

CheckMd5Exists ==
    /\ pc = "chk_md5"
    /\ IF fs["nv_data_md5"] = NoFile THEN Call("restore", "chk_bak")
       ELSE pc' = "chk_bak" /\ UNCHANGED stack
    /\ UNCHANGED <<locals, world>>

CheckBackupExists ==
    /\ pc = "chk_bak"
    /\ IF fs["nv_data_bak"] = NoFile \/ fs["nv_data_md5_bak"] = NoFile
       THEN Call("backup", "chk_state")
       ELSE pc' = "chk_state" /\ UNCHANGED stack
    /\ UNCHANGED <<locals, world>>

(* open() of .nv_state failing calls the restore and then read()s from the *)
(* descriptor -1 all the same: the check fails (rfs.c:662-675).            *)
CheckState ==
    /\ pc = "chk_state"
    /\ \E ok \in Opens("nv_state", TRUE):
         CASE ~ok                       -> Call("restore", "chk_fail") /\ UNCHANGED rv
           [] fs["nv_state"] = "1"      -> Return /\ rv' = 0
           [] OTHER                     -> Call("restore", "ret_ok") /\ UNCHANGED rv
    /\ UNCHANGED <<stat, buf, want, tries, world>>

ReturnOk ==
    /\ pc = "ret_ok"
    /\ Return /\ rv' = 0
    /\ UNCHANGED <<stat, buf, want, tries, world>>

ReturnFail ==
    /\ pc \in {"chk_fail", "ret_fail"}
    /\ Return /\ rv' = -1
    /\ UNCHANGED <<stat, buf, want, tries, world>>

-----------------------------------------------------------------------------
(* nv_data_backup_restore (rfs.c:414-626) copies the backup over the       *)
(* primary; nv_data_backup_create (rfs.c:202-412) copies the primary over  *)
(* the backup.  Both verify the source against its MD5 file, then run the  *)
(* same retry loop, read-back check, MD5 write and marker write; the model *)
(* shares those blocks between the two directions d.                       *)

Src(d)    == IF d = "restore" THEN "nv_data_bak" ELSE "nv_data"
Dst(d)    == IF d = "restore" THEN "nv_data" ELSE "nv_data_bak"
DstMd5(d) == IF d = "restore" THEN "nv_data_md5" ELSE "nv_data_md5_bak"
SrcMd5(d) == IF d = "restore" THEN "nv_data_md5_bak" ELSE "nv_data_md5"

(* A plausible bug, and what the comment at rfs.c:290 intends: on a      *)
(* mismatch the digest just computed is taken as correct.                *)
StartCopyTrustComputed(d) ==
    \/ /\ ~CanFileRead(Src(d))
       /\ Restart
    \/ /\ CanFileRead(Src(d))
       /\ \E ok \in Opens(SrcMd5(d), TRUE):
            IF ok
            THEN /\ buf' = FileRead(fs[Src(d)]) /\ want' = Digest(buf')
                 /\ tries' = 0 /\ pc' = d \o "_write"
                 /\ UNCHANGED <<stack, rv, stat, world>>
            ELSE Return /\ UNCHANGED <<locals, world>>

(* The source's MD5 file is opened and read; on a mismatch the code opens  *)
(* it O_WRONLY and read()s it, which fails, so it leaves (rfs.c:284-306,   *)
(* rfs.c:489-516).  On a match the copy starts with the buffer just read.  *)
StartCopy(d) ==
    \/ /\ ~CanFileRead(Src(d))
       /\ Restart
    \/ /\ CanFileRead(Src(d))
       /\ \E ok \in Opens(SrcMd5(d), TRUE):
            IF ok /\ fs[SrcMd5(d)] = Digest(FileRead(fs[Src(d)]))
            THEN /\ buf' = FileRead(fs[Src(d)]) /\ want' = Digest(buf')
                 /\ tries' = 0 /\ pc' = d \o "_write"
                 /\ UNCHANGED <<stack, rv, stat, world>>
            ELSE Return /\ UNCHANGED <<locals, world>>

(* rfs.c:432-454: without a backup of the right size and its MD5 file, the *)
(* restore calls nv_data_generate (a no-op) and nv_data_backup_create and  *)
(* returns what that returns.                                              *)
Restore ==
    /\ pc = "restore"
    /\ LET usable == HasNvSize("nv_data_bak") /\ fs["nv_data_md5_bak"] # NoFile
       IN \/ ~usable /\ pc' = "backup" /\ UNCHANGED <<stack, locals, world>>
          \/ usable /\ StartCopy("restore")

(* rfs.c:219-238.  With nv_data.bin gone, stat() fails, nv_data_generate   *)
(* does nothing and st_size is read from an unfilled nv_stat: unequal to   *)
(* nv_data_size it returns, equal it goes on and hashes the NULL that      *)
(* ipc_client_file_read gave, and faults.                                  *)
BackupCreate ==
    /\ pc = "backup"
    /\ \/ /\ ~(HasNvSize("nv_data") /\ fs["nv_data_md5"] # NoFile)
          /\ Return /\ UNCHANGED <<locals, world>>
       \/ /\ fs["nv_data"] = NoFile /\ fs["nv_data_md5"] # NoFile
          /\ Restart
       \/ /\ HasNvSize("nv_data") /\ fs["nv_data_md5"] # NoFile
          /\ StartCopy("backup")

(* The write loop (rfs.c:311-342, rfs.c:522-553): open the target with     *)
(* O_TRUNC and write the buffer; a failed open or a short write costs a    *)
(* try, and after MaxTries the target is unlinked.                         *)
CopyWrite(d) ==
    /\ pc = d \o "_write"
    /\ \/ /\ tries = MaxTries
          /\ fs' = [fs EXCEPT ![Dst(d)] = NoFile]
          /\ torn' = [torn EXCEPT ![Dst(d)] = FALSE]
          /\ Return /\ UNCHANGED tries
       \/ /\ tries < MaxTries /\ FALSE \in Opens(Dst(d), FALSE)
          /\ Retry
          /\ UNCHANGED <<fs, torn, pc, stack>>
       \/ /\ tries < MaxTries /\ TRUE \in Opens(Dst(d), FALSE)
          /\ \E k \in Written(NvSize):
               /\ fs' = [fs EXCEPT ![Dst(d)] = SubSeq(buf, 1, k)]
               /\ torn' = [torn EXCEPT ![Dst(d)] = k < NvSize \/ torn[Src(d)]]
               /\ IF k < NvSize
                  THEN Retry /\ UNCHANGED <<pc, stack>>
                  ELSE pc' = d \o "_verify" /\ UNCHANGED <<tries, stack>>
    /\ UNCHANGED <<rv, stat, buf, want, leaked, req, reply, acked>>

(* The target is read back and hashed (rfs.c:344-365, rfs.c:555-579); a    *)
(* mismatch goes back to the write loop without counting a try.           *)
CopyVerify(d) ==
    /\ pc = d \o "_verify"
    /\ \E intact \in IF ReadBackFaults THEN BOOLEAN ELSE {TRUE}:
         pc' = IF intact /\ Digest(FileRead(fs[Dst(d)])) = want
               THEN d \o "_md5" ELSE d \o "_write"
    /\ UNCHANGED <<stack, locals, world>>

(* The target's MD5 file gets the verified digest (rfs.c:368-382,          *)
(* rfs.c:582-596); only a write() returning < 0 stops the copy.            *)
CopyMd5(d) ==
    /\ pc = d \o "_md5"
    /\ \E ok \in Opens(DstMd5(d), FALSE), w \in TextWrites:
         IF ok
         THEN /\ fs' = [fs EXCEPT ![DstMd5(d)] = IF w = "full" THEN want ELSE Blank]
              /\ IF w = "error" THEN Return ELSE pc' = d \o "_state" /\ UNCHANGED stack
         ELSE Return /\ UNCHANGED fs
    /\ UNCHANGED <<locals, leaked, req, reply, torn, acked>>

(* The marker .nv_state is set to '1' (rfs.c:385-401, rfs.c:599-615).      *)
CopyState(d) ==
    /\ pc = d \o "_state"
    /\ \E ok \in Opens("nv_state", FALSE),
          w \in TextWrites \ {"short"}:
         fs' = IF ok THEN [fs EXCEPT !["nv_state"] = IF w = "full" THEN "1" ELSE Blank]
               ELSE fs
    /\ Return
    /\ UNCHANGED <<locals, leaked, req, reply, torn, acked>>

RestoreWrite == CopyWrite("restore")
RestoreVerify == CopyVerify("restore")
RestoreMd5   == CopyMd5("restore")
RestoreState == CopyState("restore")
BackupWrite  == CopyWrite("backup")
BackupVerify == CopyVerify("backup")
BackupMd5    == CopyMd5("backup")
BackupState  == CopyState("backup")

-----------------------------------------------------------------------------
(* A plausible bug: nv_data_md5_check reports a mismatch and goes on.    *)
Md5CheckNoRestore ==
    /\ pc = "md5_check"
    /\ \/ ~CanFileRead("nv_data") /\ Restart
       \/ /\ CanFileRead("nv_data")
          /\ \E ok \in Opens("nv_data_md5", TRUE):
               IF ~ok THEN Return /\ rv' = -1 /\ UNCHANGED leaked
               ELSE Return /\ rv' = 0 /\ leaked' = leaked + 1
          /\ UNCHANGED <<fs, stat, buf, want, tries, req, reply, torn, acked>>

(* nv_data_md5_check (rfs.c:691-750).  The descriptor of the MD5 file is   *)
(* never closed.                                                           *)
Md5Check ==
    /\ pc = "md5_check"
    /\ \/ ~CanFileRead("nv_data") /\ Restart
       \/ /\ CanFileRead("nv_data")
          /\ \E ok \in Opens("nv_data_md5", TRUE):
               CASE ~ok -> Return /\ rv' = -1 /\ UNCHANGED leaked
                 [] fs["nv_data_md5"] = Digest(FileRead(fs["nv_data"])) ->
                       Return /\ rv' = 0 /\ leaked' = leaked + 1
                 [] OTHER -> /\ Call("restore", "ret_ok") /\ leaked' = leaked + 1
                             /\ UNCHANGED rv
          /\ UNCHANGED <<fs, stat, buf, want, tries, req, reply, torn, acked>>

-----------------------------------------------------------------------------
(* The RFS channel of crespo and the NV handlers of rfs.c.                 *)

(* The modem queues its next NV request in the modem_io driver: id is its  *)
(* sequence number, cmd the NV command, size that of struct ipc_rfs_io and *)
(* a write's data.  This is the environment's step.                        *)
ModemRequest ==
    /\ nsent < MaxModemReqs
    /\ \E r \in Requests :
         rfsq' = Append(rfsq, [id |-> nsent + 1, cmd |-> r.op,
                               size |-> RfsIoSize + Len(r.data), io |-> r])
    /\ nsent' = nsent + 1
    /\ UNCHANGED <<fs, pc, stack, locals, leaked, req, reply, torn, acked,
                   info, rfsLock, rfsData, modemGot>>

(* crespo_ipc_rfs_client_recv is called once the RFS descriptor is        *)
(* readable; it takes the wake lock before it reads (crespo_ipc.c:407-418). *)
RfsRecvStart ==
    /\ pc = "idle" /\ rfsq # <<>>
    /\ pc' = "rfs_recv" /\ rfsLock' = TRUE
    /\ UNCHANGED <<stack, locals, world, rfsq, nsent, info, rfsData, modemGot>>

(* wake_unlock("secril_rfs-interface") at the end of a receive.           *)
WakeUnlock == rfsLock' = FALSE

(* crespo_ipc_read and crespo_ipc_write return -1 when their ioctl fails, *)
(* as it may under IoFaults, and 0 otherwise.                              *)
ReadResults  == IF IoFaults THEN {-1, 0} ELSE {0}
WriteResults == IF IoFaults THEN {-1, 0} ELSE {0}

(* The response crespo_ipc_rfs_client_recv fills from the message.        *)
Response(m) == [mseq |-> 0, aseq |-> m.id, index |-> m.cmd]

(* nv_data_read and nv_data_write reject offset < 0 or length <= 0, then   *)
(* run nv_data_check (rfs.c:759-767, rfs.c:800-808).                       *)
NvDataEntry(r) ==
    IF r.offset < 0 \/ r.length <= 0
    THEN pc' = "reply" /\ rv' = -1 /\ UNCHANGED stack
    ELSE /\ pc' = "chk_stat" /\ UNCHANGED rv
         /\ stack' = <<IF r.op = "read" THEN "read_file" ELSE "write_file", "reply">>

(* crespo_ipc_read's ioctl(IOCTL_MODEM_RECV) fails under IoFaults, or the *)
(* size check fails: the receive returns -1 with the wake lock still held *)
(* (crespo_ipc.c:501-523, 419-432).  Otherwise the message becomes the    *)
(* response and the lock is released (434-454); the caller hands it to the *)
(* handler of its index, whose read handler zeroes its confirmation buffer *)
(* (rfs.c:853-854) before nv_data_read or nv_data_write.                   *)
RfsRecv ==
    /\ pc = "rfs_recv"
    /\ \/ /\ -1 \in ReadResults
          /\ pc' = "idle"
          /\ UNCHANGED <<stack, rv, req, reply, rfsq, rfsLock, info, rfsData>>
       \/ /\ 0 \in ReadResults /\ rfsq # <<>>
          /\ rfsq' = Tail(rfsq)
          /\ LET m == Head(rfsq) IN
             IF m.size <= 0 \/ m.size >= MAX_MODEM_DATA_SIZE
             THEN pc' = "idle" /\ UNCHANGED <<stack, rv, req, reply, rfsLock, info, rfsData>>
             ELSE /\ WakeUnlock
                  /\ info' = Response(m) /\ req' = m.io /\ reply' = NoReply
                  /\ rfsData' = <<>>
                  /\ NvDataEntry(m.io)
    /\ UNCHANGED <<stat, buf, want, tries, fs, leaked, torn, acked, nsent, modemGot>>

(* nv_data_read (rfs.c:769-790): read() returns what the file holds past  *)
(* offset, up to length bytes, into rfs_data; fewer than length is -1.     *)
(* The descriptor is never closed.                                         *)
ReadFile ==
    /\ pc = "read_file"
    /\ \/ rv < 0 /\ Return /\ UNCHANGED <<rv, rfsData, leaked>>
       \/ /\ rv >= 0
          /\ \E ok \in Opens("nv_data", TRUE):
               IF ~ok THEN Return /\ rv' = -1 /\ UNCHANGED <<rfsData, leaked>>
               ELSE LET f   == fs["nv_data"]
                        got == IF Len(f) >= req.offset + req.length THEN req.length
                               ELSE IF Len(f) > req.offset THEN Len(f) - req.offset
                               ELSE 0
                    IN  /\ leaked' = leaked + 1
                        /\ Return
                        /\ rfsData' = ReadAt(f, req.offset, got)
                        /\ rv' = IF got < req.length THEN -1 ELSE 0
    /\ UNCHANGED <<stat, buf, want, tries, fs, req, reply, torn, acked,
                   rfsq, nsent, info, rfsLock, modemGot>>

(* nv_data_write (rfs.c:810-837): lseek and write with no bound on        *)
(* offset + length; a short write runs the restore and fails.              *)
WriteFile ==
    /\ pc = "write_file"
    /\ \/ rv < 0 /\ Return /\ UNCHANGED <<rv, fs, torn>>
       \/ /\ rv >= 0
          /\ \E ok \in Opens("nv_data", TRUE):
               IF ~ok THEN Return /\ rv' = -1 /\ UNCHANGED <<fs, torn>>
               ELSE \E k \in Written(req.length):
                      /\ fs' = [fs EXCEPT !["nv_data"] =
                                  Patch(@, req.offset, SubSeq(req.data, 1, k))]
                      /\ torn' = [torn EXCEPT !["nv_data"] = @ \/ (0 < k /\ k < req.length)]
                      /\ IF k < req.length
                         THEN Call("restore", "ret_fail") /\ UNCHANGED rv
                         ELSE pc' = "write_md5" /\ UNCHANGED <<stack, rv>>
    /\ UNCHANGED <<stat, buf, want, tries, leaked, req, reply, acked>>

(* nv_data_md5_generate (rfs.c:151-200), then nv_data_write returns 0      *)
(* whatever it did.                                                        *)
WriteMd5 ==
    /\ pc = "write_md5"
    /\ \E ok \in Opens("nv_data_md5", FALSE), w \in TextWrites:
         fs' = IF ok
               THEN [fs EXCEPT !["nv_data_md5"] =
                       IF w = "full" THEN Digest(FileRead(fs["nv_data"])) ELSE Blank]
               ELSE fs
    /\ Return /\ rv' = 0
    /\ acked' = Patch(acked, req.offset, req.data)
    /\ UNCHANGED <<stat, buf, want, tries, leaked, req, reply, torn>>

(* A plausible bug: the confirmation carries info->mseq, which            *)
(* crespo_ipc_rfs_client_recv sets to 0.                                  *)
ConfirmIdMseq(i) == i.mseq

(* The handlers confirm with mseq = info->aseq (rfs.c:870-871, 904-905),   *)
(* and crespo_ipc_rfs_client_send makes it the message id (crespo_ipc.c:337). *)
ConfirmId(i) == i.aseq

(* rfs_data = rfs_io_conf + sizeof(struct ipc_rfs_io_confirm) advances a   *)
(* struct pointer, so nv_data_read wrote at byte ConfSize * ConfSize of   *)
(* the buffer, not at ConfSize (rfs.c:853-858).  The length bytes sent     *)
(* after the confirmation header are those from byte ConfSize on: zeros   *)
(* from the memset, unless the two ranges meet.                            *)
ConfData(d, len) ==
    [i \in 1..len |-> LET j == ConfSize + i - 1 - ConfSize * ConfSize
                      IN  IF 0 <= j /\ j < Len(d) THEN d[j + 1] ELSE 0]

(* The confirmation a handler builds and crespo_ipc_rfs_client_send hands *)
(* to the driver: id, cmd = index, and the confirm flag, offset, length    *)
(* and, for a read, the data (rfs.c:865-871, 899-905; crespo_ipc.c:330-343). *)
Confirmation ==
    [id |-> ConfirmId(info), cmd |-> req.op, confirm |-> IF rv < 0 THEN 0 ELSE 1,
     offset |-> req.offset, length |-> req.length,
     data |-> IF req.op = "read" THEN ConfData(rfsData, req.length) ELSE <<>>]

(* The handler sends its confirmation through crespo_ipc_write, whose     *)
(* ioctl(IOCTL_MODEM_SEND) may fail under IoFaults; nobody looks at the    *)
(* result (crespo_ipc.c:345-350, 525-544).  reply records what             *)
(* nv_data_read or nv_data_write returned.                                 *)
SendConfirm ==
    /\ pc = "reply"
    /\ reply' = [req |-> req, ok |-> rv = 0, torn |-> torn["nv_data"],
                 data |-> IF rv = 0 /\ req.op = "read" THEN rfsData ELSE <<>>]
    /\ \E rc \in WriteResults :
         modemGot' = IF rc = 0 THEN Append(modemGot, Confirmation) ELSE modemGot
    /\ req' = NoReq /\ info' = NoInfo /\ pc' = "idle"
    /\ UNCHANGED <<stack, locals, fs, leaked, torn, acked, rfsq, nsent, rfsLock, rfsData>>

(* The process dies at any point: power loss, a kill, a crash elsewhere.   *)
Crash ==
    /\ Crashes /\ pc # "boot"
    /\ Restart

-----------------------------------------------------------------------------

Init ==
    /\ fs \in InitFs
    /\ pc = "boot" /\ stack = <<>>
    /\ rv = 0 /\ stat = Unset /\ buf = <<>> /\ want = Blank /\ tries = 0
    /\ leaked = 0 /\ req = NoReq /\ reply = NoReply
    /\ torn = [f \in DataFiles |-> FALSE]
    /\ acked = <<>>
    /\ rfsq = <<>> /\ nsent = 0 /\ info = NoInfo
    /\ rfsLock = FALSE /\ rfsData = <<>> /\ modemGot = <<>>

(* The steps of the process; ModemRequest and Crash are the environment's. *)
StoreStep ==
    \/ BootCheck \/ BootMd5Check \/ BootDone
    \/ CheckStat \/ CheckRestat \/ CheckSize \/ CheckMd5Exists
    \/ CheckBackupExists \/ CheckState \/ ReturnOk \/ ReturnFail
    \/ Restore \/ BackupCreate
    \/ RestoreWrite \/ RestoreVerify \/ RestoreMd5 \/ RestoreState
    \/ BackupWrite \/ BackupVerify \/ BackupMd5 \/ BackupState
    \/ Md5Check \/ WriteFile \/ WriteMd5

Step ==
    \/ StoreStep /\ UNCHANGED rfsVars
    \/ RfsRecvStart \/ RfsRecv \/ ReadFile \/ SendConfirm

Next == Step \/ ModemRequest \/ Crash

(* rild runs the process whenever it has a step to take.                   *)
Spec == Init /\ [][Next]_vars /\ WF_vars(Step)

-----------------------------------------------------------------------------
(* Properties.                                                             *)

Labels ==
    {"boot", "boot_md5", "boot_done", "idle", "reply", "chk_stat",
     "chk_restat", "chk_size", "chk_md5", "chk_bak", "chk_state", "chk_fail",
     "ret_ok", "ret_fail", "restore", "backup", "md5_check", "read_file",
     "write_file", "write_md5", "rfs_recv"}
    \cup {d \o s : d \in {"restore", "backup"}, s \in {"_write", "_verify", "_md5", "_state"}}

TypeOK ==
    /\ \A f \in DataFiles : fs[f] \in Contents \cup {NoFile}
    /\ \A f \in Md5Files : fs[f] \in Digests \cup {NoFile, Blank}
    /\ fs["nv_state"] \in {"1", "0", NoFile, Blank}
    /\ pc \in Labels /\ stack \in Seq(Labels)
    /\ rv \in {0, -1} /\ stat \in Nat \cup {Unset}
    /\ buf \in Contents /\ want \in Digests \cup {Blank}
    /\ tries \in 0..MaxTries /\ leaked \in 0..FdLimit
    /\ req \in Requests \cup {NoReq}
    /\ torn \in [DataFiles -> BOOLEAN]
    /\ nsent \in 0..MaxModemReqs /\ Len(rfsq) <= nsent
    /\ \A i \in 1..Len(rfsq) : rfsq[i].io \in Requests /\ rfsq[i].id \in 1..nsent
    /\ info \in [mseq : {0}, aseq : 0..nsent, index : {"read", "write", "none"}]
    /\ rfsLock \in BOOLEAN /\ rfsData \in Contents
    /\ Len(modemGot) <= nsent

(* The bootstrap goes on to load the NV data into the modem only once      *)
(* nv_data_check and nv_data_md5_check have left a primary of the right    *)
(* size whose MD5 file matches it.                                         *)
BootRepairsPrimary ==
    [][pc = "boot_done" /\ pc' = "idle" => PrimaryValid]_vars

(* A confirmed NV read returns the bytes that the bootstrap loaded and the *)
(* confirmed NV writes since then put at that place.                       *)
ReadYourWrites ==
    reply.ok /\ reply.req.op = "read" =>
        reply.data = SubSeq(acked, reply.req.offset + 1,
                            reply.req.offset + reply.req.length)

(* nv_data_backup_restore and nv_data_backup_create only overwrite their   *)
(* target while its source matches the source's MD5 file: the backup is   *)
(* never replaced by an unverified primary, nor the primary by an          *)
(* unverified backup.                                                      *)
CopyFromVerifiedSource ==
    [][\A d \in {"restore", "backup"} :
         pc = d \o "_write" /\ fs'[Dst(d)] \notin {fs[Dst(d)], NoFile} =>
            HasNvSize(Src(d)) /\ fs[SrcMd5(d)] = Digest(fs[Src(d)])]_vars

(* Every RFS request ends: its confirmation is sent or the process dies.  *)
(* The copy loops give up after MaxTries failed writes.                    *)
RequestsFinish == req # NoReq ~> req = NoReq

(* A confirmed NV read never returns the remains of a short write.        *)
ServedNotTorn == reply.ok /\ reply.req.op = "read" => ~reply.torn

(* When the process starts, a '1' in .nv_state confirms a primary that    *)
(* matches its MD5 file: the marker is written last.                       *)
StateMarkerTruthful == pc = "boot" /\ fs["nv_state"] = "1" => PrimaryValid

(* The process never dies while it serves an RFS request.                 *)
RequestNeverAborted == [][req # NoReq => pc' # "boot"]_vars


(* The modem reads back what it wrote: when it receives a successful NV    *)
(* read confirmation, the data in it are the bytes the bootstrap loaded    *)
(* and the confirmed writes since put at that place.  The read handler     *)
(* builds that confirmation around what nv_data_read returned             *)
(* (rfs.c:853-871).                                                        *)
ModemReadsBack ==
    [][Len(modemGot') > Len(modemGot) =>
         LET c == modemGot'[Len(modemGot')] IN
         c.cmd = "read" /\ c.confirm = 1 =>
             c.data = SubSeq(acked, c.offset + 1, c.offset + c.length)]_vars

(* The "secril_rfs-interface" wake lock is held only while a receive runs: *)
(* crespo_ipc_rfs_client_recv releases it on every path out of it.          *)
WakeLockOnlyInRecv == rfsLock => pc = "rfs_recv"

(* Every NV request the modem sends is answered: a confirmation with its   *)
(* id reaches the modem, whatever nv_data_read or nv_data_write returned.  *)
EveryRequestConfirmed ==
    \A n \in 1..MaxModemReqs :
        nsent >= n ~> \E i \in 1..Len(modemGot) : modemGot[i].id = n

=============================================================================
