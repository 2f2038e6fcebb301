---------------------------- MODULE MCXmm6260Ipc ----------------------------
(* Instances of the xmm6260 IPC client for TLC.                           *)
EXTENDS Xmm6260Ipc

\* Payload lengths: empty, shorter than a read, and longer (IPC_MAX_XFER
\* is 3 and the header 2 bytes, so a 3-byte payload takes two reads).
SomeLens == {0, 1, 3}

\* Payload lengths for the runs with faults.
ShortLens == {1, 2}

\* Sizes a header parsed from payload bytes may carry: one below the
\* header size (rejected), one that fits a later read.
SomeSizes == {1, 3}

\* FMT payloads: empty and one byte, so that a frame fits IPC_MAX_XFER.
FmtSomeLens == {0, 1}
====
