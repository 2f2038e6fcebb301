------------------------------ MODULE MCNvData ------------------------------
(***************************************************************************)
(* Instances of NvData for TLC: a two-byte NV blob over the bytes {0, 1},  *)
(* the primary and the backup holding different data so that a restore    *)
(* is visible, and the /efs contents rild may find at its first start.    *)
(***************************************************************************)
EXTENDS NvData

Primary == <<1, 1>>
Backup  == <<1, 0>>

Store(p, b, s) ==
    [nv_data |-> p[1], nv_data_md5 |-> p[2],
     nv_data_bak |-> b[1], nv_data_md5_bak |-> b[2], nv_state |-> s]

(* A side is a data file and its MD5 file: intact, or damaged one way.    *)
GoodPrimary   == <<Primary, Digest(Primary)>>
GoodBackup    == <<Backup, Digest(Backup)>>
PrimarySides  == {GoodPrimary, <<NoFile, Digest(Primary)>>, <<<<1>>, Digest(Primary)>>,
                  <<Primary, Blank>>, <<Primary, NoFile>>}
BackupSides   == {GoodBackup, <<NoFile, Digest(Backup)>>,
                  <<Backup, Blank>>, <<Backup, NoFile>>}
Markers       == {"1", "0", NoFile}

(* At most one side damaged, the marker in any state.                     *)
OneSideDamaged ==
    {Store(p, b, s) : p \in PrimarySides, b \in BackupSides, s \in Markers}
    \ {Store(p, b, s) : p \in PrimarySides \ {GoodPrimary},
                        b \in BackupSides \ {GoodBackup}, s \in Markers}

(* OneSideDamaged without the stores with .nv_state gone and the backup   *)
(* damaged: these include all the stores the bootstrap never gets past,   *)
(* and some it does (a backup file missing).                              *)
BootableStores ==
    {st \in OneSideDamaged :
        st.nv_state # NoFile \/ <<st.nv_data_bak, st.nv_data_md5_bak>> = GoodBackup}

(* A good primary, the backup's MD5 file torn, and .nv_state gone.        *)
MarkerLostBackupTorn == {Store(GoodPrimary, <<Backup, Blank>>, NoFile)}

(* Everything intact.                                                     *)
Consistent == {Store(GoodPrimary, GoodBackup, "1")}

(* Intact; or both sides lost; or the backup's MD5 file torn; or the      *)
(* backup lost and the primary's MD5 file torn.                           *)
FaultStores ==
    Consistent \cup {Store(<<NoFile, Digest(Primary)>>, <<NoFile, NoFile>>, "1"),
                     Store(GoodPrimary, <<Backup, Blank>>, "1"),
                     Store(<<Primary, Blank>>, <<NoFile, Digest(Backup)>>, "1")}

(* Only the backup's MD5 file torn, as a failed nv_data_backup_create      *)
(* leaves it.                                                             *)
TornBackupMd5 == {Store(GoodPrimary, <<Backup, Blank>>, "1")}

(* Everything intact but .nv_state gone.                                  *)
MarkerLost == {Store(GoodPrimary, GoodBackup, NoFile)}

Rd(o, l)    == [op |-> "read", offset |-> o, length |-> l, data |-> <<>>]
Wr(o, d)    == [op |-> "write", offset |-> o, length |-> Len(d), data |-> d]

(* Requests inside the blob, and one of length 0.                         *)
InRange  == {Rd(0, 2), Rd(1, 1), Rd(0, 0), Wr(0, <<0, 0>>), Wr(1, <<0>>)}
(* Requests few enough for runs with faults.                             *)
FewRequests == {Rd(0, 2), Wr(1, <<0>>)}
(* A write of the whole blob, which can be torn, and a read of it.        *)
WholeBlob == {Rd(0, 2), Wr(0, <<0, 0>>)}
=============================================================================
