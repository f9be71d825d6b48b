------------------------------- MODULE DfsMount -------------------------------
(***************************************************************************)
(* Mounting: filesystem_table of the device file system (dfs_fs.c) with    *)
(* the volumes of the FAT file system below it (elmfat/dfs_elm.c).  The    *)
(* first is protected by dfs_lock, the second by nothing.  What dfs_lock   *)
(* protects is one step.                                                   *)
(***************************************************************************)
EXTENDS Integers, FiniteSets

CONSTANTS Mounter, Path, Device,
          DFS_FILESYSTEMS_MAX,
          VOLUMES,
          Relative,     \* paths are also given relative to the directory
          LargeSectors, \* devices whose sectors are larger than _MAX_SS
          Early,        \* a path is unmounted while it is being mounted
          Overlap,      \* threads search the volumes at the same time
          None

ASSUME DfsMountType == /\ {DFS_FILESYSTEMS_MAX, VOLUMES} \subseteq Nat \ {0}
                       /\ LargeSectors \subseteq Device
                       /\ {Relative, Early, Overlap} \subseteq BOOLEAN
                       /\ None \notin Path \cup Device \cup Nat

VARIABLES filesystem_table,  \* path, dev_id and data, the volume of the FAT
          disk,              \* disk[]: the device of each volume
          dev_ref,           \* ref_count of each device
          mounting,          \* where each thread is, and with what
          unmount_failed     \* an assertion of dfs_elm_unmount has failed

mountvars == <<filesystem_table, disk, dev_ref, mounting, unmount_failed>>

Slot == 0 .. DFS_FILESYSTEMS_MAX - 1
Volume == 0 .. VOLUMES - 1

Empty == [path |-> None, dev_id |-> None, data |-> None]

NotMounting == [at |-> "run", fs |-> None, dev |-> None, index |-> None]

MountTypeOK ==
  /\ filesystem_table \in [Slot -> [path : Path \cup {None},
                                    dev_id : Device \cup {None},
                                    data : Volume \cup {None}]]
  /\ disk \in [Volume -> Device \cup {None}]
  /\ dev_ref \in [Device -> Nat]
  /\ mounting \in [Mounter ->
                    [at : {"run", "open", "mount", "save", "fat", "fail", "clear",
                           "mkfs", "assign", "format"},
                     fs : Slot \cup {None}, dev : Device \cup {None},
                     index : Volume \cup {None}]]
  /\ unmount_failed \in BOOLEAN

MountInit ==
  /\ filesystem_table = [s \in Slot |-> Empty]
  /\ disk = [v \in Volume |-> None]
  /\ dev_ref = [d \in Device |-> 0]
  /\ mounting = [t \in Mounter |-> NotMounting]
  /\ unmount_failed = FALSE

MountAt(t, place) == mounting[t].at = place

MountBegins(t, place, fs, dev) ==
  mounting' = [mounting EXCEPT ![t] = [at |-> place, fs |-> fs, dev |-> dev,
                                       index |-> None]]

MountGoes(t, place) == mounting' = [mounting EXCEPT ![t].at = place]

Mounted == {s \in Slot : filesystem_table[s].path # None}

\* A device carries one file system, is mounted or formatted by one thread.
InUse(dev) == \/ \E s \in Mounted : filesystem_table[s].dev_id = dev
              \/ \E t \in Mounter : mounting[t].dev = dev

Lowest(S) == CHOOSE x \in S : \A y \in S : x <= y

-----------------------------------------------------------------------------
(* dfs_mount *)

\* Faulty variant: the path is not looked for.
DfsMountAgain(t, dev, path, given) ==
  /\ MountAt(t, "run") /\ ~InUse(dev)
  /\ Slot \ Mounted # {}
  /\ LET s == Lowest(Slot \ Mounted)
     IN /\ filesystem_table' =
             [filesystem_table EXCEPT
                ![s] = [path |-> path, dev_id |-> dev, data |-> None]]
        /\ MountBegins(t, "open", s, dev)
  /\ UNCHANGED <<disk, dev_ref, unmount_failed>>

\* The check and the registration.  The path of an entry is compared with the
\* path as it was given, and the full path is entered.
DfsMount(t, dev, path, given) ==
  /\ MountAt(t, "run") /\ ~InUse(dev)
  /\ \A s \in Mounted : filesystem_table[s].path # given
  /\ Slot \ Mounted # {}
  /\ LET s == Lowest(Slot \ Mounted)
     IN /\ filesystem_table' =
             [filesystem_table EXCEPT
                ![s] = [path |-> path, dev_id |-> dev, data |-> None]]
        /\ MountBegins(t, "open", s, dev)
  /\ UNCHANGED <<disk, dev_ref, unmount_failed>>

MountOpen(t) ==
  /\ MountAt(t, "open")
  /\ \/ /\ dev_ref' = [dev_ref EXCEPT ![mounting[t].dev] = @ + 1]
        /\ MountGoes(t, "mount")
     \/ MountGoes(t, "clear") /\ UNCHANGED dev_ref
  /\ UNCHANGED <<filesystem_table, disk, unmount_failed>>

\* get_disk(RT_NULL), for dfs_elm_mount or dfs_elm_mkfs.
GetDisk(t) ==
  /\ MountAt(t, "mount") \/ MountAt(t, "mkfs")
  /\ Overlap \/ \A u \in Mounter : mounting[u].at \notin {"save", "assign"}
  /\ LET free == {v \in Volume : disk[v] = None}
     IN IF free # {}
        THEN mounting' = [mounting EXCEPT ![t].at = IF @ = "mkfs" THEN "assign"
                                                    ELSE "save",
                                  ![t].index = Lowest(free)]
        ELSE mounting' = [mounting EXCEPT ![t] =
                            IF MountAt(t, "mkfs") THEN NotMounting
                            ELSE [@ EXCEPT !.at = "fail"]]
  /\ UNCHANGED <<filesystem_table, disk, dev_ref, unmount_failed>>

\* The device is saved; then its sector size is looked at.
ElmSave(t) ==
  /\ MountAt(t, "save")
  /\ disk' = [disk EXCEPT ![mounting[t].index] = mounting[t].dev]
  /\ MountGoes(t, IF mounting[t].dev \in LargeSectors THEN "fail" ELSE "fat")
  /\ UNCHANGED <<filesystem_table, dev_ref, unmount_failed>>

\* Faulty variant: the volume is not given back when there is no valid FAT.
ElmMountKeeps(t) ==
  /\ MountAt(t, "fat")
  /\ \/ /\ filesystem_table' = [filesystem_table EXCEPT
                                  ![mounting[t].fs].data = mounting[t].index]
        /\ mounting' = [mounting EXCEPT ![t] = NotMounting]
        /\ UNCHANGED disk
     \/ MountGoes(t, "fail") /\ UNCHANGED <<filesystem_table, disk>>
  /\ UNCHANGED <<dev_ref, unmount_failed>>

\* f_mount and the test of the root directory, or one of them fails, or there
\* is no memory.
ElmMount(t) ==
  /\ MountAt(t, "fat")
  /\ \/ /\ filesystem_table' = [filesystem_table EXCEPT
                                  ![mounting[t].fs].data = mounting[t].index]
        /\ mounting' = [mounting EXCEPT ![t] = NotMounting]
        /\ UNCHANGED disk
     \/ /\ disk' = [disk EXCEPT ![mounting[t].index] = None]
        /\ MountGoes(t, "fail")
        /\ UNCHANGED filesystem_table
  /\ UNCHANGED <<dev_ref, unmount_failed>>

\* rt_device_close, which does nothing when nobody has the device open.
Closed(dev) == [dev_ref EXCEPT ![dev] = IF @ = 0 THEN 0 ELSE @ - 1]

\* Faulty variant: the device stays open.
MountFailsOpen(t) ==
  /\ MountAt(t, "fail")
  /\ MountGoes(t, "clear")
  /\ UNCHANGED <<filesystem_table, disk, dev_ref, unmount_failed>>

MountFails(t) ==
  /\ MountAt(t, "fail")
  /\ dev_ref' = Closed(mounting[t].dev)
  /\ MountGoes(t, "clear")
  /\ UNCHANGED <<filesystem_table, disk, unmount_failed>>

MountClear(t) ==
  /\ MountAt(t, "clear")
  /\ filesystem_table' = [filesystem_table EXCEPT ![mounting[t].fs] = Empty]
  /\ mounting' = [mounting EXCEPT ![t] = NotMounting]
  /\ UNCHANGED <<disk, dev_ref, unmount_failed>>

-----------------------------------------------------------------------------
(* dfs_unmount, with dfs_elm_unmount *)

\* The first entry of the path, if it is not on its way.
DfsUnmount(t, path) ==
  LET found == {s \in Mounted : filesystem_table[s].path = path}
      fs == Lowest(found)
      dev == filesystem_table[fs].dev_id
      volumes == {v \in Volume : disk[v] = dev}
  IN /\ MountAt(t, "run") /\ found # {}
     /\ Early \/ \A u \in Mounter : mounting[u].fs # fs
     /\ IF filesystem_table[fs].data = None
        THEN /\ unmount_failed' = TRUE
             /\ UNCHANGED <<filesystem_table, disk, dev_ref>>
        ELSE /\ volumes # {}
             /\ disk' = [disk EXCEPT ![Lowest(volumes)] = None]
             /\ dev_ref' = Closed(dev)
             /\ filesystem_table' = [filesystem_table EXCEPT ![fs] = Empty]
             /\ UNCHANGED unmount_failed
     /\ UNCHANGED mounting

-----------------------------------------------------------------------------
(* dfs_mkfs, with dfs_elm_mkfs *)

\* Of a device that is not mounted, which takes a volume for the time being.
DfsMkfs(t, dev) ==
  /\ MountAt(t, "run") /\ ~InUse(dev)
  /\ \A v \in Volume : disk[v] # dev
  /\ MountBegins(t, "mkfs", None, dev)
  /\ UNCHANGED <<filesystem_table, disk, dev_ref, unmount_failed>>

MkfsFormat(t) ==
  /\ MountAt(t, "assign")
  /\ disk' = [disk EXCEPT ![mounting[t].index] = mounting[t].dev]
  /\ dev_ref' = [dev_ref EXCEPT ![mounting[t].dev] = @ + 1]
  /\ MountGoes(t, "format")
  /\ UNCHANGED <<filesystem_table, unmount_failed>>

MkfsEnd(t) ==
  /\ MountAt(t, "format")
  /\ disk' = [disk EXCEPT ![mounting[t].index] = None]
  /\ dev_ref' = Closed(mounting[t].dev)
  /\ mounting' = [mounting EXCEPT ![t] = NotMounting]
  /\ UNCHANGED <<filesystem_table, unmount_failed>>

MountNext ==
  \E t \in Mounter :
    \/ \E dev \in Device, path \in Path :
         \E given \in {path} \cup (IF Relative THEN {<<path>>} ELSE {}) :
           DfsMount(t, dev, path, given)
    \/ \E dev \in Device : DfsMkfs(t, dev)
    \/ \E path \in Path : DfsUnmount(t, path)
    \/ MountOpen(t) \/ GetDisk(t) \/ ElmSave(t) \/ ElmMount(t)
    \/ MountFails(t) \/ MountClear(t) \/ MkfsFormat(t) \/ MkfsEnd(t)

MountSpec == MountInit /\ [][MountNext]_mountvars

-----------------------------------------------------------------------------
(* Properties *)

\* "check if the PATH is mounted" (dfs_fs.c:298): whoever mounts at the same
\* time, a path names one file system.
MountedOnce ==
  \A r, s \in Mounted :
    filesystem_table[r].path = filesystem_table[s].path => r = s

\* Through every failure of a mount, a device is open as often as it is mounted
\* or being mounted or formatted.
DevicesMatch ==
  \A dev \in Device :
    dev_ref[dev] =
      Cardinality({s \in Mounted : /\ filesystem_table[s].dev_id = dev
                                  /\ filesystem_table[s].data # None})
      + Cardinality({t \in Mounter : /\ mounting[t].dev = dev
                                   /\ mounting[t].at \in
                                        {"mount", "save", "fat", "fail",
                                         "format"}})

\* "-1, no space to install fatfs driver" (dfs_elm.c:93), and a volume has the
\* device of the file system that uses it: between two calls the volumes are
\* those of what is mounted.
VolumesMatch ==
  (\A t \in Mounter : MountAt(t, "run")) =>
    \A v \in Volume :
      {disk[v]} \ {None} = {filesystem_table[s].dev_id : s \in
                              {r \in Mounted : filesystem_table[r].data = v}}

\* Threads that mount, unmount and format at the same time, and fail at any
\* step, leave table, devices and volumes in agreement.
MountsConsistent == MountedOnce /\ DevicesMatch /\ VolumesMatch

\* RT_ASSERT(fat != RT_NULL) (dfs_elm.c:183).
UnmountFindsFat == ~unmount_failed
=============================================================================
