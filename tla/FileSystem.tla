------------------------------ MODULE FileSystem ------------------------------
(***************************************************************************)
(* The SD card's file system (drivers/file_system.cpp) over FatFs and the  *)
(* SD driver, one FatFs call per step.  Any of them may fail: the card is  *)
(* pulled, a sector cannot be read, the file is not there, the disk full.  *)
(*                                                                         *)
(* f_mount only registers the volume.  The card is initialised and the     *)
(* volume mounted by the first call that gets to it (mount_volume), which  *)
(* makes every call a place where the card can turn out not to be there.   *)
(* When the card cannot be initialised its descriptor g_sd is zeroed,      *)
(* g_sd.host and g_sd.usrParam.cd with it.                                 *)
(*                                                                         *)
(* FF_FS_LOCK is 0: FatFs keeps nothing for an open directory, and ls      *)
(* opens current_directory anew, so it has no state here.  The name of a   *)
(* file is the same in every directory; its contents are abstract.         *)
(***************************************************************************)
EXTENDS Integers

CONSTANTS
  Directory, Root,
  Path,               \* paths short enough for current_directory_path
  TooLong,            \* one that is not
  EmptyPath,          \* current_directory_path before the first cd
  Follow,             \* [Directory -> [Path \cup {EmptyPath} -> directories]]
  NoDirectory,
  Content,            \* what write() is asked to write
  Partial, Missing    \* a file truncated or cut short, and none

ASSUME DirectoryAssumption ==
  /\ Root \in Directory /\ NoDirectory \notin Directory
  /\ EmptyPath \notin Path /\ TooLong \notin Path \cup {EmptyPath}
  /\ Follow \in [Directory -> [Path \cup {EmptyPath} -> Directory \cup {NoDirectory}]]
  /\ \A d \in Directory : Follow[d][EmptyPath] = d
ASSUME ContentAssumption ==
  Partial \notin Content /\ Missing \notin Content \cup {Partial}

VARIABLES
  pc,                 \* "Idle", or the FatFs call that is next
  call,               \* the function that runs, or ran last
  arg,                \* its path or the contents to write
  returned,           \* what the last call returned
  host,               \* g_sd.host and g_sd.usrParam are set
  registered,         \* FatFs[SDDISK] is fat_file_system
  mounted,            \* fat_file_system.fs_type # 0
  cwd,                \* fat_file_system.cdir
  current_directory_path,
  disk,               \* [Directory -> contents]: the file in each directory
  file_handle,        \* the FIL of size, read and write is open
  listed,             \* the directory ls listed last
  current             \* where cd got to, until one fails (not in the code)

card == <<host, registered, mounted>>
vars == <<pc, call, arg, returned, card, cwd, current_directory_path, disk,
          file_handle, listed, current>>

Init ==
  /\ pc = "Idle" /\ call = "none" /\ arg = EmptyPath /\ returned = FALSE
  /\ host = FALSE /\ registered = FALSE /\ mounted = FALSE
  /\ cwd = Root
  /\ current_directory_path = EmptyPath
  /\ disk \in [Directory -> Content \cup {Missing}]
  /\ file_handle = FALSE
  /\ listed = NoDirectory
  /\ current = NoDirectory

Start(name, a, first) ==
  /\ pc = "Idle"
  /\ call' = name /\ arg' = a
  /\ pc' = first

Return(result) == pc' = "Idle" /\ returned' = result /\ UNCHANGED <<call, arg>>

-----------------------------------------------------------------------------
(* initialise and deinitialise.                                            *)

(* f_mount without option 1 and f_chdrive only fail for a bad drive.       *)
initialise ==
  /\ pc = "Idle"
  /\ call' = "initialise" /\ arg' = EmptyPath /\ pc' = "Idle"
  /\ host' = TRUE
  /\ \/ returned' = FALSE /\ UNCHANGED <<registered, mounted, current>>
     \/ returned' = TRUE /\ registered' = TRUE /\ mounted' = FALSE
        /\ current' = NoDirectory
  /\ UNCHANGED <<cwd, current_directory_path, disk, file_handle, listed>>

deinitialise ==
  /\ pc = "Idle"
  /\ call' = "deinitialise" /\ arg' = EmptyPath /\ pc' = "Idle"
  /\ returned' = TRUE
  /\ IF host THEN registered' = FALSE /\ mounted' = FALSE /\ current' = NoDirectory
             ELSE UNCHANGED <<registered, mounted, current>>
  /\ UNCHANGED <<host, cwd, current_directory_path, disk, file_handle, listed>>

-----------------------------------------------------------------------------
(* mount_volume, as part of every FatFs call that takes a path: WithVolume *)
(* is what the call can find, NoVolume that it fails here.  Mounting makes *)
(* the root the current directory.                                         *)

WithVolume(directory) ==
  /\ registered
  /\ \/ mounted /\ directory = cwd /\ UNCHANGED card
     \/ ~mounted /\ host /\ directory = Root
        /\ mounted' = TRUE /\ UNCHANGED <<host, registered>>

DescriptorKept == ~registered \/ host
ZeroedUnderVolume ==
  /\ registered /\ host
  /\ host' = FALSE /\ UNCHANGED <<registered, mounted>>

DescriptorZeroed ==
  /\ registered /\ ~mounted /\ host
  /\ host' = FALSE /\ UNCHANGED <<registered, mounted>>

NoVolume ==
  \/ DescriptorKept /\ UNCHANGED card
  \/ DescriptorZeroed

(* SD_Init on a zeroed descriptor; or SD_Deinit, which uses it unasserted, *)
(* when a card has been initialised before.                                *)
AssertionFails ==
  /\ pc \in {"f_chdir", "f_findfirst", "f_open"}
  /\ registered /\ ~mounted /\ ~host
  /\ pc' = "Assert"
  /\ UNCHANGED <<call, arg, returned, card, cwd, current_directory_path, disk,
                 file_handle, listed, current>>

-----------------------------------------------------------------------------
cdRefused ==
  /\ Start("cd", TooLong, "Idle") /\ returned' = FALSE
  /\ UNCHANGED <<card, cwd, current_directory_path, disk, file_handle, listed, current>>

LengthUnchecked ==
  /\ \E p \in Path \cup {TooLong} : Start("cd", p, "f_chdir")
  /\ UNCHANGED <<returned, card, cwd, current_directory_path, disk, file_handle,
                 listed, current>>

cd ==
  /\ \E p \in Path : Start("cd", p, "f_chdir")
  /\ UNCHANGED <<returned, card, cwd, current_directory_path, disk, file_handle,
                 listed, current>>

chdir ==
  /\ pc = "f_chdir"
  /\ \E d \in Directory :
       /\ WithVolume(d)
       /\ Follow[d][arg] # NoDirectory
       /\ cwd' = Follow[d][arg]
  /\ pc' = "f_opendir"
  /\ current' = NoDirectory
  /\ UNCHANGED <<call, arg, returned, current_directory_path, disk, file_handle, listed>>

(* The volume, or the path.  A volume that was mounted only now has its    *)
(* current directory at the root.                                          *)
chdirFails ==
  /\ pc = "f_chdir"
  /\ \/ NoVolume /\ UNCHANGED cwd
     \/ \E d \in Directory : WithVolume(d) /\ cwd' = d
  /\ Return(FALSE)
  /\ UNCHANGED <<current_directory_path, disk, file_handle, listed, current>>

opendir ==
  /\ pc = "f_opendir"
  /\ \/ Return(TRUE) /\ current_directory_path' = arg /\ current' = cwd
     \/ Return(FALSE) /\ UNCHANGED <<current_directory_path, current>>
  /\ UNCHANGED <<card, cwd, disk, file_handle, listed>>

-----------------------------------------------------------------------------
(* ls: a listing that breaks off, and an empty one, return true as well.   *)
ls ==
  /\ Start("ls", EmptyPath, "f_findfirst")
  /\ UNCHANGED <<returned, card, cwd, current_directory_path, disk, file_handle,
                 listed, current>>

findfirst ==
  /\ pc = "f_findfirst"
  /\ \E d \in Directory :
       /\ WithVolume(d) /\ cwd' = d
       /\ Follow[d][current_directory_path] # NoDirectory
       /\ listed' = Follow[d][current_directory_path]
  /\ Return(TRUE)
  /\ UNCHANGED <<current_directory_path, disk, file_handle, current>>

findfirstFails ==
  /\ pc = "f_findfirst"
  /\ \/ NoVolume /\ UNCHANGED cwd
     \/ \E d \in Directory : WithVolume(d) /\ cwd' = d
  /\ Return(FALSE)
  /\ UNCHANGED <<current_directory_path, disk, file_handle, listed, current>>

-----------------------------------------------------------------------------
(* size, read and write, of the file in the current directory.             *)
UseFile ==
  /\ \/ Start("size", EmptyPath, "f_open")
     \/ Start("read", EmptyPath, "f_open")
     \/ \E c \in Content : Start("write", c, "f_open")
  /\ UNCHANGED <<returned, card, cwd, current_directory_path, disk, file_handle,
                 listed, current>>

(* FA_CREATE_ALWAYS creates the file or truncates it.                      *)
open ==
  /\ pc = "f_open"
  /\ \E d \in Directory :
       /\ WithVolume(d) /\ cwd' = d
       /\ \/ call = "write" /\ disk' = [disk EXCEPT ![d] = Partial]
          \/ call # "write" /\ disk[d] # Missing /\ UNCHANGED disk
  /\ file_handle' = TRUE
  /\ pc' = CASE call = "size" -> "f_close"
             [] call = "read" -> "f_read"
             [] call = "write" -> "f_write"
  /\ UNCHANGED <<call, arg, returned, current_directory_path, listed, current>>

openFails ==
  /\ pc = "f_open"
  /\ \/ NoVolume /\ UNCHANGED <<cwd, disk>>
     \/ \E d \in Directory :
          /\ WithVolume(d) /\ cwd' = d
          /\ \/ call = "write" /\ disk' = [disk EXCEPT ![d] = Partial]
             \/ UNCHANGED disk
  /\ Return(FALSE)
  /\ UNCHANGED <<current_directory_path, file_handle, listed, current>>

(* An error, or fewer bytes than asked for: the end of the file, or a full *)
(* disk.  Either way the file is closed and the call fails.                *)
TransferFails ==
  /\ pc \in {"f_read", "f_write"}
  /\ file_handle' = FALSE
  /\ Return(FALSE)
  /\ UNCHANGED <<card, cwd, current_directory_path, disk, listed, current>>

Transfer ==
  /\ pc \in {"f_read", "f_write"}
  /\ pc' = "f_close"
  /\ UNCHANGED <<call, arg, returned, card, cwd, current_directory_path, disk,
                 file_handle, listed, current>>

(* f_close writes the last sector and the directory entry of a file that   *)
(* was written, and may fail; its result is not looked at.                 *)
close ==
  /\ pc = "f_close"
  /\ file_handle' = FALSE
  /\ \/ call = "write" /\ disk' = [disk EXCEPT ![cwd] = arg]
     \/ UNCHANGED disk
  /\ Return(TRUE)
  /\ UNCHANGED <<card, cwd, current_directory_path, listed, current>>

Next ==
  \/ initialise \/ deinitialise \/ AssertionFails
  \/ cdRefused \/ cd \/ chdir \/ chdirFails \/ opendir
  \/ ls \/ findfirst \/ findfirstFails
  \/ UseFile \/ open \/ openFails \/ Transfer \/ TransferFails \/ close

Spec == Init /\ [][Next]_vars

-----------------------------------------------------------------------------
TypeOK ==
  /\ pc \in {"Idle", "f_chdir", "f_opendir", "f_findfirst", "f_open", "f_read",
             "f_write", "f_close", "Assert"}
  /\ call \in {"none", "initialise", "deinitialise", "cd", "ls", "size", "read", "write"}
  /\ arg \in Path \cup {EmptyPath, TooLong} \cup Content
  /\ pc = "f_chdir" => arg \in Path
  /\ pc = "f_opendir" => arg \in Path
  /\ returned \in BOOLEAN /\ file_handle \in BOOLEAN
  /\ host \in BOOLEAN /\ registered \in BOOLEAN /\ mounted \in BOOLEAN
  /\ cwd \in Directory
  /\ current_directory_path \in Path \cup {EmptyPath}
  /\ disk \in [Directory -> Content \cup {Partial, Missing}]
  /\ listed \in Directory \cup {NoDirectory}
  /\ current \in Directory \cup {NoDirectory}

(* A mounted volume has a card that is initialised: the descriptor is not  *)
(* zeroed under it, and deinitialise, which looks at the descriptor only,  *)
(* leaves no volume mounted.                                               *)
MountedHasCard ==
  /\ mounted => host /\ registered
  /\ pc = "Idle" /\ call = "deinitialise" => ~mounted

(* From a cd that returned true on, files are looked up where it went, and *)
(* ls lists that same directory, until a cd fails half way or the volume   *)
(* is registered again (absolute paths).                                   *)
DirectoryStaysSet ==
  current # NoDirectory =>
    /\ mounted /\ cwd = current
    /\ Follow[cwd][current_directory_path] = current

(* No call returns with its file open, whichever step failed.              *)
NoFileLeftOpen == pc = "Idle" => ~file_handle

(* "Writes a buffer into a file at path" (file_system.h:77).               *)
WrittenIsOnCard ==
  pc = "Idle" /\ call = "write" /\ returned => disk[cwd] = arg
=============================================================================
