-------------------------- MODULE WorkspaceRecords --------------------------
(***************************************************************************)
(* The row of one workspace: CreateWorkspaceHandler for one slug, with the *)
(* owner's account_roles row as a second INSERT outside any transaction,   *)
(* and UpdateWorkspaceAvatarHandler over the object storage, which holds   *)
(* one object per file extension.  No controller creates personal          *)
(* workspaces.                                                             *)
(***************************************************************************)
EXTENDS Naturals

CONSTANTS Commands,    \* bound: requests the API serves at once
          Extensions,  \* bound: of the uploaded files
          NoAvatar

ASSUME WorkspaceRecordsAssumption == NoAvatar \notin Extensions

VARIABLES workspace,   \* rows with the slug
          owned,       \* the owner is a member
          avatar,      \* avatar_url
          objects,     \* objects in storage
          command,     \* where each command is, the avatar it read, the file it brings,
                       \* and if it is the sole update so far
          cut,         \* history: a creation stopped between its INSERTs
          overlapped   \* history: no sole update since two ran at once

recordVars == <<workspace, owned, avatar, objects, command, cut, overlapped>>

NoCommand == [at |-> "idle", previous |-> NoAvatar, ext |-> NoAvatar, sole |-> FALSE]

RecordsInit ==
    /\ workspace = 0
    /\ owned = FALSE
    /\ avatar = NoAvatar
    /\ objects = {}
    /\ command = [c \in Commands |-> NoCommand]
    /\ cut = FALSE
    /\ overlapped = FALSE

CommandGoto(c, at) == command' = [command EXCEPT ![c].at = at]

EndCommand(c) == command' = [command EXCEPT ![c] = NoCommand]

(* findBySlug: a workspace is a 409.                                       *)
FindBySlug(c) ==
    /\ command[c].at = "idle" /\ workspace = 0
    /\ CommandGoto(c, "insert")
    /\ UNCHANGED <<workspace, owned, avatar, objects, cut, overlapped>>

(* Mutant: the slug is not unique.                                         *)
InsertWorkspaceTwice(c) ==
    /\ command[c].at = "insert"
    /\ workspace' = workspace + 1
    /\ CommandGoto(c, "owner")
    /\ UNCHANGED <<owned, avatar, objects, cut, overlapped>>

(* The slug is unique: the second INSERT fails, and the answer is 500.     *)
InsertWorkspace(c) ==
    /\ command[c].at = "insert"
    /\ IF workspace = 0 THEN workspace' = 1 /\ CommandGoto(c, "owner")
                        ELSE EndCommand(c) /\ UNCHANGED workspace
    /\ UNCHANGED <<owned, avatar, objects, cut, overlapped>>

(* Mutant: the role of the owner is not found, and nothing is said.        *)
InsertOwnerSkipped(c) ==
    /\ command[c].at = "owner"
    /\ EndCommand(c)
    /\ UNCHANGED <<workspace, owned, avatar, objects, cut, overlapped>>

InsertOwner(c) ==
    /\ command[c].at = "owner"
    /\ owned' = TRUE
    /\ EndCommand(c)
    /\ UNCHANGED <<workspace, avatar, objects, cut, overlapped>>

Updating(c) == command[c].at \in {"upload", "save", "remove"}

(* What a request brings: if it is a form with the field avatar, if its    *)
(* MIME type is an image's, if it keeps to the limit, and the extension of *)
(* its name, which nothing compares with its type.                         *)
File == [field : BOOLEAN, image : BOOLEAN, fits : BOOLEAN, ext : Extensions]

(* FileUploadMiddleware: 400, 415 or 413 otherwise.                        *)
Taken(file) == file.field /\ file.image /\ file.fits

(* A member updates the avatar: findById.                                  *)
FindWorkspace(c, file) ==
    LET others == {d \in Commands : Updating(d)}
        read   == [at |-> "upload", previous |-> avatar, ext |-> file.ext, sole |-> others = {}]
    IN  /\ command[c].at = "idle" /\ owned /\ Taken(file)
        /\ command' = [d \in Commands |-> CASE d = c -> read
                                            [] d \in others -> [command[d] EXCEPT !.sole = FALSE]
                                            [] OTHER -> command[d]]
        /\ overlapped' = (overlapped \/ others # {})
        /\ UNCHANGED <<workspace, owned, avatar, objects, cut>>

Upload(c) ==
    /\ command[c].at = "upload"
    /\ objects' = objects \cup {command[c].ext}
    /\ CommandGoto(c, "save")
    /\ UNCHANGED <<workspace, owned, avatar, cut, overlapped>>

(* Mutant: the previous object goes even if it is the one just uploaded.   *)
SaveAvatarRemoving(c) ==
    LET cmd == command[c]
    IN  /\ cmd.at = "save"
        /\ avatar' = cmd.ext
        /\ IF cmd.previous = NoAvatar THEN EndCommand(c) ELSE CommandGoto(c, "remove")
        /\ overlapped' = (overlapped /\ ~cmd.sole)
        /\ UNCHANGED <<workspace, owned, objects, cut>>

(* The row is saved; the previous object goes if its key is another one.   *)
SaveAvatar(c) ==
    LET cmd == command[c]
    IN  /\ cmd.at = "save"
        /\ avatar' = cmd.ext
        /\ IF cmd.previous \in {NoAvatar, cmd.ext} THEN EndCommand(c) ELSE CommandGoto(c, "remove")
        /\ overlapped' = (overlapped /\ ~cmd.sole)
        /\ UNCHANGED <<workspace, owned, objects, cut>>

(* A failure to delete is swallowed.                                       *)
RemovePrevious(c) ==
    /\ command[c].at = "remove"
    /\ objects' \in {objects, objects \ {command[c].previous}}
    /\ EndCommand(c)
    /\ UNCHANGED <<workspace, owned, avatar, cut, overlapped>>

(* A call is rejected or the process stops.                                *)
CommandFails(c) ==
    /\ command[c].at # "idle"
    /\ cut' = (cut \/ command[c].at = "owner")
    /\ EndCommand(c)
    /\ UNCHANGED <<workspace, owned, avatar, objects, overlapped>>

RecordsNext ==
    \E c \in Commands :
        \/ FindBySlug(c) \/ InsertWorkspace(c) \/ InsertOwner(c)
        \/ \E file \in File : FindWorkspace(c, file)
        \/ Upload(c) \/ SaveAvatar(c) \/ RemovePrevious(c) \/ CommandFails(c)

CommandRecord ==
    [at : {"idle", "insert", "owner", "upload", "save", "remove"},
     previous : Extensions \cup {NoAvatar}, ext : Extensions \cup {NoAvatar}, sole : BOOLEAN]

RecordsTypeOK ==
    /\ workspace \in 0 .. 1
    /\ owned \in BOOLEAN
    /\ avatar \in Extensions \cup {NoAvatar}
    /\ objects \subseteq Extensions
    /\ command \in [Commands -> CommandRecord]
    /\ cut \in BOOLEAN /\ overlapped \in BOOLEAN

(* A workspace has an owner who can enter it, unless its creation is still *)
(* under way or was cut off between the two INSERTs of CreateWorkspace-    *)
(* Handler: then the slug is taken for ever by a workspace nobody can see. *)
OwnerlessWasCut ==
    workspace = 1 /\ ~owned => cut \/ \E c \in Commands : command[c].at = "owner"

(* The avatar a workspace points at is in storage, whatever updates fail:  *)
(* UpdateWorkspaceAvatarHandler uploads before it saves and deletes after. *)
(* Two updates at once can delete the object the other one has uploaded.   *)
AvatarStored ==
    overlapped \/ avatar \in objects \cup {NoAvatar}
=============================================================================
