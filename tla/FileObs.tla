------------------------------ MODULE FileObs ------------------------------
(***************************************************************************)
(* Observation of one managed path (fileobs/collector_linux.go: lstat,     *)
(* open without following links, fstat, read; fileobs.go: the status those *)
(* facts support), while other processes replace, remove, re-create, link  *)
(* and edit what the path names.  Inode numbers are reused.                *)
(*                                                                         *)
(* entry maps the path and one other name to inodes; a symbolic link at    *)
(* the path points to the other name.  A hash stands for the action kind,  *)
(* the path, the content and the mode it is computed from.                 *)
(***************************************************************************)
EXTENDS Integers, FiniteSets

CONSTANTS
    Inodes,         \* inode numbers
    Specs,          \* contents and modes of regular files: [content, mode]
    Requests,       \* identities and kinds callers ask for: [class, valid, place, kind]
    NoInode, NoFact

Path == "path"
Elsewhere == "elsewhere"
Nodes ==
    {[kind |-> "regular", content |-> s.content, mode |-> s.mode] : s \in Specs}
    \cup {[kind |-> "fifo", content |-> NoFact, mode |-> s.mode] : s \in Specs}
    \cup {[kind |-> k, content |-> NoFact, mode |-> NoFact] : k \in {"symlink", "directory"}}
Gone == [kind |-> "free", content |-> NoFact, mode |-> NoFact]

(* What reading to the end of an open node n returns: a regular file's     *)
(* content, of a pipe whatever its writers send; a directory is not read.  *)
Delivers(n) ==
    {c \in {s.content : s \in Specs} : n.kind = "fifo" \/ (n.kind = "regular" /\ c = n.content)}

ASSUME FileObsConstants == NoInode \notin Inodes /\ NoFact \notin Nodes

VARIABLES
    entry,      \* name -> inode, or NoInode
    node,       \* inode -> what it is
    ask,        \* the request in hand
    fpc,        \* next step of the collector
    raw,        \* what the collector recorded
    fd,         \* the open inode
    obs,        \* the observation: [status, hash]
    held,       \* history: what the path named since the request
    edited      \* history: an inode was changed in place since the request

fileVars == <<entry, node, ask, fpc, raw, fd, obs, held, edited>>

NoRaw == [lstat |-> "none", kind |-> "", ino |-> NoInode, mode |-> NoFact,
          open |-> "none", openIno |-> NoInode, openMode |-> NoFact, failed |-> FALSE, content |-> NoFact]
NoObs == [status |-> "", hash |-> NoFact]
NoRequest == [class |-> "", valid |-> FALSE, place |-> "", kind |-> ""]

(* What the path names. *)
Named == IF entry[Path] = NoInode THEN NoFact ELSE node[entry[Path]]
Unused == Inodes \ ({fd} \cup {entry[Path], entry[Elsewhere]})

FileInit ==
    /\ entry \in [{Path, Elsewhere} -> {NoInode}]
    /\ node = [i \in Inodes |-> Gone]
    /\ ask = NoRequest /\ fpc = "idle" /\ raw = NoRaw /\ fd = NoInode
    /\ obs = NoObs /\ held = {} /\ edited = FALSE

-----------------------------------------------------------------------------
(* constrain: a well-formed file-shaped identity, inside the compiled      *)
(* confinement of its class and not reserved.                              *)
Constrained(r) ==
    /\ r.valid
    /\ \/ r.class = "file" /\ r.place = "project"
       \/ r.class = "dropin" /\ r.place = "sysctl"

SupportedObservationKind(k) == k \in {"CREATE_FILE", "UPDATE_FILE"}

(* ObserveFile: the caller's errors come before any system call. *)
ObserveFile ==
    /\ fpc \in {"idle", "done"}
    /\ ask' \in Requests
    /\ fpc' = IF Constrained(ask') /\ SupportedObservationKind(ask'.kind) THEN "lstat" ELSE "done"
    /\ raw' = NoRaw /\ obs' = NoObs
    /\ held' = {Named} /\ edited' = FALSE
    /\ UNCHANGED <<entry, node, fd>>

(* Errors other than the ones the file system's state decides. *)
OtherErrors == {"permission", "loop", "other"}

Lstat ==
    /\ fpc = "lstat"
    /\ \/ /\ entry[Path] = NoInode
          /\ raw' = [raw EXCEPT !.lstat = "notfound"] /\ fpc' = "normalize"
       \/ \E e \in OtherErrors : raw' = [raw EXCEPT !.lstat = e] /\ fpc' = "normalize"
       \/ /\ entry[Path] # NoInode
          /\ raw' = [raw EXCEPT !.kind = Named.kind, !.ino = entry[Path], !.mode = Named.mode]
          /\ fpc' = IF Named.kind = "regular" THEN "open" ELSE "normalize"
    /\ UNCHANGED <<entry, node, ask, fd, obs, held, edited>>

(* Seeded fault, used by the mutants only: the open follows a link. *)
OpensFollowing ==
    IF Named # NoFact /\ Named.kind = "symlink" THEN entry[Elsewhere] ELSE entry[Path]

(* The inode an open with O_NOFOLLOW yields; a link is refused. *)
Opens == IF Named # NoFact /\ Named.kind = "symlink" THEN NoInode ELSE entry[Path]

(* The open of a pipe returns when it has a writer, that of a directory at *)
(* once: nothing looks at the kind of what was opened.                     *)
Open ==
    /\ fpc = "open"
    /\ \/ /\ Opens = NoInode
          /\ raw' = [raw EXCEPT !.open = IF entry[Path] = NoInode THEN "notfound" ELSE "loop"]
          /\ fpc' = "normalize" /\ UNCHANGED fd
       \/ /\ \E e \in {"permission", "other"} : raw' = [raw EXCEPT !.open = e]
          /\ fpc' = "normalize" /\ UNCHANGED fd
       \/ /\ Opens # NoInode
          /\ fd' = Opens /\ fpc' = "fstat" /\ UNCHANGED raw
    /\ UNCHANGED <<entry, node, ask, obs, held, edited>>

Fstat ==
    /\ fpc = "fstat"
    /\ \/ raw' = [raw EXCEPT !.open = "other"] /\ fpc' = "normalize" /\ fd' = NoInode
       \/ /\ raw' = [raw EXCEPT !.openIno = fd, !.openMode = node[fd].mode]
          /\ fpc' = "read" /\ UNCHANGED fd
    /\ UNCHANGED <<entry, node, ask, obs, held, edited>>

(* ReadAll from the same description, which is then closed. *)
Read ==
    /\ fpc = "read"
    /\ raw' \in {[raw EXCEPT !.failed = TRUE]} \cup {[raw EXCEPT !.content = c] : c \in Delivers(node[fd])}
    /\ fpc' = "normalize" /\ fd' = NoInode
    /\ UNCHANGED <<entry, node, ask, obs, held, edited>>

SpecHash(mode) == [kind |-> ask.kind, content |-> raw.content, mode |-> mode]

LiveSpec == SpecHash(raw.openMode)

(* normalize: only what the record supports. *)
Normalized ==
    IF raw.lstat = "notfound" THEN [status |-> "ABSENT", hash |-> NoFact]
    ELSE IF raw.lstat # "none" THEN [status |-> "UNKNOWN", hash |-> NoFact]
    ELSE IF raw.kind # "regular" THEN [status |-> "PRESENT_UNSUPPORTED", hash |-> NoFact]
    ELSE IF raw.open # "none" \/ raw.openIno # raw.ino THEN [status |-> "UNKNOWN", hash |-> NoFact]
    ELSE IF raw.failed THEN [status |-> "PRESENT_INCOMPLETE", hash |-> NoFact]
    ELSE [status |-> "PRESENT", hash |-> LiveSpec]

Normalize ==
    /\ fpc = "normalize" /\ fpc' = "done"
    /\ obs' = Normalized
    /\ UNCHANGED <<entry, node, ask, raw, fd, held, edited>>

(* LiveFact: what derivation is told. *)
LiveFact ==
    [state |-> CASE obs.status \in {"PRESENT", "PRESENT_INCOMPLETE", "PRESENT_UNSUPPORTED"} -> "PRESENT"
                 [] obs.status = "ABSENT"                                                  -> "ABSENT"
                 [] OTHER                                                                  -> "UNKNOWN",
     hash |-> obs.hash]

-----------------------------------------------------------------------------
(* Others.  Put covers creation and atomic replacement by rename. *)
Sees == held' = held \cup {IF entry'[Path] = NoInode THEN NoFact ELSE node'[entry'[Path]]}

Put ==
    /\ \E name \in {Path, Elsewhere}, i \in Unused, n \in Nodes :
          /\ name = Elsewhere => n.kind = "regular"
          /\ entry' = [entry EXCEPT ![name] = i] /\ node' = [node EXCEPT ![i] = n]
    /\ Sees /\ UNCHANGED <<ask, fpc, raw, fd, obs, edited>>
Unlink ==
    /\ \E name \in {n \in DOMAIN entry : entry[n] # NoInode} : entry' = [entry EXCEPT ![name] = NoInode]
    /\ node' = [i \in Inodes |-> IF i = fd \/ \E n \in DOMAIN entry : entry'[n] = i THEN node[i] ELSE Gone]
    /\ Sees /\ UNCHANGED <<ask, fpc, raw, fd, obs, edited>>
EditInPlace ==
    /\ \E i \in Inodes \ Unused, s \in Specs :
          /\ node[i].kind = "regular"
          /\ node' = [node EXCEPT ![i].content = s.content, ![i].mode = s.mode] /\ node' # node
    /\ edited' = TRUE
    /\ UNCHANGED entry /\ Sees /\ UNCHANGED <<ask, fpc, raw, fd, obs>>

FileNext ==
    \/ ObserveFile \/ Lstat \/ Open \/ Fstat \/ Read \/ Normalize
    \/ Put \/ Unlink \/ EditInPlace

FileObsSpec == FileInit /\ [][FileNext]_fileVars

-----------------------------------------------------------------------------
(* An observation is the truth of one instant of its own window, however   *)
(* the path is replaced, linked or removed meanwhile and whichever inode   *)
(* numbers come back: the bytes and the mode that are hashed are those of  *)
(* something the path itself named, a regular file or else a pipe that got *)
(* the number of one (unless somebody edited a file in place); absence is  *)
(* never reported for a path that was never free, and something is         *)
(* reported present only where something was.                              *)
ObservationIsInstant ==
    obs.status # "" =>
        /\ obs.status = "PRESENT" /\ ~edited =>
              \E h \in held \ {NoFact} : \E c \in Delivers(h) :
                  obs.hash = [kind |-> ask.kind, content |-> c, mode |-> h.mode]
        /\ LiveFact.state = "ABSENT" => NoFact \in held
        /\ LiveFact.state = "PRESENT" => \E h \in held : h # NoFact

(* What fileobs.go says of PRESENT, "a regular file was positively         *)
(* observed and its exact live specification (content + permission bits)   *)
(* was read and hashed": the hash is that of a regular file the path       *)
(* named.  The code does not keep it: normalize compares the inode number  *)
(* of what was opened and never its kind.                                  *)
PresentIsRegular ==
    obs.status = "PRESENT" /\ ~edited =>
        \E h \in held \ {NoFact} :
            h.kind = "regular" /\ obs.hash = [kind |-> ask.kind, content |-> h.content, mode |-> h.mode]
=============================================================================
