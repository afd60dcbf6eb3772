-------------------------- MODULE ObservationProof --------------------------
(***************************************************************************)
(* What the program concludes from looking is true, for any files, process *)
(* ids, firewalls, evidence and number of steps of whoever changes them    *)
(* meanwhile.  The first three arguments are of one kind: the observation  *)
(* is made in several steps, and the invariant relates what has been       *)
(* recorded so far to the world as it is now and to what has happened      *)
(* since the first step.  The fourth is about evidence that accumulates.   *)
(***************************************************************************)
EXTENDS FileObs, ServiceObs, Mss, AwgSource, FiniteSetTheorems, LeastElement

-----------------------------------------------------------------------------
(* A file.  held collects what the path named; the invariant says which of *)
(* it the collector's record goes back to.  The number of an open inode is *)
(* not handed out again, so until somebody edits in place what is read is  *)
(* what the path named when it was opened.                                 *)

Contents == {NoFact} \cup {s.content : s \in Specs}
Modes == {NoFact} \cup {s.mode : s \in Specs}

RawRecords ==
    [lstat : {"none", "notfound"} \cup OtherErrors, kind : {"", "regular", "symlink", "fifo", "directory"},
     ino : Inodes \cup {NoInode}, mode : Modes,
     open : {"none", "notfound", "loop", "permission", "other"}, openIno : Inodes \cup {NoInode},
     openMode : Modes, failed : BOOLEAN, content : Contents]

FileObsTypes ==
    /\ entry \in [{Path, Elsewhere} -> Inodes \cup {NoInode}]
    /\ node \in [Inodes -> Nodes \cup {Gone}]
    /\ fd \in Inodes \cup {NoInode}
    /\ fpc \in {"idle", "lstat", "open", "fstat", "read", "normalize", "done"}
    /\ raw \in RawRecords
    /\ edited \in BOOLEAN

(* A name leads to a node; something is open only while it is looked at;   *)
(* what the path names has been seen.                                      *)
Tree ==
    /\ \A n \in {Path, Elsewhere} : entry[n] # NoInode => node[entry[n]] \in Nodes
    /\ fpc \in {"fstat", "read"} => fd \in Inodes /\ node[fd] \in Nodes
    /\ fpc \notin {"fstat", "read"} => fd = NoInode
    /\ fpc # "idle" => Named \in held

(* One node that the path named delivers this content and has this mode. *)
Seen(content, mode) ==
    \E h \in held \ {NoFact} : content \in Delivers(h) /\ mode = h.mode

(* What the record goes back to. *)
Recorded ==
    /\ raw.lstat = "notfound" => NoFact \in held
    /\ raw.kind # "" => \E h \in held : h # NoFact
    /\ fpc \in {"open", "fstat", "read"} \/ (fpc = "normalize" /\ raw.lstat = "none") => raw.kind # ""
    /\ fpc \in {"fstat", "read"} /\ ~edited => node[fd] \in held
    /\ fpc = "read" /\ ~edited => raw.openMode = node[fd].mode
    /\ /\ fpc = "normalize" /\ ~edited
       /\ raw.lstat = "none" /\ raw.kind = "regular" /\ raw.open = "none" /\ ~raw.failed
       => Seen(raw.content, raw.openMode)

FileObsInv ==
    /\ FileObsTypes
    /\ Tree
    /\ Recorded
    /\ obs.status # "" => fpc = "done"
    /\ ObservationIsInstant

LEMMA NodeFacts ==
  \A n \in Nodes : /\ n # NoFact /\ n.kind \in {"regular", "symlink", "fifo", "directory"}
                   /\ n.content \in Contents /\ n.mode \in Modes
                   /\ Delivers(n) \subseteq Contents
  BY FileObsConstants DEF Nodes, Contents, Modes, Delivers

LEMMA FileStart == FileInit => FileObsInv
<1> SUFFICES ASSUME FileInit PROVE FileObsInv
  OBVIOUS
<1>1. FileObsTypes
  BY DEF FileInit, RawRecords, FileObsTypes, NoRaw, Contents, Modes
<1>2. Tree /\ Recorded
  BY DEF FileInit, Tree, Recorded, NoRaw
<1> QED
  BY <1>1, <1>2 DEF FileInit, FileObsInv, ObservationIsInstant, NoObs

(* Steps of others: the record stays, what the path names is seen, and an  *)
(* open file changes by an edit only.                                      *)
LEMMA OthersFileStep ==
  ASSUME FileObsInv, UNCHANGED <<ask, fpc, raw, fd, obs>>, Sees,
         entry' \in [{Path, Elsewhere} -> Inodes \cup {NoInode}],
         node' \in [Inodes -> Nodes \cup {Gone}],
         edited' \in BOOLEAN, edited => edited',
         \A n \in {Path, Elsewhere} : entry'[n] # NoInode => node'[entry'[n]] \in Nodes,
         fd \in Inodes => \/ node'[fd] = node[fd]
                          \/ edited' /\ node'[fd] \in Nodes /\ node'[fd].kind = node[fd].kind
  PROVE  FileObsInv'
<1>1. held \subseteq held' /\ Named' \in held'
  BY DEF Sees, Named
<1>2. FileObsTypes'
  BY DEF FileObsInv, FileObsTypes
<1>3. Tree'
  BY <1>1 DEF FileObsInv, Tree
<1>4. ASSUME NEW c, NEW m, Seen(c, m) PROVE Seen(c, m)'
  BY <1>1, <1>4 DEF Seen
<1>5. Recorded'
  <2>1. /\ raw'.lstat = "notfound" => NoFact \in held'
        /\ raw'.kind # "" => \E h \in held' : h # NoFact
        /\ fpc' \in {"open", "fstat", "read"} \/ (fpc' = "normalize" /\ raw'.lstat = "none") => raw'.kind # ""
    BY <1>1 DEF FileObsInv, Recorded
  <2>2. ASSUME fpc' \in {"fstat", "read"}, ~edited'
        PROVE  node'[fd'] \in held' /\ (fpc' = "read" => raw'.openMode = node'[fd'].mode)
    BY <1>1, <2>2 DEF FileObsInv, Recorded, Tree
  <2>3. ASSUME fpc' = "normalize", ~edited', raw'.lstat = "none", raw'.kind = "regular",
               raw'.open = "none", ~raw'.failed
        PROVE  Seen(raw.content, raw.openMode)'
    <3>1. Seen(raw.content, raw.openMode)
      BY <2>3 DEF FileObsInv, Recorded
    <3> QED
      BY <1>1, <3>1 DEF Seen
  <2> QED
    BY <2>1, <2>2, <2>3 DEF Recorded
<1>6. ObservationIsInstant'
  BY <1>1 DEF FileObsInv, ObservationIsInstant, LiveFact
<1> QED
  BY <1>2, <1>3, <1>5, <1>6 DEF FileObsInv

(* Steps of the collector: the world stays, and the record has not yet     *)
(* become an observation.                                                  *)
LEMMA CollectorStep ==
  ASSUME FileObsInv, UNCHANGED <<entry, node, ask, obs, held, edited>>,
         fpc \in {"lstat", "open", "fstat", "read"},
         FileObsTypes', Tree', Recorded'
  PROVE  FileObsInv'
<1>1. obs.status = "" /\ obs' = obs
  BY DEF FileObsInv
<1> QED
  BY <1>1 DEF FileObsInv, ObservationIsInstant

LEMMA ObserveFileInv == ASSUME FileObsInv, ObserveFile PROVE FileObsInv'
<1>1. /\ fpc' \in {"lstat", "done"} /\ raw' = NoRaw /\ obs' = NoObs
      /\ held' = {Named} /\ edited' = FALSE /\ UNCHANGED <<entry, node, fd>> /\ fd = NoInode
  BY DEF ObserveFile, FileObsInv, Tree
<1>2. FileObsTypes'
  BY <1>1 DEF FileObsInv, RawRecords, FileObsTypes, NoRaw, Contents, Modes
<1>3. Tree'
  BY <1>1 DEF FileObsInv, Tree, Named
<1>4. Recorded'
  BY <1>1 DEF Recorded, NoRaw
<1> QED
  BY <1>1, <1>2, <1>3, <1>4 DEF FileObsInv, ObservationIsInstant, NoObs

LEMMA LstatInv == ASSUME FileObsInv, Lstat PROVE FileObsInv'
<1>1. fpc = "lstat" /\ UNCHANGED <<entry, node, ask, fd, obs, held, edited>>
  BY DEF Lstat
<1>2. fpc' \in {"open", "normalize"} /\ fd = NoInode /\ Named \in held
  BY <1>1 DEF Lstat, FileObsInv, Tree
<1>3. Tree'
  BY <1>1, <1>2 DEF FileObsInv, Tree, Named
<1>4. CASE \E e \in OtherErrors \cup {"notfound"} :
             /\ raw' = [raw EXCEPT !.lstat = e] /\ fpc' = "normalize"
             /\ e = "notfound" => entry[Path] = NoInode
  <2>1. PICK e \in OtherErrors \cup {"notfound"} :
             /\ raw' = [raw EXCEPT !.lstat = e] /\ fpc' = "normalize"
             /\ e = "notfound" => entry[Path] = NoInode
    BY <1>4
  <2>2. e # "none"
    BY DEF OtherErrors
  <2>3. /\ raw'.lstat = e /\ raw'.kind = raw.kind
        /\ FileObsTypes'
    BY <1>1, <2>1, <2>2 DEF FileObsInv, FileObsTypes, RawRecords
  <2>4. Recorded'
    BY <1>1, <1>2, <2>1, <2>2, <2>3 DEF FileObsInv, Recorded, Named
  <2> QED
    BY <1>1, <1>3, <2>3, <2>4, CollectorStep
<1>5. CASE /\ entry[Path] # NoInode
           /\ raw' = [raw EXCEPT !.kind = Named.kind, !.ino = entry[Path], !.mode = Named.mode]
           /\ fpc' = IF Named.kind = "regular" THEN "open" ELSE "normalize"
  <2>1. Named \in Nodes /\ entry[Path] \in Inodes
    BY <1>5 DEF FileObsInv, FileObsTypes, Tree, Named
  <2>2. Named # NoFact /\ Named.kind \in {"regular", "symlink", "fifo", "directory"} /\ Named.mode \in Modes
    BY <2>1, NodeFacts
  <2>3. raw'.lstat = raw.lstat /\ raw'.kind = Named.kind /\ FileObsTypes'
    BY <1>1, <1>2, <1>5, <2>1, <2>2 DEF FileObsInv, FileObsTypes, RawRecords
  <2>4. Recorded'
    BY <1>1, <1>2, <1>5, <2>2, <2>3 DEF FileObsInv, Recorded
  <2> QED
    BY <1>1, <1>3, <2>3, <2>4, CollectorStep
<1> QED
  BY <1>4, <1>5 DEF Lstat, OtherErrors

LEMMA OpenInv == ASSUME FileObsInv, Open PROVE FileObsInv'
<1>1. fpc = "open" /\ UNCHANGED <<entry, node, ask, obs, held, edited>>
  BY DEF Open
<1>2. fd = NoInode /\ Named \in held
  BY <1>1 DEF FileObsInv, Tree
<1>3. CASE \E e \in {"notfound", "loop", "permission", "other"} :
             raw' = [raw EXCEPT !.open = e] /\ fpc' = "normalize" /\ UNCHANGED fd
  <2>1. PICK e \in {"notfound", "loop", "permission", "other"} :
             raw' = [raw EXCEPT !.open = e] /\ fpc' = "normalize" /\ UNCHANGED fd
    BY <1>3
  <2>2. /\ raw'.open = e /\ raw'.kind = raw.kind /\ raw'.lstat = raw.lstat
        /\ FileObsTypes'
    BY <1>1, <2>1 DEF FileObsInv, FileObsTypes, RawRecords
  <2>3. Tree'
    BY <1>1, <1>2, <2>1 DEF FileObsInv, Tree, Named
  <2>4. Recorded'
    BY <1>1, <2>1, <2>2 DEF FileObsInv, Recorded
  <2> QED
    BY <1>1, <2>2, <2>3, <2>4, CollectorStep
<1>4. CASE /\ Opens # NoInode
           /\ fd' = Opens /\ fpc' = "fstat" /\ UNCHANGED raw
  <2>1. Opens = entry[Path] /\ Named = node[Opens] /\ Opens \in Inodes
    BY <1>4 DEF Opens, Named, FileObsInv, FileObsTypes
  <2>2. Named \in Nodes
    BY <1>4, <2>1 DEF FileObsInv, Tree
  <2>3. FileObsTypes'
    BY <1>1, <1>4, <2>1 DEF FileObsInv, FileObsTypes
  <2>4. Tree'
    BY <1>1, <1>2, <1>4, <2>1, <2>2 DEF FileObsInv, Tree, Named
  <2>5. Recorded'
    BY <1>1, <1>2, <1>4, <2>1 DEF FileObsInv, Recorded
  <2> QED
    BY <1>1, <2>3, <2>4, <2>5, CollectorStep
<1> QED
  BY <1>3, <1>4 DEF Open

LEMMA FstatInv == ASSUME FileObsInv, Fstat PROVE FileObsInv'
<1>1. fpc = "fstat" /\ UNCHANGED <<entry, node, ask, obs, held, edited>>
  BY DEF Fstat
<1>2. fd \in Inodes /\ node[fd] \in Nodes /\ Named \in held
  BY <1>1 DEF FileObsInv, Tree
<1>3. CASE raw' = [raw EXCEPT !.open = "other"] /\ fpc' = "normalize" /\ fd' = NoInode
  <2>1. /\ raw'.open = "other" /\ raw'.kind = raw.kind /\ raw'.lstat = raw.lstat
        /\ FileObsTypes'
    BY <1>1, <1>3 DEF FileObsInv, FileObsTypes, RawRecords
  <2>2. Tree'
    BY <1>1, <1>2, <1>3 DEF FileObsInv, Tree, Named
  <2>3. Recorded'
    BY <1>1, <1>3, <2>1 DEF FileObsInv, Recorded
  <2> QED
    BY <1>1, <2>1, <2>2, <2>3, CollectorStep
<1>4. CASE /\ raw' = [raw EXCEPT !.openIno = fd, !.openMode = node[fd].mode]
           /\ fpc' = "read" /\ UNCHANGED fd
  <2>1. node[fd].mode \in Modes
    BY <1>2, NodeFacts
  <2>2. /\ raw'.openMode = node[fd].mode /\ raw'.kind = raw.kind /\ raw'.lstat = raw.lstat
        /\ FileObsTypes'
    BY <1>1, <1>2, <1>4, <2>1 DEF FileObsInv, FileObsTypes, RawRecords
  <2>3. Tree'
    BY <1>1, <1>2, <1>4 DEF FileObsInv, Tree, Named
  <2>4. Recorded'
    BY <1>1, <1>4, <2>2 DEF FileObsInv, Recorded
  <2> QED
    BY <1>1, <2>2, <2>3, <2>4, CollectorStep
<1> QED
  BY <1>3, <1>4 DEF Fstat

LEMMA ReadInv == ASSUME FileObsInv, Read PROVE FileObsInv'
<1>1. /\ fpc = "read" /\ fpc' = "normalize" /\ fd' = NoInode
      /\ UNCHANGED <<entry, node, ask, obs, held, edited>>
      /\ raw' = [raw EXCEPT !.failed = TRUE] \/ \E c \in Delivers(node[fd]) : raw' = [raw EXCEPT !.content = c]
  BY DEF Read
<1>2. fd \in Inodes /\ node[fd] \in Nodes /\ Named \in held
  BY <1>1 DEF FileObsInv, Tree
<1>3. Delivers(node[fd]) \subseteq Contents /\ node[fd] # NoFact
  BY <1>2, NodeFacts
<1>4. /\ raw'.lstat = raw.lstat /\ raw'.kind = raw.kind /\ raw'.openMode = raw.openMode
      /\ raw'.failed \/ raw'.content \in Delivers(node[fd])
      /\ FileObsTypes'
  BY <1>1, <1>2, <1>3 DEF FileObsInv, FileObsTypes, RawRecords
<1>5. Tree'
  BY <1>1, <1>2 DEF FileObsInv, Tree, Named
<1>6. Recorded'
  <2>1. ASSUME ~edited', ~raw'.failed PROVE Seen(raw.content, raw.openMode)'
    <3>1. /\ node[fd] \in held \ {NoFact} /\ raw'.content \in Delivers(node[fd])
          /\ raw'.openMode = node[fd].mode /\ held' = held
      BY <1>1, <1>2, <1>3, <1>4, <2>1 DEF FileObsInv, Recorded
    <3> QED
      BY <3>1 DEF Seen
  <2> QED
    BY <1>1, <1>4, <2>1 DEF FileObsInv, Recorded
<1> QED
  BY <1>1, <1>4, <1>5, <1>6, CollectorStep

LEMMA NormalizeInv == ASSUME FileObsInv, Normalize PROVE FileObsInv'
<1>1. /\ fpc = "normalize" /\ fpc' = "done" /\ obs' = Normalized
      /\ UNCHANGED <<entry, node, ask, raw, fd, held, edited>>
  BY DEF Normalize
<1>2. FileObsTypes' /\ Tree' /\ Recorded'
  BY <1>1 DEF FileObsInv, FileObsTypes, Tree, Named, Recorded
<1>3. ASSUME Normalized.status = "PRESENT", ~edited
      PROVE  \E h \in held \ {NoFact} : \E c \in Delivers(h) :
                Normalized.hash = [kind |-> ask.kind, content |-> c, mode |-> h.mode]
  <2>1. /\ raw.lstat = "none" /\ raw.kind = "regular" /\ raw.open = "none" /\ ~raw.failed
        /\ Normalized.hash = [kind |-> ask.kind, content |-> raw.content, mode |-> raw.openMode]
    BY <1>3 DEF Normalized, LiveSpec, SpecHash
  <2>2. Seen(raw.content, raw.openMode)
    BY <1>1, <1>3, <2>1 DEF FileObsInv, Recorded
  <2> QED
    BY <2>1, <2>2 DEF Seen
<1>4. Normalized.status = "ABSENT" => NoFact \in held
  BY DEF Normalized, FileObsInv, Recorded
<1>5. Normalized.status \in {"PRESENT", "PRESENT_INCOMPLETE", "PRESENT_UNSUPPORTED"} =>
         \E h \in held : h # NoFact
  BY <1>1 DEF Normalized, FileObsInv, Recorded
<1>6. ObservationIsInstant'
  BY <1>1, <1>3, <1>4, <1>5 DEF ObservationIsInstant, LiveFact
<1> QED
  BY <1>1, <1>2, <1>6 DEF FileObsInv

LEMMA PutInv == ASSUME FileObsInv, Put PROVE FileObsInv'
<1>1. PICK name \in {Path, Elsewhere}, i \in Unused, n \in Nodes :
        entry' = [entry EXCEPT ![name] = i] /\ node' = [node EXCEPT ![i] = n]
  BY DEF Put
<1>2. i \in Inodes /\ i # fd /\ i # entry[Path] /\ i # entry[Elsewhere]
  BY DEF Unused
<1>3. /\ entry' \in [{Path, Elsewhere} -> Inodes \cup {NoInode}]
      /\ node' \in [Inodes -> Nodes \cup {Gone}]
      /\ fd \in Inodes => node'[fd] = node[fd]
  BY <1>1, <1>2 DEF FileObsInv, FileObsTypes
<1>4. ASSUME NEW m \in {Path, Elsewhere}, entry'[m] # NoInode PROVE node'[entry'[m]] \in Nodes
  <2>1. CASE m = name
    BY <1>1, <1>2, <2>1 DEF FileObsInv, FileObsTypes
  <2>2. CASE m # name
    <3>1. entry'[m] = entry[m] /\ entry[m] \in Inodes /\ entry[m] # i
      BY <1>1, <1>2, <1>4, <2>2 DEF FileObsInv, FileObsTypes
    <3> QED
      BY <1>1, <1>4, <3>1 DEF FileObsInv, FileObsTypes, Tree
  <2> QED
    BY <2>1, <2>2
<1>5. UNCHANGED <<ask, fpc, raw, fd, obs, edited>> /\ Sees /\ edited \in BOOLEAN
  BY DEF Put, FileObsInv, FileObsTypes
<1> QED
  BY <1>3, <1>4, <1>5, OthersFileStep

LEMMA UnlinkInv == ASSUME FileObsInv, Unlink PROVE FileObsInv'
<1>1. PICK name \in DOMAIN entry : entry' = [entry EXCEPT ![name] = NoInode]
  BY DEF Unlink
<1>2. DOMAIN entry = {Path, Elsewhere}
  BY DEF FileObsInv, FileObsTypes
<1>3. node' = [i \in Inodes |-> IF i = fd \/ \E n \in DOMAIN entry : entry'[n] = i THEN node[i] ELSE Gone]
  BY DEF Unlink
<1>4. /\ entry' \in [{Path, Elsewhere} -> Inodes \cup {NoInode}]
      /\ node' \in [Inodes -> Nodes \cup {Gone}]
      /\ fd \in Inodes => node'[fd] = node[fd]
  BY <1>1, <1>2, <1>3 DEF FileObsInv, FileObsTypes
<1>5. ASSUME NEW m \in {Path, Elsewhere}, entry'[m] # NoInode PROVE node'[entry'[m]] \in Nodes
  <2>1. entry'[m] = entry[m] /\ entry[m] \in Inodes
    BY <1>1, <1>2, <1>5 DEF FileObsInv, FileObsTypes
  <2>2. node'[entry'[m]] = node[entry[m]]
    BY <1>2, <1>3, <2>1
  <2> QED
    BY <1>5, <2>1, <2>2 DEF FileObsInv, Tree
<1>6. UNCHANGED <<ask, fpc, raw, fd, obs, edited>> /\ Sees /\ edited \in BOOLEAN
  BY DEF Unlink, FileObsInv, FileObsTypes
<1> QED
  BY <1>4, <1>5, <1>6, OthersFileStep

LEMMA EditInPlaceInv == ASSUME FileObsInv, EditInPlace PROVE FileObsInv'
<1>1. PICK i \in Inodes \ Unused, s \in Specs :
        /\ node[i].kind = "regular"
        /\ node' = [node EXCEPT ![i].content = s.content, ![i].mode = s.mode]
  BY DEF EditInPlace
<1>2. node[i] \in Nodes
  <2>1. node[i] \in Nodes \cup {Gone}
    BY DEF FileObsInv, FileObsTypes
  <2> QED
    BY <1>1, <2>1 DEF Gone
<1>3. node'[i] = [kind |-> "regular", content |-> s.content, mode |-> s.mode]
  <2>1. PICK q \in Specs : node[i] = [kind |-> "regular", content |-> q.content, mode |-> q.mode]
    BY <1>1, <1>2 DEF Nodes
  <2>2. node'[i] = [node[i] EXCEPT !.content = s.content, !.mode = s.mode]
    BY <1>1 DEF FileObsInv, FileObsTypes
  <2>3. node[i] \in [kind : {"regular"}, content : {q.content}, mode : {q.mode}]
    BY <2>1
  <2>4. node'[i] \in [kind : {"regular"}, content : {s.content}, mode : {s.mode}]
    BY <2>2, <2>3
  <2> QED
    BY <2>4
<1>4. node'[i] \in Nodes /\ node'[i].kind = "regular"
  BY <1>3 DEF Nodes
<1>5. DOMAIN node' = Inodes /\ \A k \in Inodes \ {i} : node'[k] = node[k]
  BY <1>1 DEF FileObsInv, FileObsTypes
<1>6. node' \in [Inodes -> Nodes \cup {Gone}]
  <2>1. node' = [k \in Inodes |-> node'[k]]
    BY <1>1 DEF FileObsInv, FileObsTypes
  <2>2. \A k \in Inodes : node'[k] \in Nodes \cup {Gone}
    BY <1>4, <1>5 DEF FileObsInv, FileObsTypes
  <2> QED
    BY <2>1, <2>2
<1>7. UNCHANGED <<entry, ask, fpc, raw, fd, obs>> /\ Sees /\ edited' = TRUE
  BY DEF EditInPlace
<1>8. ASSUME NEW m \in {Path, Elsewhere}, entry'[m] # NoInode PROVE node'[entry'[m]] \in Nodes
  <2>1. entry'[m] = entry[m] /\ entry[m] \in Inodes
    BY <1>7, <1>8 DEF FileObsInv, FileObsTypes
  <2> QED
    BY <1>4, <1>5, <1>8, <2>1 DEF FileObsInv, Tree
<1>9. fd \in Inodes => \/ node'[fd] = node[fd]
                       \/ node'[fd] \in Nodes /\ node'[fd].kind = node[fd].kind
  BY <1>1, <1>4, <1>5
<1>10. entry' \in [{Path, Elsewhere} -> Inodes \cup {NoInode}]
  BY <1>7 DEF FileObsInv, FileObsTypes
<1> QED
  BY <1>6, <1>7, <1>8, <1>9, <1>10, OthersFileStep

LEMMA FileObsStep == FileObsInv /\ [FileNext]_fileVars => FileObsInv'
<1> SUFFICES ASSUME FileObsInv, [FileNext]_fileVars PROVE FileObsInv'
  OBVIOUS
<1>1. CASE UNCHANGED fileVars
  <2>1. FileObsTypes' /\ Tree' /\ Recorded'
    BY <1>1 DEF fileVars, FileObsInv, FileObsTypes, Tree, Named, Recorded, Seen
  <2> QED
    BY <1>1, <2>1 DEF fileVars, FileObsInv, ObservationIsInstant, LiveFact
<1> QED
  BY <1>1, ObserveFileInv, LstatInv, OpenInv, FstatInv, ReadInv, NormalizeInv,
     PutInv, UnlinkInv, EditInPlaceInv DEF FileNext

(* What is reported of a file is the truth of one instant of the           *)
(* observation's own window, for any number of replacements, links, edits, *)
(* removals and reused inode numbers between any two system calls.         *)
THEOREM FileObservationIsInstant == FileObsSpec => []ObservationIsInstant
<1>1. FileObsInv => ObservationIsInstant
  BY DEF FileObsInv
<1> QED
  BY <1>1, FileStart, FileObsStep, PTL DEF FileObsSpec

-----------------------------------------------------------------------------
(* A service.  The comparison sees two snapshots and the property speaks   *)
(* of what happened between them.  As long as nothing started, the         *)
(* invocation is the same or gone and a unit that was down is down; as     *)
(* long as no process came, the start time is the same.  What the second   *)
(* snapshot shows, being an answer about the unit as it is then, decides.  *)

Down == {"inactive", "failed"}

UnitTypes ==
    /\ starts \in Nat
    /\ unit \in [load : {"loaded", "not-found"}, active : Down \cup {"active", "activating"},
                pid : Pids, inv : 0..starts, mono : Int]

(* What a snapshot o tells of a unit u that it was taken of. *)
Tells(o, u) ==
    /\ UsableInvocationID(o) => u.inv # 0 /\ o.inv = u.inv
    /\ o.load = "PRESENT" =>
          /\ o.active = u.active
          /\ o.time \in {<<"mono", u.mono>>, <<"ts", u.mono \div 2>>, Missing}

(* The first snapshot and the unit as it is now. *)
Window ==
    /\ UsableInvocationID(before) =>
          /\ before.inv \in 1..starts
          /\ "start" \notin happened => unit.inv \in {before.inv, 0}
          /\ "start" \in happened => unit.inv = 0 \/ unit.inv > before.inv
    /\ before.load = "PRESENT" =>
          /\ before.active \in Down /\ "start" \notin happened => unit.active \in Down
          /\ "process" \notin happened =>
                before.time \in {<<"mono", unit.mono>>, <<"ts", unit.mono \div 2>>, Missing}

ServiceInv ==
    /\ UnitTypes
    /\ spc \in {"idle", "attempt", "done"}
    /\ spc = "attempt" /\ before # NoSnap => Window
    /\ VerdictIsTrue

-----------------------------------------------------------------------------
(* Every snapshot tells the truth about the unit it was taken of. *)
LEMMA SnapshotTells ==
  ASSUME UnitTypes, NEW o \in Snapshots, o # NoSnap
  PROVE  Tells(o, unit)
<1>1. PICK a \in Answers(unit) : o = Observe(a)
  BY DEF Snapshots
<1>2. CASE unit.load = "not-found"
  <2>1. a = [load |-> "not-found", active |-> "inactive", pid |-> 0, inv |-> Missing, time |-> <<"mono", 0>>]
    BY <1>2 DEF Answers
  <2>2. o.load = "UNKNOWN" /\ o.inv = Missing
    BY <1>1, <2>1 DEF Observe
  <2> QED
    BY <2>2 DEF Tells, UsableInvocationID
<1>3. CASE unit.load # "not-found"
  <2>1. a \in [load : {unit.load}, active : {unit.active, Missing}, pid : {unit.pid, Garbled},
               inv : {IF unit.inv = 0 THEN Missing ELSE unit.inv, Missing, Garbled},
               time : {<<"mono", unit.mono>>, <<"ts", unit.mono \div 2>>, Missing}]
    BY <1>3 DEF Answers
  <2>2. /\ o.active = a.active /\ o.inv = a.inv /\ o.time = a.time
        /\ o.load = "PRESENT" => a.active # Missing
    BY <1>1, <2>1 DEF Observe
  <2> QED
    BY <2>1, <2>2 DEF Tells, UsableInvocationID
<1> QED
  BY <1>2, <1>3

(* A verdict over a first snapshot in its window and a second one of the   *)
(* unit as it is now is true.                                              *)
LEMMA CompareIsTrue ==
  ASSUME UnitTypes, Window, NEW after, Tells(after, unit)
  PROVE  /\ Compare(before, after) = "NEW_INVOCATION_OBSERVED" => "start" \in happened
         /\ Compare(before, after) = "NO_NEW_INVOCATION" => "start" \notin happened
         /\ Compare(before, after) = "MAIN_PROCESS_CHANGED" => "process" \in happened
<1>1. CASE before.load # "PRESENT" \/ after.load # "PRESENT"
  BY <1>1 DEF Compare
<1>2. CASE /\ before.load = "PRESENT" /\ after.load = "PRESENT"
           /\ UsableInvocationID(before) /\ UsableInvocationID(after)
  <2>1. /\ Compare(before, after) = IF before.inv = after.inv THEN "NO_NEW_INVOCATION" ELSE "NEW_INVOCATION_OBSERVED"
    BY <1>2 DEF Compare
  <2>2. /\ unit.inv # 0 /\ after.inv = unit.inv /\ unit.inv \in Nat
        /\ before.inv \in Nat
        /\ "start" \notin happened => unit.inv \in {before.inv, 0}
        /\ "start" \in happened => unit.inv = 0 \/ unit.inv > before.inv
    BY <1>2 DEF Window, Tells, UnitTypes
  <2> QED
    BY <2>1, <2>2
<1>3. CASE /\ before.load = "PRESENT" /\ after.load = "PRESENT"
           /\ ~(UsableInvocationID(before) /\ UsableInvocationID(after))
  <2>1. Compare(before, after) # "NO_NEW_INVOCATION"
    BY <1>3 DEF Compare
  <2>2. ASSUME Compare(before, after) = "NEW_INVOCATION_OBSERVED" PROVE "start" \in happened
    <3>1. after.active = "active" /\ WasDown(before)
      BY <1>3, <2>2 DEF Compare
    <3> QED
      BY <1>3, <3>1 DEF WasDown, Window, Tells, Down
  <2>3. ASSUME Compare(before, after) = "MAIN_PROCESS_CHANGED" PROVE "process" \in happened
    <3>1. StartIdentityKnown(before, after) /\ before.time # after.time
      BY <1>3, <2>3 DEF Compare
    <3>2. ASSUME "process" \notin happened PROVE FALSE
      <4>1. /\ before.time \in {<<"mono", unit.mono>>, <<"ts", unit.mono \div 2>>}
            /\ after.time \in {<<"mono", unit.mono>>, <<"ts", unit.mono \div 2>>}
            /\ before.time[1] = after.time[1]
        BY <1>3, <3>1, <3>2 DEF StartIdentityKnown, Window, Tells
      <4> QED
        BY <3>1, <4>1
    <3> QED
      BY <3>2
  <2> QED
    BY <2>1, <2>2, <2>3
<1> QED
  BY <1>1, <1>2, <1>3

-----------------------------------------------------------------------------
LEMMA ServiceStart == ServiceInit => ServiceInv
<1> SUFFICES ASSUME ServiceInit PROVE ServiceInv
  OBVIOUS
<1>1. UnitTypes
  BY ServiceConstants DEF ServiceInit, UnitTypes, Down
<1> QED
  BY <1>1 DEF ServiceInit, ServiceInv, VerdictIsTrue

LEMMA ServiceStep == ServiceInv /\ [ServiceNext]_serviceVars => ServiceInv'
<1> SUFFICES ASSUME ServiceInv, [ServiceNext]_serviceVars PROVE ServiceInv'
  OBVIOUS
<1> USE DEF ServiceInv
<1>1. CASE BeginServiceObservation
  <2>1. /\ UNCHANGED <<unit, starts>> /\ spc' = "attempt" /\ happened' = {}
        /\ before' \in Snapshots \cup {NoSnap}
    BY <1>1 DEF BeginServiceObservation, Snapshots
  <2>2. ASSUME before' # NoSnap PROVE Window'
    <3>1. Tells(before', unit)
      BY <2>1, <2>2, SnapshotTells
    <3> QED
      BY <2>1, <3>1 DEF Window, Tells, UsableInvocationID, UnitTypes
  <2> QED
    BY <2>1, <2>2 DEF UnitTypes, VerdictIsTrue
<1>2. CASE EndServiceObservation
  <2>1. /\ UNCHANGED <<unit, starts, plan, before, happened>>
        /\ spc = "attempt" /\ spc' = "done"
    BY <1>2 DEF EndServiceObservation
  <2>2. PICK status \in TxStatuses, after \in Snapshots :
          report' = IF plan.observer /\ ReportableServiceAction(plan)
                    THEN [made |-> TRUE, applied |-> status = "APPLIED",
                          verdict |-> IF NoSnap \in {before, after} THEN "" ELSE Compare(before, after)]
                    ELSE NoReport
    BY <1>2 DEF EndServiceObservation
  <2>3. CASE report'.verdict = ""
    BY <2>1, <2>3 DEF VerdictIsTrue, UnitTypes
  <2>4. CASE report'.verdict # ""
    <3>1. /\ plan.observer /\ plan.actions = 1 /\ before # NoSnap /\ after # NoSnap
          /\ report'.verdict = Compare(before, after)
      BY <2>2, <2>4 DEF NoReport, ReportableServiceAction
    <3>2. Window /\ Tells(after, unit)
      BY <2>1, <3>1, SnapshotTells
    <3>3. /\ report'.verdict = "NEW_INVOCATION_OBSERVED" => "start" \in happened
          /\ report'.verdict = "NO_NEW_INVOCATION" => "start" \notin happened
          /\ report'.verdict = "MAIN_PROCESS_CHANGED" => "process" \in happened
      BY <3>1, <3>2, CompareIsTrue
    <3> QED
      BY <2>1, <3>1, <3>3 DEF VerdictIsTrue, UnitTypes
  <2> QED
    BY <2>3, <2>4
<1>3. CASE StartUnit
  <2>1. /\ UNCHANGED <<spc, plan, before, report>>
        /\ starts' = starts + 1 /\ unit'.inv = starts + 1
        /\ UnitTypes'
    <3>1. PICK a \in {"active", "activating"}, p \in Pids, m \in Times :
             unit' = [unit EXCEPT !.active = a, !.pid = p, !.inv = starts + 1, !.mono = m]
      BY <1>3 DEF StartUnit
    <3>2. starts' = starts + 1 /\ m \in Int
      BY <1>3, ServiceConstants DEF StartUnit, UnitTypes, Times
    <3>3. starts + 1 \in 0..starts' /\ starts' \in Nat
      BY <3>2 DEF UnitTypes
    <3> QED
      BY <1>3, <3>1, <3>2, <3>3 DEF StartUnit, UnitTypes, Down
  <2>2. happened' = IF spc = "attempt" THEN happened \cup {"start", "process"} ELSE happened
    BY <1>3 DEF StartUnit, Happens
  <2>3. ASSUME spc = "attempt", before # NoSnap PROVE Window'
    BY <2>1, <2>2, <2>3 DEF Window, UsableInvocationID, UnitTypes
  <2> QED
    BY <2>1, <2>2, <2>3 DEF VerdictIsTrue
<1>4. CASE Settle
  <2>1. /\ UNCHANGED <<starts, spc, plan, before, happened, report>>
        /\ unit'.inv = unit.inv /\ unit'.mono = unit.mono /\ unit.active \notin Down
        /\ UnitTypes'
    BY <1>4 DEF Settle, UnitTypes, Down
  <2> QED
    BY <2>1 DEF Window, UsableInvocationID, VerdictIsTrue
<1>5. CASE StopUnit
  <2>1. /\ UNCHANGED <<starts, spc, plan, before, happened, report>>
        /\ unit'.inv = unit.inv /\ unit'.mono = unit.mono /\ unit'.active \in Down
        /\ UnitTypes'
    BY <1>5, ServiceConstants DEF StopUnit, UnitTypes, Down
  <2> QED
    BY <2>1 DEF Window, UsableInvocationID, VerdictIsTrue
<1>6. CASE Handoff
  <2>1. /\ UNCHANGED <<starts, spc, plan, before, report>>
        /\ unit'.inv = unit.inv /\ unit'.active = unit.active
        /\ UnitTypes'
    <3>1. PICK p \in Pids \ {0}, m \in Times : unit' = [unit EXCEPT !.pid = p, !.mono = m]
      BY <1>6 DEF Handoff
    <3>2. m \in Int
      BY ServiceConstants DEF UnitTypes, Times
    <3> QED
      BY <1>6, <3>1, <3>2 DEF Handoff, UnitTypes, Down
  <2>2. happened' = IF spc = "attempt" THEN happened \cup {"process"} ELSE happened
    BY <1>6 DEF Handoff, Happens
  <2>3. ASSUME spc = "attempt", before # NoSnap PROVE Window'
    BY <2>1, <2>2, <2>3 DEF Window, UsableInvocationID
  <2> QED
    BY <2>1, <2>2, <2>3 DEF VerdictIsTrue
<1>7. CASE Unload
  <2>1. /\ UNCHANGED <<starts, spc, plan, before, happened, report>>
        /\ unit'.inv = 0 /\ unit'.mono = unit.mono /\ unit'.active \in Down
        /\ UnitTypes'
    BY <1>7, ServiceConstants DEF Unload, UnitTypes, Down
  <2> QED
    BY <2>1 DEF Window, UsableInvocationID, VerdictIsTrue
<1>8. CASE UNCHANGED serviceVars
  <2>1. UnitTypes' /\ VerdictIsTrue'
    BY <1>8 DEF serviceVars, UnitTypes, VerdictIsTrue
  <2>2. Window => Window'
    BY <1>8 DEF serviceVars, Window, UsableInvocationID
  <2> QED
    BY <1>8, <2>1, <2>2 DEF serviceVars
<1> QED
  BY <1>1, <1>2, <1>3, <1>4, <1>5, <1>6, <1>7, <1>8 DEF ServiceNext

(* Every verdict of every report says what happened to the unit between    *)
(* the two queries, through reused process ids, repeated start times,      *)
(* handoffs, lost identifiers and units that vanish.                       *)
THEOREM ServiceVerdictIsTrue == ServiceSpec => []VerdictIsTrue
<1>1. ServiceInv => VerdictIsTrue
  BY DEF ServiceInv
<1> QED
  BY <1>1, ServiceStart, ServiceStep, PTL DEF ServiceSpec

-----------------------------------------------------------------------------
(* The MSS rule.  The steps of Ensure establish their facts one by one,    *)
(* about inventories that are already history when the next step is taken; *)
(* the invariant collects them.  NeverTwice needs more than the order of   *)
(* the steps: nobody else writes the program's rule, so a coordinate that  *)
(* was seen free has no earlier rule of ours when the command runs.        *)

AllRules == TheirRules \cup {OurRule}

MssTypes ==
    /\ Target \in DOMAIN fw => fw[Target] \in Seq(AllRules)
    /\ mpc \in {"idle", "bound", "gated", "planned", "issued", "observed",
                "applied", "valid", "failed", "latched"}
    /\ mtx \in 0..Cardinality(MssTx)
    /\ mpc # "idle" => mtx \in MssTx
    /\ bound.tx = mtx /\ bound = [tx |-> bound.tx, broken |-> bound.broken] /\ bound.broken \in BOOLEAN
    /\ DOMAIN j4 = MssTx
    /\ inserts \in Nat

(* What the steps taken so far have established. *)
Ensured ==
    /\ mpc \in {"bound", "gated", "planned"} => inserts = 0
    /\ mpc \in {"issued", "observed", "applied", "valid"} => inserts = 1
    /\ mpc \in {"gated", "planned", "issued", "observed", "applied", "valid"} =>
          at = MssHere /\ ~bound.broken
    /\ mpc \in {"planned", "issued", "observed", "applied", "valid"} =>
          AtCoordinate(pre) = {} /\ ObserveChainSuitability(pre) = "PROVEN"

(* The second inventory shows the planned rule at the coordinate, alone. *)
Proves(table) ==
    /\ AtCoordinate(table) # {}
    /\ \A r \in AtCoordinate(table) : r.act = "clamp" /\ r.src = SpecSrc /\ r.out = SpecOut

(* A spec that was read off a clamp rule at the coordinate. *)
ReadOff(spec, table) == \E r \in AtCoordinate(table) : r.act = "clamp" /\ spec = ProjectRule(r)

Recorded4 ==
    /\ \A t \in MssTx : t > mtx => j4[t] = NoSpec
    /\ mpc \in {"bound", "gated", "planned", "issued", "observed"} => j4[mtx] = NoSpec
    /\ mpc = "observed" =>
          /\ res.proven => Proves(post) /\ res.spec = Planned
          /\ res.spec # NoSpec => ReadOff(res.spec, post)
    /\ mpc \in {"applied", "valid"} => Proves(post) /\ j4[mtx] = Planned
    /\ mtx > 0 /\ j4[mtx] # NoSpec => ReadOff(j4[mtx], post)

(* The program's rules in the target chain: at most one, none before the   *)
(* command.                                                                *)
Ours == {i \in DOMAIN fw[Target] : fw[Target][i].ours}
AtMostOne ==
    Target \in DOMAIN fw =>
        /\ \A i, j \in Ours : i = j
        /\ mpc = "planned" => Ours = {}

MssInv == MssTypes /\ Ensured /\ Recorded4 /\ AtMostOne

(* What the observation of the coordinate says about the rules there. *)

LEMMA SpecsFinite ==
  ASSUME NEW table, Target \in DOMAIN table => table[Target] \in Seq(AllRules)
  PROVE  IsFiniteSet(SpecsAt(table))
<1>1. CASE Target \notin DOMAIN table
  <2>1. SpecsAt(table) = {}
    BY <1>1 DEF SpecsAt, AtCoordinate, RulesIn
  <2> QED
    BY <2>1, FS_EmptySet
<1>2. CASE Target \in DOMAIN table
  <2> DEFINE s == table[Target]
             I == {i \in 1..Len(s) : s[i].ok /\ s[i].tag = Tag /\ Representable(s[i])}
             g == [i \in I |-> ProjectRule(s[i])]
  <2>1. DOMAIN s = 1..Len(s) /\ Len(s) \in Nat
    BY <1>2
  <2>2. IsFiniteSet(1..Len(s))
    <3>1. 1 \in Int /\ Len(s) \in Int
      BY <2>1
    <3> HIDE DEF s
    <3> QED
      BY <3>1, FS_Interval
  <2>3. IsFiniteSet(I)
    BY <2>2, FS_Subset
  <2>4. SpecsAt(table) = {ProjectRule(s[i]) : i \in I}
    <3>1. RulesIn(table) = {s[i] : i \in 1..Len(s)}
      BY <1>2, <2>1 DEF RulesIn, ToSet
    <3> QED
      BY <3>1 DEF SpecsAt, AtCoordinate
  <2>5. g \in Surjection(I, SpecsAt(table))
    BY <2>4 DEF Surjection
  <2> QED
    BY <2>3, <2>5, FS_Surjection
<1> QED
  BY <1>1, <1>2

LEMMA PresentFacts ==
  ASSUME NEW table, Target \in DOMAIN table => table[Target] \in Seq(AllRules),
         ObserveMSSRule(table) = "PRESENT"
  PROVE  /\ AtCoordinate(table) # {}
         /\ \A r \in AtCoordinate(table) : r.act = "clamp" /\ ProjectRule(r) = ObservedSpec(table)
<1>1. SpecsAt(table) # {} /\ Unrepresentable(table) = {} /\ ~(Cardinality(SpecsAt(table)) > 1)
  BY DEF ObserveMSSRule
<1>2. PICK x : SpecsAt(table) = {x}
  <2>1. IsFiniteSet(SpecsAt(table))
    BY SpecsFinite
  <2>2. Cardinality(SpecsAt(table)) \in Nat /\ Cardinality(SpecsAt(table)) # 0
    BY <1>1, <2>1, FS_EmptySet, FS_CardinalityType
  <2>3. Cardinality(SpecsAt(table)) = 1
    BY <1>1, <2>2
  <2> QED
    BY <2>1, <2>3, FS_Singleton
<1>3. ObservedSpec(table) = x
  BY <1>2 DEF ObservedSpec
<1>4. \A r \in AtCoordinate(table) : Representable(r)
  BY <1>1 DEF Unrepresentable
<1>5. \A r \in AtCoordinate(table) : ProjectRule(r) \in SpecsAt(table)
  BY <1>4 DEF SpecsAt
<1>6. AtCoordinate(table) # {}
  BY <1>1 DEF SpecsAt
<1> QED
  BY <1>2, <1>3, <1>4, <1>5, <1>6 DEF Representable

LEMMA ObservedReadOff ==
  ASSUME NEW table, ObservedSpec(table) # NoSpec
  PROVE  ReadOff(ObservedSpec(table), table)
<1>1. SpecsAt(table) # {} /\ ObservedSpec(table) = CHOOSE s \in SpecsAt(table) : TRUE
  BY DEF ObservedSpec, ObserveMSSRule
<1>2. ObservedSpec(table) \in SpecsAt(table)
  BY <1>1
<1> QED
  BY <1>2 DEF SpecsAt, Representable, ReadOff

LEMMA CreateFacts ==
  ASSUME NEW table, PlanMSSAction(table) = "CREATE_MSS_RULE"
  PROVE  /\ table # Unread /\ AtCoordinate(table) = {}
         /\ ObserveChainSuitability(table) = "PROVEN"
<1>1. ObserveMSSRule(table) \notin {"UNKNOWN", "PRESENT_UNSUPPORTED", "PRESENT"}
      /\ ObserveChainSuitability(table) = "PROVEN"
  BY DEF PlanMSSAction
<1>2. table # Unread /\ SpecsAt(table) = {} /\ Unrepresentable(table) = {}
  BY <1>1 DEF ObserveMSSRule
<1>3. AtCoordinate(table) = {}
  <2> SUFFICES ASSUME NEW r \in AtCoordinate(table) PROVE FALSE
    OBVIOUS
  <2>1. Representable(r)
    BY <1>2 DEF Unrepresentable
  <2> QED
    BY <1>2, <2>1 DEF SpecsAt
<1> QED
  BY <1>1, <1>2, <1>3

LEMMA NoActionFacts ==
  ASSUME NEW table, Target \in DOMAIN table => table[Target] \in Seq(AllRules),
         ObservedSpec(table) = Planned, PlanMSSAction(table) = "NO_ACTION"
  PROVE  Proves(table)
<1>1. ObserveMSSRule(table) = "PRESENT"
  BY DEF PlanMSSAction
<1>2. /\ AtCoordinate(table) # {}
      /\ \A r \in AtCoordinate(table) : r.act = "clamp" /\ ProjectRule(r) = Planned
  BY <1>1, PresentFacts
<1> QED
  BY <1>2 DEF Proves, Planned, ProjectRule, OurRule

(* The program's rule is known by its mark, and stands at its coordinate. *)
LEMMA OursIsOurs == \A r \in AllRules : r.ours => r = OurRule
  BY MssConstants DEF AllRules

LEMMA FreeMeansNone ==
  ASSUME MssTypes, AtCoordinate(fw) = {}, Target \in DOMAIN fw
  PROVE  Ours = {}
<1> SUFFICES ASSUME NEW i \in Ours PROVE FALSE
  OBVIOUS
<1>1. i \in DOMAIN fw[Target] /\ fw[Target][i].ours /\ fw[Target][i] \in AllRules
  BY DEF Ours, MssTypes
<1>2. fw[Target][i] = OurRule
  BY <1>1, OursIsOurs
<1>3. OurRule \in AtCoordinate(fw)
  BY <1>1, <1>2 DEF AtCoordinate, RulesIn, ToSet, OurRule
<1> QED
  BY <1>3

-----------------------------------------------------------------------------
LEMMA MssStart == MssInit => MssInv
<1> SUFFICES ASSUME MssInit PROVE MssInv
  OBVIOUS
<1>1. \A c \in DOMAIN fw : fw[c] \in Seq(TheirRules)
  BY MssConstants DEF MssInit
<1>2. MssTypes
  <2>1. Target \in DOMAIN fw => fw[Target] \in Seq(AllRules)
    BY <1>1 DEF AllRules
  <2> QED
    BY <2>1, MssConstants DEF MssInit, MssTypes
<1>3. AtMostOne
  <2>1. \A i \in DOMAIN fw[Target] : Target \in DOMAIN fw => fw[Target][i] \in TheirRules
    BY <1>1
  <2> QED
    BY <2>1, MssConstants DEF AtMostOne, Ours
<1>4. Ensured /\ Recorded4
  BY DEF MssInit, Ensured, Recorded4
<1> QED
  BY <1>2, <1>3, <1>4 DEF MssInv

(* Steps of others in the table. *)
LEMMA OthersTableStep ==
  ASSUME MssInv, UNCHANGED <<at, mpc, mtx, bound, pre, post, res, j4, inserts>>,
         Target \in DOMAIN fw' => fw'[Target] \in Seq(AllRules),
         AtMostOne'
  PROVE  MssInv'
<1>1. MssTypes'
  BY DEF MssInv, MssTypes
<1>2. Ensured' /\ Recorded4'
  BY DEF MssInv, Ensured, Recorded4
<1> QED
  BY <1>1, <1>2 DEF MssInv

(* Steps of the adapter that leave the table alone. *)
LEMMA AdapterStep ==
  ASSUME MssInv, fw' = fw, mpc' # "planned", MssTypes', Ensured', Recorded4'
  PROVE  MssInv'
<1>1. AtMostOne'
  BY DEF MssInv, AtMostOne, Ours
<1> QED
  BY <1>1 DEF MssInv

LEMMA BeginMssInv == ASSUME MssInv, BeginMss PROVE MssInv'
<1>1. /\ mtx' = mtx + 1 /\ mpc' = "bound" /\ inserts' = 0 /\ fw' = fw /\ j4' = j4
      /\ bound' = [tx |-> mtx + 1, broken |-> FALSE]
      /\ mtx < Cardinality(MssTx)
  BY DEF BeginMss
<1>2. MssTypes'
  BY <1>1, MssConstants DEF MssInv, MssTypes
<1>3. Ensured'
  BY <1>1 DEF Ensured
<1>4. Recorded4'
  <2>1. j4'[mtx'] = NoSpec /\ \A t \in MssTx : t > mtx' => j4'[t] = NoSpec
    BY <1>1, MssConstants DEF MssInv, MssTypes, Recorded4
  <2> QED
    BY <1>1, <2>1 DEF Recorded4
<1> QED
  BY <1>1, <1>2, <1>3, <1>4, AdapterStep

LEMMA RebindInv == ASSUME MssInv, Rebind PROVE MssInv'
<1>1. /\ mpc = "bound" /\ UNCHANGED <<fw, at, mpc, mtx, pre, post, res, j4, inserts>>
      /\ bound' = [bound EXCEPT !.broken = TRUE]
  BY DEF Rebind
<1>2. MssTypes'
  <2>1. bound \in [tx : {mtx}, broken : BOOLEAN]
    BY DEF MssInv, MssTypes
  <2>2. bound' \in [tx : {mtx}, broken : BOOLEAN]
    BY <1>1, <2>1
  <2> QED
    BY <1>1, <2>2 DEF MssInv, MssTypes
<1>3. Ensured' /\ Recorded4'
  BY <1>1 DEF MssInv, Ensured, Recorded4
<1> QED
  BY <1>1, <1>2, <1>3, AdapterStep

(* A step of the adapter that fails keeps what is on record. *)
LEMMA FailStep ==
  ASSUME MssInv, mpc \notin {"idle"}, mpc' \in {"failed", "latched"},
         UNCHANGED <<fw, at, mtx, bound, j4>>, inserts' \in Nat,
         post' = post
  PROVE  MssInv'
<1>1. MssTypes'
  BY DEF MssInv, MssTypes
<1>2. Ensured' /\ Recorded4'
  BY DEF MssInv, Ensured, Recorded4
<1> QED
  BY <1>1, <1>2, AdapterStep

LEMMA HostGateMssInv == ASSUME MssInv, HostGateMss PROVE MssInv'
<1>1. mpc = "bound" /\ UNCHANGED <<fw, at, mtx, bound, pre, post, j4, inserts>>
  BY DEF HostGateMss
<1>2. CASE bound.broken \/ at # MssHere
  <2>1. mpc' = "failed" /\ inserts' \in Nat
    BY <1>1, <1>2 DEF HostGateMss, MssInv, MssTypes
  <2> QED
    BY <1>1, <2>1, FailStep
<1>3. CASE ~(bound.broken \/ at # MssHere)
  <2>1. mpc' = "gated" /\ res' = res
    BY <1>3 DEF HostGateMss
  <2>2. MssTypes'
    BY <1>1, <2>1 DEF MssInv, MssTypes
  <2>3. Ensured' /\ Recorded4'
    BY <1>1, <1>3, <2>1 DEF MssInv, Ensured, Recorded4
  <2> QED
    BY <1>1, <2>1, <2>2, <2>3, AdapterStep
<1> QED
  BY <1>2, <1>3

LEMMA PreObserveInv == ASSUME MssInv, PreObserve PROVE MssInv'
<1>1. mpc = "gated" /\ UNCHANGED <<fw, at, mtx, bound, post, j4, inserts>> /\ pre' \in {fw, Unread}
  BY DEF PreObserve
<1>2. CASE PlanMSSAction(pre') # "CREATE_MSS_RULE"
  <2>1. mpc' = "failed" /\ inserts' \in Nat
    BY <1>1, <1>2 DEF PreObserve, MssInv, MssTypes
  <2> QED
    BY <1>1, <2>1, FailStep
<1>3. CASE PlanMSSAction(pre') = "CREATE_MSS_RULE"
  <2>1. mpc' = "planned" /\ res' = res
    BY <1>3 DEF PreObserve
  <2>2. pre' # Unread /\ AtCoordinate(pre') = {} /\ ObserveChainSuitability(pre') = "PROVEN"
    BY <1>3, CreateFacts
  <2>3. pre' = fw
    BY <1>1, <2>2
  <2>4. MssTypes'
    BY <1>1, <2>1 DEF MssInv, MssTypes
  <2>5. Ensured'
    <3>1. AtCoordinate(pre)' = {} /\ (ObserveChainSuitability(pre) = "PROVEN")'
      BY <2>2
    <3> QED
      BY <1>1, <2>1, <3>1 DEF MssInv, Ensured
  <2>6. Recorded4'
    BY <1>1, <2>1 DEF MssInv, Recorded4
  <2>7. AtMostOne'
    <3>1. Target \in DOMAIN fw => Ours = {}
      BY <2>2, <2>3, FreeMeansNone DEF MssInv
    <3> QED
      BY <1>1, <3>1 DEF AtMostOne, Ours
  <2> QED
    BY <2>4, <2>5, <2>6, <2>7 DEF MssInv
<1> QED
  BY <1>2, <1>3

(* One rule more at the end of the chain. *)
LEMMA AppendTable ==
  ASSUME MssTypes, Target \in DOMAIN fw, NEW r \in AllRules, Append1(r)
  PROVE  /\ Target \in DOMAIN fw' /\ fw'[Target] \in Seq(AllRules)
         /\ ~r.ours => Ours' = Ours
         /\ \A i \in Ours' : i \in Ours \/ i = Len(fw[Target]) + 1
<1>1. fw'[Target] = Append(fw[Target], r) /\ DOMAIN fw' = DOMAIN fw
  BY DEF Append1
<1>2. fw[Target] \in Seq(AllRules)
  BY DEF MssTypes
<1>3. /\ fw'[Target] \in Seq(AllRules)
      /\ DOMAIN fw'[Target] = 1..(Len(fw[Target]) + 1)
      /\ DOMAIN fw[Target] = 1..Len(fw[Target]) /\ Len(fw[Target]) \in Nat
      /\ \A i \in 1..Len(fw[Target]) : fw'[Target][i] = fw[Target][i]
      /\ fw'[Target][Len(fw[Target]) + 1] = r
  BY <1>1, <1>2
<1>4. \A i \in Ours' : i \in Ours \/ (i = Len(fw[Target]) + 1 /\ r.ours)
  BY <1>3 DEF Ours
<1>5. \A i \in Ours : i \in Ours'
  BY <1>3 DEF Ours
<1> QED
  BY <1>1, <1>3, <1>4, <1>5

LEMMA InsertCommandInv == ASSUME MssInv, InsertCommand PROVE MssInv'
<1>1. /\ mpc = "planned" /\ inserts' = inserts + 1
      /\ UNCHANGED <<at, mtx, bound, pre, post, j4>>
      /\ mpc' \in {"issued", "failed"} /\ (mpc' = "issued" => Target \in DOMAIN fw /\ res' = res)
  BY DEF InsertCommand
<1>2. inserts = 0
  BY <1>1 DEF MssInv, Ensured
<1>3. CASE fw' = fw /\ mpc' = "failed"
  BY <1>1, <1>2, <1>3, FailStep
<1>4. CASE Target \in DOMAIN fw /\ Append1(OurRule)
  <2>1. OurRule \in AllRules
    BY DEF AllRules
  <2>2. /\ Target \in DOMAIN fw' /\ fw'[Target] \in Seq(AllRules)
        /\ \A i \in Ours' : i \in Ours \/ i = Len(fw[Target]) + 1
    BY <1>4, <2>1, AppendTable DEF MssInv
  <2>3. AtMostOne'
    BY <1>1, <1>4, <2>2 DEF MssInv, AtMostOne
  <2>4. MssTypes'
    BY <1>1, <1>2, <2>2 DEF MssInv, MssTypes
  <2>5. Ensured' /\ Recorded4'
    BY <1>1, <1>2 DEF MssInv, Ensured, Recorded4
  <2> QED
    BY <2>3, <2>4, <2>5 DEF MssInv
<1> QED
  BY <1>3, <1>4 DEF InsertCommand

LEMMA PostObserveInv == ASSUME MssInv, PostObserve PROVE MssInv'
<1>1. /\ mpc = "issued" /\ mpc' = "observed" /\ post' \in {fw, Unread}
      /\ UNCHANGED <<fw, at, mtx, bound, pre, j4, inserts>>
  BY DEF PostObserve
<1>2. MssTypes'
  BY <1>1 DEF MssInv, MssTypes
<1>3. Ensured'
  BY <1>1 DEF MssInv, Ensured
<1>4. /\ res'.proven => Proves(post')
      /\ res'.proven => res'.spec = Planned
      /\ res'.spec # NoSpec => ReadOff(res'.spec, post')
  <2>1. CASE ObservedSpec(post') = Planned /\ PlanMSSAction(post') = "NO_ACTION"
    <3>1. post' = fw
      <4>1. ObserveMSSRule(post') = "PRESENT"
        BY <2>1 DEF PlanMSSAction
      <4> QED
        BY <1>1, <4>1 DEF ObserveMSSRule
    <3>2. Proves(post')
      BY <2>1, <3>1, NoActionFacts DEF MssInv, MssTypes
    <3>3. res'.spec = Planned
      BY <2>1 DEF PostObserve
    <3>4. res'.spec # NoSpec => ReadOff(res'.spec, post')
      BY <2>1, <3>3, ObservedReadOff
    <3> QED
      BY <3>2, <3>3, <3>4
  <2>2. CASE ~(ObservedSpec(post') = Planned /\ PlanMSSAction(post') = "NO_ACTION")
    <3>1. res' = [proven |-> FALSE, stage |-> "POST_OBSERVATION", spec |-> ObservedSpec(post')]
      BY <2>2 DEF PostObserve, Refuse
    <3> QED
      BY <3>1, ObservedReadOff
  <2> QED
    BY <2>1, <2>2
<1>5. Recorded4'
  <2>1. (res.proven => Proves(post) /\ res.spec = Planned)' /\ (res.spec # NoSpec => ReadOff(res.spec, post))'
    BY <1>4
  <2>2. j4'[mtx'] = NoSpec /\ \A t \in MssTx : t > mtx' => j4'[t] = NoSpec
    BY <1>1 DEF MssInv, Recorded4
  <2> QED
    BY <1>1, <2>1, <2>2 DEF Recorded4
<1> QED
  BY <1>1, <1>2, <1>3, <1>5, AdapterStep

LEMMA RecordJ4Inv == ASSUME MssInv, RecordJ4 PROVE MssInv'
<1>1. mpc = "observed" /\ UNCHANGED <<fw, at, mtx, bound, pre, post, res, inserts>>
  BY DEF RecordJ4
<1>2. CASE mpc' = "failed" /\ j4' = j4
  BY <1>1, <1>2, FailStep DEF MssInv, MssTypes
<1>3. CASE /\ res.spec # NoSpec /\ j4' = [j4 EXCEPT ![bound.tx] = res.spec]
           /\ mpc' = IF res.proven THEN "applied" ELSE "failed"
  <2>1. mtx \in MssTx /\ bound.tx = mtx /\ DOMAIN j4 = MssTx /\ mtx \in Nat
    BY <1>1, MssConstants DEF MssInv, MssTypes
  <2>2. DOMAIN j4' = MssTx /\ j4'[mtx] = res.spec /\ \A t \in MssTx : t # mtx => j4'[t] = j4[t]
    BY <1>3, <2>1
  <2>3. MssTypes'
    BY <1>1, <1>3, <2>2 DEF MssInv, MssTypes
  <2>4. Ensured'
    BY <1>1, <1>3 DEF MssInv, Ensured
  <2>5. Recorded4'
    <3>1. \A t \in MssTx : t > mtx => j4'[t] = NoSpec
      BY <2>1, <2>2, MssConstants DEF MssInv, Recorded4
    <3>2. /\ res.proven => Proves(post) /\ res.spec = Planned
          /\ ReadOff(res.spec, post)
      BY <1>1, <1>3 DEF MssInv, Recorded4
    <3>3. ReadOff(j4'[mtx], post) /\ (mpc' = "applied" => Proves(post) /\ j4'[mtx] = Planned)
      BY <1>3, <2>2, <3>2
    <3>4. mpc' \in {"applied", "failed"}
      BY <1>3
    <3> QED
      BY <1>1, <3>1, <3>3, <3>4 DEF Recorded4, ReadOff, Proves
  <2> QED
    BY <1>1, <1>3, <2>3, <2>4, <2>5, AdapterStep
<1> QED
  BY <1>2, <1>3 DEF RecordJ4

LEMMA ValidateMssInv == ASSUME MssInv, ValidateMss PROVE MssInv'
<1>1. /\ mpc = "applied" /\ mpc' \in {"valid", "failed"}
      /\ UNCHANGED <<fw, at, mtx, bound, pre, post, res, j4, inserts>>
  BY DEF ValidateMss
<1>2. MssTypes'
  BY <1>1 DEF MssInv, MssTypes
<1>3. Ensured' /\ Recorded4'
  BY <1>1 DEF MssInv, Ensured, Recorded4, Proves, ReadOff
<1> QED
  BY <1>1, <1>2, <1>3, AdapterStep

LEMMA RollbackMssInv == ASSUME MssInv, RollbackMss PROVE MssInv'
  BY FailStep DEF RollbackMss, MssInv, MssTypes

LEMMA OthersReplaceInv == ASSUME MssInv, OthersReplace PROVE MssInv'
<1>1. \A c \in DOMAIN fw' : fw'[c] \in Seq(TheirRules)
  BY MssConstants DEF OthersReplace
<1>2. Target \in DOMAIN fw' => fw'[Target] \in Seq(AllRules)
  BY <1>1 DEF AllRules
<1>3. Target \in DOMAIN fw' => Ours' = {}
  BY <1>1, MssConstants DEF Ours
<1>4. AtMostOne'
  BY <1>3 DEF AtMostOne
<1> QED
  BY <1>2, <1>4, OthersTableStep DEF OthersReplace

LEMMA OthersAppendInv == ASSUME MssInv, OthersAppend PROVE MssInv'
<1>1. PICK r \in OtherRules : Append1(r)
  BY DEF OthersAppend
<1>2. r \in AllRules /\ ~r.ours /\ Target \in DOMAIN fw
  BY MssConstants DEF AllRules, TheirRules, OthersAppend
<1>3. fw'[Target] \in Seq(AllRules) /\ Ours' = Ours
  BY <1>1, <1>2, AppendTable DEF MssInv
<1>4. AtMostOne'
  BY <1>2, <1>3 DEF MssInv, AtMostOne, OthersAppend
<1> QED
  BY <1>3, <1>4, OthersTableStep DEF OthersAppend

LEMMA OthersDeleteInv == ASSUME MssInv, OthersDelete PROVE MssInv'
<1>1. PICK i \in DOMAIN fw[Target] : fw' = [fw EXCEPT ![Target] = RemoveAt(@, i)]
  BY DEF OthersDelete
<1> DEFINE s == fw[Target]
           u == fw'[Target]
<1>2. Target \in DOMAIN fw /\ s \in Seq(AllRules) /\ i \in 1..Len(s) /\ Len(s) \in Nat
  BY DEF OthersDelete, MssInv, MssTypes
<1>3. u = SubSeq(s, 1, i - 1) \o SubSeq(s, i + 1, Len(s)) /\ Target \in DOMAIN fw'
  BY <1>1, <1>2 DEF RemoveAt
<1>4. /\ u \in Seq(AllRules) /\ DOMAIN u = 1..(Len(s) - 1)
      /\ \A k \in 1..(Len(s) - 1) : u[k] = IF k < i THEN s[k] ELSE s[k + 1]
  <2> HIDE DEF s, u
  <2> DEFINE a == SubSeq(s, 1, i - 1)
             b == SubSeq(s, i + 1, Len(s))
  <2>1. a \in Seq(AllRules) /\ Len(a) = i - 1 /\ \A k \in 1..(i - 1) : a[k] = s[k]
    BY <1>2
  <2>2. b \in Seq(AllRules) /\ Len(b) = Len(s) - i /\ \A k \in 1..(Len(s) - i) : b[k] = s[i + k]
    BY <1>2
  <2>3. u = a \o b
    BY <1>3
  <2> HIDE DEF a, b
  <2>4. u \in Seq(AllRules) /\ Len(u) = Len(s) - 1 /\ DOMAIN u = 1..(Len(s) - 1)
    BY <1>2, <2>1, <2>2, <2>3
  <2>5. ASSUME NEW k \in 1..(Len(s) - 1) PROVE u[k] = IF k < i THEN s[k] ELSE s[k + 1]
    <3>1. k \in Int /\ i \in Int /\ 1 <= k /\ k <= Len(s) - 1 /\ Len(a) = i - 1
      BY <1>2, <2>1
    <3>2. CASE k < i
      <4>1. k \in 1..Len(a) /\ k \in 1..(i - 1)
        BY <3>1, <3>2
      <4>2. (a \o b)[k] = a[k]
        BY <2>1, <2>2, <4>1
      <4> QED
        BY <2>1, <2>3, <3>2, <4>1, <4>2
    <3>3. CASE ~(k < i)
      <4>1. k - Len(a) \in 1..(Len(s) - i) /\ i + (k - Len(a)) = k + 1
        BY <1>2, <3>1, <3>3
      <4>2. (a \o b)[k] = b[k - Len(a)]
        BY <1>2, <2>1, <2>2, <3>1, <3>3
      <4>3. b[k - Len(a)] = s[k + 1]
        BY <2>2, <4>1
      <4> QED
        BY <2>3, <3>3, <4>2, <4>3
    <3> QED
      BY <3>2, <3>3
  <2> QED
    BY <2>4, <2>5
<1>5. DOMAIN s = 1..Len(s)
  BY <1>2
<1>6. ASSUME NEW k \in Ours' PROVE (k < i /\ k \in Ours) \/ (k >= i /\ k + 1 \in Ours)
  BY <1>2, <1>4, <1>5, <1>6 DEF Ours
<1>7. \A k \in Ours' : k \in Int
  BY <1>4 DEF Ours
<1>8. AtMostOne'
  <2>1. \A k, l \in Ours' : k = l
    BY <1>2, <1>6, <1>7 DEF MssInv, AtMostOne
  <2>2. mpc' = "planned" => Ours' = {}
    BY <1>2, <1>6 DEF MssInv, AtMostOne, OthersDelete
  <2> QED
    BY <2>1, <2>2 DEF AtMostOne
<1> QED
  BY <1>4, <1>8, OthersTableStep DEF OthersDelete

LEMMA OtherMachineInv == ASSUME MssInv, OtherMachine PROVE MssInv'
<1>1. mpc \in {"idle", "bound"} /\ UNCHANGED <<fw, mpc, mtx, bound, pre, post, res, j4, inserts>>
  BY DEF OtherMachine
<1>2. MssTypes'
  BY <1>1 DEF MssInv, MssTypes
<1>3. Ensured' /\ Recorded4'
  BY <1>1 DEF MssInv, Ensured, Recorded4
<1> QED
  BY <1>1, <1>2, <1>3, AdapterStep

LEMMA MssStep == MssInv /\ [MssNext]_mssVars => MssInv'
<1> SUFFICES ASSUME MssInv, [MssNext]_mssVars PROVE MssInv'
  OBVIOUS
<1>1. CASE UNCHANGED mssVars
  <2>1. AtMostOne'
    BY <1>1 DEF mssVars, MssInv, AtMostOne, Ours
  <2> QED
    BY <1>1, <2>1, OthersTableStep DEF mssVars, MssInv, MssTypes
<1> QED
  BY <1>1, BeginMssInv, RebindInv, HostGateMssInv, PreObserveInv, InsertCommandInv,
     PostObserveInv, RecordJ4Inv, ValidateMssInv, RollbackMssInv,
     OthersReplaceInv, OthersAppendInv, OthersDeleteInv, OtherMachineInv DEF MssNext

(* A validated transaction created the rule, with one command, at a free   *)
(* coordinate of the approved machine, and the journal records what was    *)
(* observed: for any tables and any rules others put there at any moment.  *)
THEOREM MssEnsureIsHonest == MssSpec => []EnsureIsHonest
<1>1. MssInv => EnsureIsHonest
  BY DEF MssInv, Ensured, Recorded4, Proves, ReadOff, EnsureIsHonest
<1> QED
  BY <1>1, MssStart, MssStep, PTL DEF MssSpec

(* The program never inserts its rule twice, through any number of failed  *)
(* commands, lost proofs and repeated runs.                                *)
THEOREM MssNeverTwice == MssSpec => []NeverTwice
<1>1. ASSUME MssInv, Target \in DOMAIN fw PROVE Cardinality(Ours) <= 1
  <2>1. CASE Ours = {}
    BY <2>1, FS_EmptySet
  <2>2. CASE Ours # {}
    <3>1. PICK i : Ours = {i}
      BY <1>1, <2>2 DEF MssInv, AtMostOne
    <3>2. Cardinality({i}) = 1
      BY FS_Singleton
    <3> QED
      BY <3>1, <3>2
  <2> QED
    BY <2>1, <2>2
<1>2. MssInv => NeverTwice
  BY <1>1 DEF NeverTwice, Ours
<1> QED
  BY <1>2, MssStart, MssStep, PTL DEF MssSpec

-----------------------------------------------------------------------------
(* The chain analysis against the reference reading.  A packet's way       *)
(* through the table is a recursion over jumps; EnteredWithin is the       *)
(* induction over it, for a set of chains that the jumps do not leave.     *)

(* g[n]: the chains the packet may be in after n jumps. *)
Jumps(g, tab, p, hook) ==
    /\ \A n \in 0..Cardinality(DOMAIN tab) :
          g[n] = IF n = 0 THEN {hook} \cap DOMAIN tab ELSE Further(tab, g[n - 1], p, hook)
    /\ Entered(tab, p, hook) = g[Cardinality(DOMAIN tab)]

(* The recursion of Entered has a solution. *)
LEMMA EnteredRecursion ==
  ASSUME NEW tab, IsFiniteSet(DOMAIN tab), NEW p, NEW hook
  PROVE  \E g : Jumps(g, tab, p, hook)
<1> DEFINE N == Cardinality(DOMAIN tab)
           Rest(C) == Further(tab, C, p, hook)
           Upto(g, m) == g = [n \in 0..m |-> IF n = 0 THEN {hook} \cap DOMAIN tab ELSE Rest(g[n - 1])]
           Bad == {m \in Nat : \A g : ~Upto(g, m)}
<1>1. N \in Nat
  BY FS_CardinalityType
<1>2. Bad = {}
  <2> SUFFICES ASSUME Bad # {} PROVE FALSE
    OBVIOUS
  <2>1. PICK m \in Bad : \A k \in Bad : m <= k
    <3>1. Bad \subseteq Nat
      OBVIOUS
    <3> HIDE DEF Bad
    <3> QED
      BY <3>1, LeastNatural
  <2>2. m # 0
    <3>1. Upto([n \in 0..0 |-> {hook} \cap DOMAIN tab], 0)
      OBVIOUS
    <3> HIDE DEF Upto
    <3> QED
      BY <2>1, <3>1
  <2>3. m \in Nat /\ m - 1 \in Nat /\ m - 1 \notin Bad
    <3>1. m \in Nat
      BY <2>1
    <3> HIDE DEF Bad
    <3> QED
      BY <2>1, <2>2, <3>1
  <2>4. PICK g : Upto(g, m - 1)
    <3> HIDE DEF Upto
    <3> QED
      BY <2>3
  <2> DEFINE h == [n \in 0..m |-> IF n = m THEN Rest(g[m - 1]) ELSE g[n]]
  <2> HIDE DEF Rest
  <2>5. ASSUME NEW n \in 0..m PROVE h[n] = IF n = 0 THEN {hook} \cap DOMAIN tab ELSE Rest(h[n - 1])
    <3>1. CASE n = m
      BY <2>2, <2>3, <3>1
    <3>2. CASE n # m
      <4>1. n \in 0..(m - 1) /\ h[n] = g[n] /\ (n # 0 => n - 1 \in 0..m /\ n - 1 # m)
        BY <2>3, <3>2
      <4>2. g[n] = IF n = 0 THEN {hook} \cap DOMAIN tab ELSE Rest(g[n - 1])
        BY <2>4, <4>1
      <4> QED
        BY <4>1, <4>2
    <3> QED
      BY <3>1, <3>2
  <2>6. Upto(h, m)
    BY <2>5
  <2> HIDE DEF Upto
  <2> QED
    BY <2>1, <2>6
<1>3. PICK g : Upto(g, N)
  <2> HIDE DEF Upto
  <2> QED
    BY <1>1, <1>2
<1> DEFINE f == CHOOSE g0 : Upto(g0, N)
<1>4. Upto(f, N)
  <2> HIDE DEF Upto
  <2> QED
    BY <1>3
<1>5. Entered(tab, p, hook) = f[N]
  BY DEF Entered
<1>6. \A n \in 0..N : f[n] = IF n = 0 THEN {hook} \cap DOMAIN tab ELSE Rest(f[n - 1])
  <2> HIDE DEF Rest, f
  <2> QED
    BY <1>4
<1> HIDE DEF f
<1>7. Jumps(f, tab, p, hook)
  BY <1>5, <1>6 DEF Jumps
<1> QED
  BY <1>7

(* What holds of the hook and is kept by every jump holds of every chain   *)
(* the packet enters.                                                      *)
LEMMA EnteredWithin ==
  ASSUME NEW tab, IsFiniteSet(DOMAIN tab), NEW p, NEW hook, NEW C, {hook} \cap DOMAIN tab \subseteq C,
         \A e \in Leaving(tab, C, p, hook) : tab[e[1]][e[2]].to \in C
  PROVE  Entered(tab, p, hook) \subseteq C
<1>0. PICK g : Jumps(g, tab, p, hook)
  BY EnteredRecursion
<1> DEFINE N == Cardinality(DOMAIN tab)
<1>1. N \in Nat
  BY FS_CardinalityType
<1>2. /\ \A n \in 0..N : g[n] = IF n = 0 THEN {hook} \cap DOMAIN tab ELSE Further(tab, g[n - 1], p, hook)
      /\ Entered(tab, p, hook) = g[N]
  BY <1>0 DEF Jumps
<1> HIDE DEF N
<1> DEFINE Bad == {n \in 0..N : ~(g[n] \subseteq C)}
<1>3. Bad = {}
  <2> SUFFICES ASSUME Bad # {} PROVE FALSE
    OBVIOUS
  <2>1. PICK m \in Bad : \A k \in Bad : m <= k
    <3>1. Bad \subseteq Nat
      BY <1>1
    <3> HIDE DEF Bad
    <3> QED
      BY <3>1, LeastNatural
  <2>2. m \in 0..N /\ ~(g[m] \subseteq C)
    BY <2>1
  <2>3. m # 0
    BY <1>1, <1>2, <2>2
  <2>4. m - 1 \in 0..N /\ m - 1 \notin Bad
    <3>1. m - 1 \in 0..N /\ ~(m <= m - 1)
      BY <1>1, <2>2, <2>3
    <3> HIDE DEF Bad
    <3> QED
      BY <2>1, <3>1
  <2>5. g[m - 1] \subseteq C
    BY <2>4
  <2>6. Leaving(tab, g[m - 1], p, hook) \subseteq Leaving(tab, C, p, hook)
    BY <2>5 DEF Leaving
  <2>7. g[m] = Further(tab, g[m - 1], p, hook)
    BY <1>2, <2>2, <2>3
  <2> QED
    BY <2>2, <2>5, <2>6, <2>7 DEF Further
<1> QED
  BY <1>1, <1>2, <1>3

(* A table as netfilter holds it. *)
Table(tab) ==
    /\ IsFiniteSet(DOMAIN tab)
    /\ \A c \in DOMAIN tab : tab[c] \in Seq(AllRules)

LEMMA LeavingFacts ==
  ASSUME NEW tab, NEW C, NEW p, NEW hook, NEW e \in Leaving(tab, C, p, hook)
  PROVE  LET r == tab[e[1]][e[2]] IN
         /\ e[1] \in C /\ e[2] \in DOMAIN tab[e[1]] /\ e = <<e[1], e[2]>>
         /\ r.act \in {"jump", "goto"} /\ r.to \in DOMAIN tab /\ Matches(r, p, hook)
  BY DEF Leaving

(* Netfilter accepts no jump to a built-in chain, and a supported jump to  *)
(* the project's chain is an attachment of it.                             *)
LEMMA JumpFacts ==
  ASSUME NEW tab, Table(tab), NEW C, C \subseteq DOMAIN tab, NEW p, NEW hook, NEW e \in Leaving(tab, C, p, hook)
  PROVE  /\ tab[e[1]][e[2]].to \notin BuiltIn
         /\ tab[e[1]][e[2]].ok /\ tab[e[1]][e[2]].to = Target => e \in Attachments(tab)
<1> DEFINE r == tab[e[1]][e[2]]
<1>1. /\ e[1] \in C /\ e[2] \in DOMAIN tab[e[1]] /\ e = <<e[1], e[2]>> /\ r.act \in {"jump", "goto"}
  BY LeavingFacts
<1>2. r \in AllRules
  BY <1>1 DEF Table
<1> HIDE DEF r
<1>3. r.to \notin BuiltIn
  <2>1. CASE r \in TheirRules
    <3>1. \A q \in TheirRules : q.act \in {"jump", "goto"} => q.to \notin BuiltIn
      BY MssConstants
    <3> QED
      BY <1>1, <2>1, <3>1
  <2>2. CASE r = OurRule
    <3>1. OurRule.act = "clamp"
      BY DEF OurRule
    <3> QED
      BY <1>1, <2>2, <3>1
  <2> QED
    BY <1>2, <2>1, <2>2 DEF AllRules
<1>4. e \in UNION {{c} \X DOMAIN tab[c] : c \in DOMAIN tab}
  <2>1. e \in {e[1]} \X DOMAIN tab[e[1]]
    BY <1>1
  <2> QED
    BY <1>1, <2>1
<1> QED
  BY <1>1, <1>3, <1>4 DEF Attachments, r

LEMMA FiniteImage ==
  ASSUME NEW S, IsFiniteSet(S), NEW g
  PROVE  IsFiniteSet({g[x] : x \in S})
<1> DEFINE T == {g[x] : x \in S}
           k == [x \in S |-> g[x]]
<1>1. k \in Surjection(S, T)
  BY DEF Surjection
<1> HIDE DEF T, k
<1>2. IsFiniteSet(T)
  BY <1>1, FS_Surjection
<1> QED
  BY <1>2 DEF T

LEMMA AttachmentsFinite ==
  ASSUME NEW tab, Table(tab)
  PROVE  IsFiniteSet(Attachments(tab))
<1> DEFINE g == [c \in DOMAIN tab |-> {c} \X DOMAIN tab[c]]
           P == {g[c] : c \in DOMAIN tab}
<1>1. IsFiniteSet(P)
  <2>1. IsFiniteSet(DOMAIN tab)
    BY DEF Table
  <2> HIDE DEF g
  <2> QED
    BY <2>1, FiniteImage
<1>2. ASSUME NEW c \in DOMAIN tab PROVE IsFiniteSet(g[c])
  <2>1. tab[c] \in Seq(AllRules)
    BY DEF Table
  <2>2. DOMAIN tab[c] = 1..Len(tab[c]) /\ Len(tab[c]) \in Nat
    BY <2>1
  <2>3. IsFiniteSet(1..Len(tab[c]))
    BY <2>2, FS_Interval
  <2>4. IsFiniteSet({c})
    BY FS_Singleton
  <2>5. IsFiniteSet({c} \X DOMAIN tab[c])
    BY <2>2, <2>3, <2>4, FS_Product
  <2> QED
    BY <2>5
<1>3. \A T \in P : IsFiniteSet(T)
  BY <1>2
<1>4. IsFiniteSet(UNION P)
  <2> HIDE DEF P
  <2> QED
    BY <1>1, <1>3, FS_UNION
<1>5. UNION {{c} \X DOMAIN tab[c] : c \in DOMAIN tab} = UNION P
  OBVIOUS
<1>6. Attachments(tab) \subseteq UNION P
  BY <1>5 DEF Attachments
<1> QED
  BY <1>4, <1>6, FS_Subset

(* A rule whose matches exclude those of the desired rule takes no packet  *)
(* the desired rule is for, and one that covers them takes all of them.    *)
LEMMA DisjointIsDisjoint ==
  ASSUME NEW r, MatchDisjoint(r), r.out \notin DOMAIN Wildcards, NEW p \in SpecPackets, NEW hook
  PROVE  ~Matches(r, p, hook)
  BY DEF MatchDisjoint, SpecPackets, Packets, Matches, Carries

LEMMA CoversCovers ==
  ASSUME NEW r, MatchCovers(r) = "yes", r.port = Free, NEW p \in SpecPackets,
         NEW hook, hook \notin {"PREROUTING", "INPUT"}
  PROVE  Matches(r, p, hook)
  BY MssConstants DEF MatchCovers, SpecPackets, Packets, Matches, Carries

(* UNSUITABLE says one of three things. *)
LEMMA UnsuitableFacts ==
  ASSUME NEW tab, Table(tab), ObserveChainSuitability(tab) = "UNSUITABLE"
  PROVE  /\ Target \in DOMAIN tab
         /\ \/ Shadowed(tab)
            \/ Attachments(tab) = {}
            \/ \E a : /\ Attachments(tab) = {a} /\ a[1] \in BuiltIn
                      /\ a[1] \in {"PREROUTING", "INPUT"} \/ MatchDisjoint(tab[a[1]][a[2]])
<1>1. /\ Target \in DOMAIN tab
      /\ \/ Shadowed(tab)
         \/ Attachments(tab) = {}
         \/ /\ Attachments(tab) # {} /\ ~(Cardinality(Attachments(tab)) > 1)
            /\ LET a == CHOOSE a \in Attachments(tab) : TRUE IN AssessAttachment(tab, a[1], a[2]) = "UNSUITABLE"
  BY MssConstants DEF ObserveChainSuitability
<1>2. CASE Attachments(tab) # {} /\ ~(Cardinality(Attachments(tab)) > 1)
  <2>1. IsFiniteSet(Attachments(tab))
    BY AttachmentsFinite
  <2>2. Cardinality(Attachments(tab)) \in Nat /\ Cardinality(Attachments(tab)) # 0
    BY <1>2, <2>1, FS_EmptySet, FS_CardinalityType
  <2>3. PICK a : Attachments(tab) = {a}
    BY <1>2, <2>1, <2>2, FS_Singleton
  <2>4. (CHOOSE b \in Attachments(tab) : TRUE) = a
    BY <2>3
  <2>5. Shadowed(tab) \/ AssessAttachment(tab, a[1], a[2]) = "UNSUITABLE"
    BY <1>1, <1>2, <2>4
  <2> QED
    BY <1>1, <2>3, <2>5 DEF AssessAttachment
<1> QED
  BY <1>1, <1>2

(* A table whose chain is called UNSUITABLE brings no packet of the rule   *)
(* to the end of the chain.                                                *)
LEMMA UnsuitableTableIsDead ==
  ASSUME NEW tab, Table(tab), ObserveChainSuitability(tab) = "UNSUITABLE",
         Comparable(tab), \A e \in Attachments(tab) : tab[e[1]][e[2]].out \notin DOMAIN Wildcards
  PROVE  Dead(tab)
<1> SUFFICES ASSUME NEW p \in SpecPackets PROVE ~Clampable(tab, p)
  BY DEF Dead
<1>r. \A c \in DOMAIN tab : \A i \in DOMAIN tab[c] : tab[c][i].ok /\ tab[c][i].port = Free
  BY DEF Comparable
<1> SUFFICES ASSUME NEW hook \in BuiltIn, Target \in Entered(tab, p, hook),
                    Gets(tab, Target, Len(tab[Target]) + 1, p, hook), Matches(OurRule, p, hook)
             PROVE  FALSE
  BY DEF Clampable
<1>1. hook \notin {"PREROUTING", "INPUT"} /\ hook # Target
  BY MssConstants DEF Matches, OurRule
<1>2. Target \in DOMAIN tab /\ tab[Target] \in Seq(AllRules) /\ IsFiniteSet(DOMAIN tab)
  BY UnsuitableFacts DEF Table
<1>3. ASSUME NEW D, Target \in D, hook \notin D,
             \A e \in Leaving(tab, DOMAIN tab \ D, p, hook) : tab[e[1]][e[2]].to \notin D
      PROVE  FALSE
  <2> DEFINE C == DOMAIN tab \ D
  <2>1. \A e \in Leaving(tab, C, p, hook) : tab[e[1]][e[2]].to \in C
    BY <1>3, LeavingFacts
  <2>2. {hook} \cap DOMAIN tab \subseteq C
    BY <1>3
  <2>3. Target \notin C
    BY <1>3
  <2> HIDE DEF C
  <2> QED
    BY <1>2, <2>1, <2>2, <2>3, EnteredWithin
<1>4. \A D : \A e \in Leaving(tab, DOMAIN tab \ D, p, hook) :
          /\ e[1] \notin D /\ Matches(tab[e[1]][e[2]], p, hook) /\ tab[e[1]][e[2]].to \notin BuiltIn
          /\ tab[e[1]][e[2]].to = Target => e \in Attachments(tab)
  <2> SUFFICES ASSUME NEW D, NEW e \in Leaving(tab, DOMAIN tab \ D, p, hook)
               PROVE  /\ e[1] \notin D /\ Matches(tab[e[1]][e[2]], p, hook) /\ tab[e[1]][e[2]].to \notin BuiltIn
                      /\ tab[e[1]][e[2]].to = Target => e \in Attachments(tab)
    OBVIOUS
  <2> DEFINE C == DOMAIN tab \ D
  <2>1. e \in Leaving(tab, C, p, hook) /\ C \subseteq DOMAIN tab /\ (e[1] \in C => e[1] \notin D)
    OBVIOUS
  <2> HIDE DEF C
  <2>2. e[1] \in C /\ e[2] \in DOMAIN tab[e[1]] /\ Matches(tab[e[1]][e[2]], p, hook)
    BY <2>1, LeavingFacts
  <2>3. tab[e[1]][e[2]].ok
    BY <1>r, <2>1, <2>2
  <2> QED
    BY <2>1, <2>2, <2>3, JumpFacts
<1>5. ~Shadowed(tab)
  <2> SUFFICES ASSUME NEW j \in DOMAIN tab[Target], tab[Target][j].act = "verdict", MatchCovers(tab[Target][j]) = "yes"
               PROVE  FALSE
    BY <1>2 DEF Shadowed, RulesIn, ToSet
  <2>1. j \in 1..(Len(tab[Target]) + 1 - 1)
    BY <1>2
  <2>2. Matches(tab[Target][j], p, hook) /\ tab[Target][j].ok
    BY <1>1, <1>2, <1>r, CoversCovers
  <2> QED
    BY <2>1, <2>2 DEF Gets
<1>6. Attachments(tab) # {}
  BY <1>1, <1>3, <1>4
<1>7. PICK a : /\ Attachments(tab) = {a} /\ a[1] \in BuiltIn
               /\ a[1] \in {"PREROUTING", "INPUT"} \/ MatchDisjoint(tab[a[1]][a[2]])
  BY <1>5, <1>6, UnsuitableFacts
<1>8. CASE MatchDisjoint(tab[a[1]][a[2]])
  <2>1. \A e \in Leaving(tab, DOMAIN tab \ {Target}, p, hook) : tab[e[1]][e[2]].to # Target
    BY <1>4, <1>7, <1>8, DisjointIsDisjoint
  <2> QED
    BY <1>1, <1>3, <2>1
<1>9. CASE a[1] \in {"PREROUTING", "INPUT"}
  <2>1. hook # a[1]
    BY <1>1, <1>9
  <2>2. \A e \in Leaving(tab, DOMAIN tab \ {Target, a[1]}, p, hook) : tab[e[1]][e[2]].to \notin {Target, a[1]}
    BY <1>4, <1>7
  <2> QED
    BY <1>1, <1>3, <2>1, <2>2
<1> QED
  BY <1>7, <1>8, <1>9

TableInv == Table(fw)

LEMMA TableStart == MssInit => TableInv
<1> SUFFICES ASSUME MssInit PROVE Table(fw)
  BY DEF TableInv
<1>1. fw \in Firewalls
  BY DEF MssInit
<1>2. IsFiniteSet(DOMAIN fw) /\ \A c \in DOMAIN fw : fw[c] \in Seq(TheirRules)
  BY <1>1, MssConstants
<1>3. Seq(TheirRules) \subseteq Seq(AllRules)
  BY DEF AllRules
<1> QED
  BY <1>2, <1>3 DEF Table

LEMMA TableStep == TableInv /\ [MssNext]_mssVars => TableInv'
<1> SUFFICES ASSUME Table(fw), [MssNext]_mssVars PROVE Table(fw')
  BY DEF TableInv, Table
<1>1. ASSUME Target \in DOMAIN fw, NEW s \in Seq(AllRules), fw' = [fw EXCEPT ![Target] = s] PROVE Table(fw')
  BY <1>1 DEF Table
<1>2. ASSUME Target \in DOMAIN fw PROVE fw[Target] \in Seq(AllRules)
  BY <1>2 DEF Table
<1>3. ASSUME Target \in DOMAIN fw, NEW r \in AllRules, Append1(r) PROVE Table(fw')
  <2>1. Append(fw[Target], r) \in Seq(AllRules)
    BY <1>2, <1>3
  <2> QED
    BY <1>1, <1>3, <2>1 DEF Append1
<1>4. CASE InsertCommand
  BY <1>3, <1>4 DEF InsertCommand, AllRules
<1>5. CASE OthersAppend
  <2>1. PICK r \in OtherRules : Append1(r)
    BY <1>5 DEF OthersAppend
  <2>2. r \in AllRules
    BY DEF AllRules, TheirRules
  <2> QED
    BY <1>3, <1>5, <2>1, <2>2 DEF OthersAppend
<1>6. CASE OthersDelete
  <2>1. PICK i \in DOMAIN fw[Target] : fw' = [fw EXCEPT ![Target] = RemoveAt(@, i)]
    BY <1>6 DEF OthersDelete
  <2>2. Target \in DOMAIN fw /\ fw[Target] \in Seq(AllRules)
    BY <1>2, <1>6 DEF OthersDelete
  <2>3. RemoveAt(fw[Target], i) \in Seq(AllRules)
    <3> DEFINE s == fw[Target]
    <3>1. s \in Seq(AllRules) /\ i \in 1..Len(s) /\ Len(s) \in Nat
      BY <2>2
    <3> HIDE DEF s
    <3>2. SubSeq(s, 1, i - 1) \in Seq(AllRules) /\ SubSeq(s, i + 1, Len(s)) \in Seq(AllRules)
      BY <3>1
    <3>3. RemoveAt(s, i) \in Seq(AllRules)
      BY <3>2 DEF RemoveAt
    <3> QED
      BY <3>3 DEF s
  <2> QED
    BY <1>1, <2>1, <2>2, <2>3
<1>7. CASE OthersReplace
  <2>1. fw' \in Firewalls
    BY <1>7 DEF OthersReplace
  <2>2. IsFiniteSet(DOMAIN fw') /\ \A c \in DOMAIN fw' : fw'[c] \in Seq(TheirRules)
    BY <2>1, MssConstants
  <2>3. Seq(TheirRules) \subseteq Seq(AllRules)
    BY DEF AllRules
  <2> QED
    BY <2>2, <2>3 DEF Table
<1>8. CASE UNCHANGED fw
  BY <1>8
<1> QED
  BY <1>4, <1>5, <1>6, <1>7, <1>8
     DEF MssNext, mssVars, BeginMss, Rebind, HostGateMss, PreObserve, PostObserve, RecordJ4, ValidateMss,
         RollbackMss, OtherMachine

(* UNSUITABLE is right where the jumps to the chain name their interfaces: *)
(* no packet the desired rule is for would reach a rule appended to the    *)
(* chain, whatever hooks, jumps, verdicts and wildcards the rest of the    *)
(* table has, and however deep its jumps go.                               *)
THEOREM MssUnsuitableIsDead == MssSpec => []UnsuitableIsDead
<1>1. TableInv => UnsuitableIsDead
  BY UnsuitableTableIsDead DEF TableInv, UnsuitableIsDead
<1> QED
  BY <1>1, TableStart, TableStep, PTL DEF MssSpec

-----------------------------------------------------------------------------
(* The AmneziaWG source.  Evidence only accumulates; that a source which   *)
(* is composed twice is the same source follows from there being exactly   *)
(* one verified prefix whenever one is composed.                           *)

AwgTypes == atts \in Seq(Attachings) /\ addrs \in Seq(Addressings) /\ seen4 \in Seq(Sightings)

(* What a discovered source rests on. *)
Grounded ==
    Ready /\ intent.mode # "explicit" =>
        /\ Verified = {Source} /\ Source # Nothing
        /\ \A e, f \in ToSet(atts) \cup ToSet(addrs) \cup ToSet(seen4) :
               Nothing \in {e.snap, f.snap} \/ e.snap = f.snap

LEMMA FiniteSequence ==
  ASSUME NEW A, NEW s \in Seq(A)
  PROVE  IsFiniteSet(DOMAIN s) /\ IsFiniteSet(ToSet(s)) /\ IsFiniteSet(Attested(s))
<1>1. IsFiniteSet(DOMAIN s)
  <2>1. DOMAIN s = 1..Len(s) /\ Len(s) \in Nat
    OBVIOUS
  <2>2. IsFiniteSet(1..Len(s))
    BY <2>1, FS_Interval
  <2> QED
    BY <2>1, <2>2
<1>2. IsFiniteSet(ToSet(s))
  BY <1>1, FiniteImage DEF ToSet
<1> DEFINE g == [i \in DOMAIN s |-> s[i].snap]
           S == {s[i].snap : i \in DOMAIN s}
<1>3. S = {g[i] : i \in DOMAIN s}
  OBVIOUS
<1> HIDE DEF g, S
<1>4. IsFiniteSet(S)
  BY <1>1, <1>3, FiniteImage
<1>5. Attested(s) \in SUBSET S
  BY DEF Attested, S
<1>6. IsFiniteSet(Attested(s))
  BY <1>4, <1>5, FS_Subset
<1> QED
  BY <1>1, <1>2, <1>6

LEMMA AtMostOneElement ==
  ASSUME NEW S, IsFiniteSet(S), ~(Cardinality(S) > 1), NEW x \in S, NEW y \in S
  PROVE  x = y
<1>1. Cardinality(S) \in {0, 1}
  BY FS_CardinalityType
<1>2. S # {} /\ Cardinality(S) # 0
  BY FS_EmptySet
<1>3. \E z : S = {z}
  BY <1>1, <1>2, FS_Singleton
<1> QED
  BY <1>3

LEMMA VerifiedIsFinite == ASSUME AwgTypes PROVE IsFiniteSet(Verified)
<1> DEFINE E == {e \in ToSet(seen4) : e.basis \in {"OBSERVED_TRAFFIC", "OPERATOR_CONFIRMED"} /\ e.complete}
           g == [e \in E |-> e.prefix]
<1>1. IsFiniteSet(ToSet(seen4))
  BY FiniteSequence DEF AwgTypes
<1>2. E \in SUBSET ToSet(seen4)
  OBVIOUS
<1>3. Verified = {g[e] : e \in E}
  BY DEF Verified
<1> HIDE DEF E, g
<1>4. IsFiniteSet(E)
  BY <1>1, <1>2, FS_Subset
<1> QED
  BY <1>3, <1>4, FiniteImage

(* A resolved source passed every gate. *)
LEMMA ResolvedFacts ==
  ASSUME ResolveSourcePrefix = "RESOLVED_EVIDENCE"
  PROVE  ~ProvenanceConflict /\ Verified # {} /\ ~(Cardinality(Verified) > 1)
<1>1. EvaluateCandidate # "RESOLVED_EVIDENCE"
  BY DEF EvaluateCandidate
<1>2. AttachmentGate # "RESOLVED_EVIDENCE"
  BY DEF AttachmentGate, AttachmentFault
<1>3. AddressGate # "RESOLVED_EVIDENCE"
  BY DEF AddressGate
<1>4. PoolGate # "RESOLVED_EVIDENCE"
  BY DEF PoolGate
<1>5. ~ProvenanceConflict /\ HostVisibleGate = "RESOLVED_EVIDENCE"
  BY <1>1, <1>2, <1>3, <1>4 DEF ResolveSourcePrefix
<1> QED
  BY <1>5 DEF HostVisibleGate

LEMMA AwgGrounded == AwgTypes => Grounded
<1> SUFFICES ASSUME AwgTypes, Ready, intent.mode # "explicit"
             PROVE  /\ Verified = {Source} /\ Source # Nothing
                    /\ \A e, f \in ToSet(atts) \cup ToSet(addrs) \cup ToSet(seen4) :
                           Nothing \in {e.snap, f.snap} \/ e.snap = f.snap
  BY DEF Grounded
<1>1. ResolveSourcePrefix = "RESOLVED_EVIDENCE"
  BY DEF Ready, ComposeDesiredMSS, DiscoveredSource
<1>2. ~ProvenanceConflict /\ Verified # {} /\ ~(Cardinality(Verified) > 1)
  BY <1>1, ResolvedFacts
<1>3. Source \in Verified
  BY <1>1, <1>2 DEF Source, HostVisiblePrefix
<1>4. Verified = {Source}
  BY <1>2, <1>3, VerifiedIsFinite, AtMostOneElement
<1>5. Source # Nothing
  <2>1. \A e \in ToSet(seen4) : e \in Sightings
    BY DEF AwgTypes, ToSet
  <2> QED
    BY <1>3, <2>1, AwgConstants DEF Verified
<1> DEFINE A == Attested(atts) \cup Attested(addrs) \cup Attested(seen4)
<1>6. IsFiniteSet(A)
  <2>1. IsFiniteSet(Attested(atts)) /\ IsFiniteSet(Attested(addrs)) /\ IsFiniteSet(Attested(seen4))
    BY FiniteSequence DEF AwgTypes
  <2>2. IsFiniteSet(Attested(atts) \cup Attested(addrs))
    BY <2>1, FS_Union
  <2> QED
    BY <2>1, <2>2, FS_Union
<1>7. ASSUME NEW e \in ToSet(atts) \cup ToSet(addrs) \cup ToSet(seen4), e.snap # Nothing PROVE e.snap \in A
  BY <1>7 DEF Attested, ToSet
<1>8. ~(Cardinality(A) > 1)
  BY <1>2 DEF ProvenanceConflict
<1> HIDE DEF A
<1>9. ASSUME NEW e \in ToSet(atts) \cup ToSet(addrs) \cup ToSet(seen4),
             NEW f \in ToSet(atts) \cup ToSet(addrs) \cup ToSet(seen4)
      PROVE  Nothing \in {e.snap, f.snap} \/ e.snap = f.snap
  BY <1>6, <1>7, <1>8, AtMostOneElement
<1> QED
  BY <1>4, <1>5, <1>9

LEMMA AwgStep == AwgTypes /\ [AwgNext]_awgVars => AwgTypes'
<1> SUFFICES ASSUME AwgTypes, [AwgNext]_awgVars PROVE AwgTypes'
  OBVIOUS
<1>1. CASE Attach
  <2>1. PICK e \in Attachings : atts' = Append(atts, e) /\ addrs' = addrs /\ seen4' = seen4
    BY <1>1 DEF Attach
  <2> QED
    BY <2>1 DEF AwgTypes
<1>2. CASE Address
  <2>1. PICK e \in Addressings : addrs' = Append(addrs, e) /\ atts' = atts /\ seen4' = seen4
    BY <1>2 DEF Address
  <2> QED
    BY <2>1 DEF AwgTypes
<1>3. CASE Sight
  <2>1. PICK e \in Sightings : seen4' = Append(seen4, e) /\ atts' = atts /\ addrs' = addrs
    BY <1>3 DEF Sight
  <2> QED
    BY <2>1 DEF AwgTypes
<1> QED
  BY <1>1, <1>2, <1>3 DEF AwgTypes, AwgNext, awgVars

(* A source is never a guess, and evidence that comes later may take it    *)
(* away but never puts another in its place: for any containers, networks, *)
(* prefixes and intents, and any amount of evidence in any order.          *)
THEOREM AwgSourceIsGrounded == AwgSpec => SourceIsGrounded
<1>1. ASSUME AwgTypes, AwgTypes', Grounded, Grounded', [AwgNext]_awgVars
      PROVE  [ <<atts, addrs, seen4>>' # <<atts, addrs, seen4>> /\ Ready' =>
          /\ IF intent.mode = "explicit" THEN Source' = intent.subnet
             ELSE /\ \A e \in ToSet(seen4') : e.basis \in {"OBSERVED_TRAFFIC", "OPERATOR_CONFIRMED"} /\ e.complete => e.prefix = Source'
                  /\ \A e, f \in ToSet(atts') \cup ToSet(addrs') \cup ToSet(seen4') :
                         Nothing \in {e.snap, f.snap} \/ e.snap = f.snap
                  /\ Source' # Nothing
          /\ Ready => Source' = Source ]_awgVars
  <2> SUFFICES ASSUME AwgNext, Ready'
      PROVE  /\ IF intent.mode = "explicit" THEN Source' = intent.subnet
                ELSE /\ \A e \in ToSet(seen4') : e.basis \in {"OBSERVED_TRAFFIC", "OPERATOR_CONFIRMED"} /\ e.complete => e.prefix = Source'
                     /\ \A e, f \in ToSet(atts') \cup ToSet(addrs') \cup ToSet(seen4') :
                            Nothing \in {e.snap, f.snap} \/ e.snap = f.snap
                     /\ Source' # Nothing
             /\ Ready => Source' = Source
    BY <1>1
  <2>1. intent' = intent
    BY DEF AwgNext, Attach, Address, Sight
  <2>2. CASE intent.mode = "explicit"
    BY <2>1, <2>2 DEF Source
  <2>3. CASE intent.mode # "explicit"
    <3>1. /\ Verified' = {Source'} /\ Source' # Nothing
          /\ \A e, f \in ToSet(atts') \cup ToSet(addrs') \cup ToSet(seen4') :
                 Nothing \in {e.snap, f.snap} \/ e.snap = f.snap
      BY <1>1, <2>1, <2>3 DEF Grounded
    <3>2. \A e \in ToSet(seen4') : e.basis \in {"OBSERVED_TRAFFIC", "OPERATOR_CONFIRMED"} /\ e.complete => e.prefix \in Verified'
      BY DEF Verified
    <3>3. ToSet(seen4) \subseteq ToSet(seen4')
      <4>1. CASE seen4' = seen4
        BY <4>1
      <4>2. CASE \E e \in Sightings : seen4' = Append(seen4, e)
        <5>1. PICK e \in Sightings : seen4' = Append(seen4, e)
          BY <4>2
        <5>2. seen4 \in Seq(Sightings)
          BY <1>1 DEF AwgTypes
        <5>3. \A i \in DOMAIN seen4 : i \in DOMAIN seen4' /\ seen4'[i] = seen4[i]
          BY <5>1, <5>2
        <5> QED
          BY <5>3 DEF ToSet
      <4> QED
        BY <4>1, <4>2 DEF AwgNext, Attach, Address, Sight
    <3>4. Verified \subseteq Verified'
      BY <3>3 DEF Verified
    <3>5. Ready => Verified = {Source}
      BY <1>1, <2>3 DEF Grounded
    <3> QED
      BY <2>3, <3>1, <3>2, <3>4, <3>5
  <2> QED
    BY <2>2, <2>3
<1>2. AwgInit => AwgTypes
  BY DEF AwgInit, AwgTypes
<1> QED
  BY <1>1, <1>2, AwgStep, AwgGrounded, PTL DEF AwgSpec, SourceIsGrounded
=============================================================================
