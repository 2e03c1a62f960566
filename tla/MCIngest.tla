------------------------------ MODULE MCIngest ------------------------------
(***************************************************************************)
(* Ingest for TLC, in slices: which of its actors are there.  Paths and    *)
(* contents may be exchanged for each other, so that the first file has the*)
(* first content and, in the watched folder, the first path (SYMMETRY would*)
(* not be sound with a liveness property).                                 *)
(***************************************************************************)
EXTENDS Ingest

VARIABLE slice

FirstPath == CHOOSE p \in Watched : TRUE
FirstContent == CHOOSE c \in Contents : TRUE
FirstFile(p, f) == f # None => p \in Uploads \cup {FirstPath} /\ f.content = FirstContent

Edits(s) == IF s = "both" THEN 2 ELSE IF s = "watch" THEN MaxEdits ELSE MaxEdits - 1

MCInit ==
    /\ Init
    /\ slice \in {"watch", "restart", "scan", "both", "upload", "delete", "console"}
    /\ up = (slice \in {"watch", "restart", "both"})

MCNext ==
    /\ UNCHANGED slice
    /\ \/ Folder
       \/ slice = "watch" /\ Watching
       \/ slice = "restart" /\ (Watching \/ Restarting)
       \/ slice = "scan" /\ (Scanning \/ Mount)
       \/ slice = "both" /\ (Watching \/ Scanning \/ Working)
       \/ slice = "upload" /\ (Uploading \/ Scanning)
       \/ slice = "delete" /\ (Deleting \/ Scanning)
       \/ slice = "console" /\ (Uploading \/ Deleting \/ Working)
    /\ clock' <= Edits(slice) /\ (slice # "watch" => row'[MaxRows] = None)
    /\ clock = 0 => \A p \in Paths : FirstFile(p, file'[p])

MCSpec ==
    MCInit /\ [][MCNext]_<<vars, slice>> /\ WatcherFair
=============================================================================
