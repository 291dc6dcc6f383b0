----------------------------- MODULE RemoteFile -----------------------------
(***************************************************************************)
(* One path on the remote host and the files it has named.  A put writes   *)
(* a file of its own under a temporary name beside the path and renames it *)
(* into place; a get opens whatever file the path names at that moment and *)
(* keeps it.  This module is the file system under both: what the files    *)
(* hold, which of them the path has named, and what of that is on the disk *)
(* when the power fails.                                                   *)
(***************************************************************************)
EXTENDS Naturals, Sequences, SequencesExt

CONSTANTS
    Putters,     \* the puts to the path, each with a file of its own
    Original,    \* the file the path names at first
    MaxLen       \* no file, and no stream, is longer than this

ASSUME RemoteFileAssumption ==
    /\ Original \notin Putters
    /\ MaxLen \in Nat \ {0}

Files == Putters \cup {Original}

VARIABLES
    data,      \* the content of each file, a sequence of units
    temps,     \* the puts whose .rxd-put file is in the directory
    perms,     \* what of the requested mode and owner each file has got
    history,   \* the files the path has named, the current one last
    flushed,   \* how many of them the directory on the disk knows of
    synced,    \* the files whose content is on the disk
    contents   \* every <<file, content>> a reader of the path could find

fileVars == <<data, temps, perms, history, flushed, synced, contents>>

\* The file the path names now.
Target == Last(history)

\* What is left of a sequence when only its first n elements are kept.
Keep(s, n) == IF n < Len(s) THEN SubSeq(s, 1, n) ELSE s

FileInit ==
    /\ data = [f \in Files |-> IF f = Original THEN [k \in 1 .. MaxLen - 1 |-> 0] ELSE <<>>]
    /\ temps = {}
    /\ perms = [p \in Putters |-> {}]
    /\ history = <<Original>>
    /\ flushed = 1
    /\ synced = {Original}
    /\ contents = {<<Original, data[Original]>>}

-----------------------------------------------------------------------------
(* The system calls of a put *)

\* open(create_new) under a name nobody else has.
CreateTemp(p) ==
    /\ temps' = temps \cup {p}
    /\ UNCHANGED <<data, perms, history, flushed, synced, contents>>

WriteTemp(p, unit) ==
    /\ data' = [data EXCEPT ![p] = Append(@, unit)]
    /\ UNCHANGED <<temps, perms, history, flushed, synced, contents>>

SyncTemp(p) ==
    /\ synced' = synced \cup {p}
    /\ UNCHANGED <<data, temps, perms, history, flushed, contents>>

\* chmod or chown.
Grant(p, right) ==
    /\ perms' = [perms EXCEPT ![p] = @ \cup {right}]
    /\ UNCHANGED <<data, temps, history, flushed, synced, contents>>

RenameTemp(p) ==
    /\ temps' = temps \ {p}
    /\ history' = Append(history, p)
    /\ contents' = contents \cup {<<p, data[p]>>}
    /\ UNCHANGED <<data, perms, flushed, synced>>

RemoveTemp(p) ==
    /\ temps' = temps \ {p}
    /\ UNCHANGED <<data, perms, history, flushed, synced, contents>>

\* fsync of the directory.
SyncDirectory ==
    /\ flushed' = Len(history)
    /\ UNCHANGED <<data, temps, perms, history, synced, contents>>

-----------------------------------------------------------------------------
(* What happens to the files from elsewhere *)

\* The power fails: renames the disk does not know of may be undone, the
\* latest first, and of a file that was not synced any part may be left.
LosePower ==
    \E n \in flushed .. Len(history), kept \in 0 .. MaxLen :
        /\ history' = Keep(history, n)
        /\ flushed' = n
        /\ data' = [f \in Files |-> IF f \in synced THEN data[f] ELSE Keep(data[f], kept)]
        /\ contents' = contents \cup {<<Target', data'[Target']>>}
        /\ UNCHANGED <<temps, perms, synced>>

\* A program on the host changes the original file in place: a log grows, a
\* file is cut, a file is rewritten at the same length.
EditFile(how, version) ==
    LET old == data[Original] IN
    /\ data' = [data EXCEPT ![Original] =
           CASE how = "append"    -> Append(old, version)
             [] how = "truncate"  -> Front(old)
             [] how = "overwrite" -> [k \in DOMAIN old |-> version]]
    /\ contents' = contents \cup {<<Original, data'[Original]>>}
    /\ UNCHANGED <<temps, perms, history, flushed, synced>>

FileTypeOK ==
    /\ data \in [Files -> Seq(Nat)]
    /\ temps \subseteq Putters
    /\ perms \in [Putters -> SUBSET {"mode", "owner"}]
    /\ history \in Seq(Files) \ {<<>>}
    /\ flushed \in 1 .. Len(history)
    /\ synced \subseteq Files
=============================================================================
