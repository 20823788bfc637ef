------------------------------ MODULE FileStore ------------------------------
(***************************************************************************)
(* What XenovraDrive promises about the files of one storage, without      *)
(* handlers, channel, chunks or messages: a directory maps each path to    *)
(* the file that holds it; a file becomes readable as a whole in one step; *)
(* an upload is confirmed only for a file that was readable; a confirmed   *)
(* file leaves the directory only when a delete names its path; and what a *)
(* download serves was readable as a whole.                                *)
(***************************************************************************)
CONSTANTS
    Files,      \* identities of uploaded files
    Paths,
    Scopes,     \* the sets of paths a delete may name
    None        \* the content of a free path

VARIABLES
    directory,  \* the file at each path
    used,       \* files that ever had a path
    stored,     \* files whose content became readable
    confirmed,  \* files whose upload was answered with success
    served      \* files a download has returned in full

storeVars == <<directory, used, stored, confirmed, served>>

Init ==
    /\ directory = [p \in Paths |-> None]
    /\ used = {}
    /\ stored = {}
    /\ confirmed = {}
    /\ served = {}

\* An upload takes a free path; nothing can be read there yet.
Reserve(f) ==
    /\ f \notin used
    /\ used' = used \cup {f}
    /\ \E p \in Paths : directory[p] = None /\ directory' = [directory EXCEPT ![p] = f]
    /\ UNCHANGED <<stored, confirmed, served>>

\* The whole content appears at once, and only while the file has its path.
Store(f) ==
    /\ f \notin stored
    /\ stored' = stored \cup {f}
    /\ \E p \in Paths : directory[p] = f
    /\ UNCHANGED <<directory, used, confirmed, served>>

\* The client may learn of it late, even after somebody deleted the file.
Confirm(f) ==
    /\ f \in stored \ confirmed
    /\ confirmed' = confirmed \cup {f}
    /\ UNCHANGED <<directory, used, stored, served>>

\* An upload that is not confirmed may give its path back.
Withdraw(p) ==
    /\ directory[p] # None
    /\ directory[p] \notin confirmed
    /\ directory' = [directory EXCEPT ![p] = None]
    /\ UNCHANGED <<used, stored, confirmed, served>>

Delete(S) ==
    /\ directory' = [p \in Paths |-> IF p \in S THEN None ELSE directory[p]]
    /\ UNCHANGED <<used, stored, confirmed, served>>

Serve(f) ==
    /\ f \in stored \ served
    /\ served' = served \cup {f}
    /\ UNCHANGED <<directory, used, stored, confirmed>>

Next ==
    \/ \E f \in Files : Reserve(f) \/ Store(f) \/ Confirm(f) \/ Serve(f)
    \/ \E p \in Paths : Withdraw(p)
    \/ \E S \in Scopes : Delete(S)

Spec == Init /\ [][Next]_storeVars
=============================================================================
