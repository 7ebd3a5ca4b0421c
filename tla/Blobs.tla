------------------------------- MODULE Blobs --------------------------------
(***************************************************************************)
(* BlobStore: content-addressed files with rows and references in the      *)
(* state database.  Three things happen at once: scripts upload over RPC,  *)
(* a run's session ends and collects the blobs it noted, and a thread is   *)
(* deleted and everything unreferenced is collected.  File system and      *)
(* database are two stores, so each of these is several steps.             *)
(***************************************************************************)
EXTENDS Naturals, FiniteSets

CONSTANTS
    Content,            \* contents that may be uploaded; a blob is its content
    Uploads,            \* uploads, each by one script
    BlobThreads,        \* threads that runs belong to
    NoThread,           \* the "thread" of a run that has none
    Owner               \* upload -> the thread of its run, or NoThread

VARIABLES
    files,              \* contents whose file exists
    blobs,              \* contents with a row in the table blobs
    refs,               \* rows of blob_refs, pairs of a content and an upload
    upload,             \* upload -> its step: "new", "file", "row", "noted", "checked",
                        \*           "done" (answered) or "failed"
    what,               \* upload -> the content it uploads
    noted,              \* upload's session -> contents to collect when it closes
    open,               \* sessions that are open
    victims,            \* contents the collection that runs has still to remove
    unlinked,           \* the victim whose file is gone and whose row is not, or NoContent
    deleted,            \* threads deleted
    raced               \* contents with an upload under way while a collection had chosen them

blobVars == <<files, blobs, refs, upload, what, noted, open, victims, unlinked, deleted, raced>>

NoContent == "none"

Init ==
    /\ files = {} /\ blobs = {} /\ refs = {}
    /\ upload = [u \in Uploads |-> "new"]
    /\ what \in [Uploads -> Content]
    /\ noted = [u \in Uploads |-> {}]
    /\ open = Uploads
    /\ victims = {} /\ unlinked = NoContent
    /\ deleted = {}
    /\ raced = {}

At(u, stage) == upload[u] = stage
Goes(u, stage) == upload' = [upload EXCEPT ![u] = stage]
Collected == victims \cup {unlinked}

(* An upload that runs while a collection that chose its content does too. *)
Touch(u) == raced' = raced \cup ({what[u]} \cap Collected)

-----------------------------------------------------------------------------
(* put_bytes writes the file unless there is one, then the row unless      *)
(* there is one.                                                           *)
WriteFile(u) ==
    /\ At(u, "new") /\ u \in open
    /\ files' = files \cup {what[u]}
    /\ Goes(u, "file") /\ Touch(u)
    /\ UNCHANGED <<blobs, refs, what, noted, open, victims, unlinked, deleted>>

UpsertRecord(u) ==
    /\ At(u, "file")
    /\ blobs' = blobs \cup {what[u]}
    /\ Goes(u, "row") /\ Touch(u)
    /\ UNCHANGED <<files, refs, what, noted, open, victims, unlinked, deleted>>

(* note_temporary_blob: refused when the session is closed; file and row   *)
(* stay then, with no reference, until a thread is deleted.                *)
NoteTemporary(u) ==
    /\ At(u, "row")
    /\ IF u \in open
       THEN noted' = [noted EXCEPT ![u] = @ \cup {what[u]}]
            /\ Goes(u, IF Owner[u] = NoThread THEN "done" ELSE "noted")
       ELSE UNCHANGED noted /\ Goes(u, "failed")
    /\ Touch(u)
    /\ UNCHANGED <<files, blobs, refs, what, open, victims, unlinked, deleted>>

(* add_ref: look at the row, then insert (a foreign key of blobs).         *)
CheckInfo(u) ==
    /\ At(u, "noted")
    /\ Goes(u, IF what[u] \in blobs THEN "checked" ELSE "failed")
    /\ Touch(u)
    /\ UNCHANGED <<files, blobs, refs, what, noted, open, victims, unlinked, deleted>>

InsertRef(u) ==
    /\ At(u, "checked")
    /\ IF what[u] \in blobs
       THEN refs' = refs \cup {<<what[u], u>>} /\ Goes(u, "done")
       ELSE UNCHANGED refs /\ Goes(u, "failed")
    /\ Touch(u)
    /\ UNCHANGED <<files, blobs, what, noted, open, victims, unlinked, deleted>>

-----------------------------------------------------------------------------
(* gc_unreferenced: choose, then one file and its row after the other.     *)
Unreferenced == {c \in blobs : \A r \in refs : r[1] # c}

UnderWay(c) == \E u \in Uploads : what[u] = c /\ upload[u] \in {"file", "row", "noted", "checked"}

(* One collection at a time (bound); what is chosen while an upload of it  *)
(* is between its steps counts as raced.                                   *)
Choose(S) ==
    /\ Collected = {NoContent}
    /\ victims' = S \cap Unreferenced
    /\ raced' = raced \cup {c \in victims' : UnderWay(c)}

(* RunSession.close collects what the session noted.                       *)
CloseSession(u) ==
    /\ u \in open
    /\ open' = open \ {u}
    /\ noted' = [noted EXCEPT ![u] = {}]
    /\ Choose(noted[u])
    /\ UNCHANGED <<files, blobs, refs, upload, what, unlinked, deleted>>

(* delete_thread: the references of the thread, then everything            *)
(* unreferenced.  A collection may take the blob of a run without thread   *)
(* that is still open.                                                     *)
RefsOf(t) == {r \in refs : Owner[r[2]] = t}

(* Variant: the references of every thread are removed.                    *)
DeleteThreadAll(t) ==
    /\ t \notin deleted
    /\ deleted' = deleted \cup {t}
    /\ refs' = {}
    /\ Collected = {NoContent}
    /\ victims' = blobs
    /\ raced' = raced \cup {c \in victims' : UnderWay(c)}
    /\ UNCHANGED <<files, blobs, upload, what, noted, open, unlinked>>

DeleteThread(t) ==
    /\ t \notin deleted
    /\ deleted' = deleted \cup {t}
    /\ refs' = refs \ RefsOf(t)
    /\ Collected = {NoContent}
    /\ victims' = {c \in blobs : \A r \in refs' : r[1] # c}
    /\ raced' = raced \cup {c \in victims' : UnderWay(c)}
    /\ UNCHANGED <<files, blobs, upload, what, noted, open, unlinked>>

(* A file that cannot be unlinked keeps its row.                           *)
Unlink(c) ==
    /\ unlinked = NoContent /\ c \in victims
    /\ victims' = victims \ {c}
    /\ \/ files' = files \ {c} /\ unlinked' = c
       \/ UNCHANGED <<files, unlinked>>
    /\ UNCHANGED <<blobs, refs, upload, what, noted, open, deleted, raced>>

(* The row, with the references added meanwhile (ON DELETE CASCADE).       *)
DeleteRow ==
    /\ unlinked # NoContent
    /\ blobs' = blobs \ {unlinked}
    /\ refs' = {r \in refs : r[1] # unlinked}
    /\ unlinked' = NoContent
    /\ UNCHANGED <<files, upload, what, noted, open, victims, deleted, raced>>

Next ==
    \/ \E u \in Uploads :
        \/ WriteFile(u) \/ UpsertRecord(u) \/ NoteTemporary(u) \/ CheckInfo(u) \/ InsertRef(u)
        \/ CloseSession(u)
    \/ \E t \in BlobThreads : DeleteThread(t)
    \/ \E c \in Content : Unlink(c)
    \/ DeleteRow

Spec == Init /\ [][Next]_blobVars

-----------------------------------------------------------------------------
Stages == {"new", "file", "row", "noted", "checked", "done", "failed"}
Between == {"file", "row", "noted", "checked"}

TypeOK ==
    /\ upload \in [Uploads -> Stages]
    /\ what \in [Uploads -> Content]
    /\ noted \in [Uploads -> SUBSET Content]

\* An upload under way of a content that did not race with a collection: its
\* file is there, then its row, and no collection has chosen it.
Safe(u) ==
    upload[u] \in Between /\ what[u] \notin raced =>
        /\ what[u] \in files /\ what[u] \notin Collected
        /\ upload[u] # "file" => what[u] \in blobs

\* One that is done, for a thread that is still there.
Kept(u) ==
    upload[u] = "done" /\ Owner[u] \notin deleted \cup {NoThread} /\ what[u] \notin raced =>
        /\ what[u] \in files \cap blobs /\ what[u] \notin Collected
        /\ <<what[u], u>> \in refs

Inv == TypeOK /\ \A u \in Uploads : Safe(u) /\ Kept(u)

(* What an upload of a thread was told is stored can be read as long as    *)
(* the thread exists, after its run and other threads are gone: file, row  *)
(* and reference are all there.  Excepted are contents of which an upload  *)
(* crossed a collection; the code loses those (see the hazards).           *)
AcknowledgedIsReadable ==
    \A u \in Uploads :
        At(u, "done") /\ Owner[u] \notin deleted \cup {NoThread} /\ what[u] \notin raced =>
            what[u] \in files \cap blobs /\ <<what[u], u>> \in refs
=============================================================================
