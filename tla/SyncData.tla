------------------------------ MODULE SyncData ------------------------------
(***************************************************************************)
(* The data two collections exchange in a normal sync, and the merge rules *)
(* applied to it (rslib/src/sync/collection/{graves,changes,chunks}.rs and *)
(* rslib/src/storage/{sync,graves}).                                       *)
(*                                                                         *)
(* A row of a table is the number of the edit that produced its content    *)
(* and the row's usn column.  The content and the mtime of a row are both  *)
(* functions of that edit: Stamp gives the mtime, in seconds, that the     *)
(* clock of the editing device showed.  Edit 0 stands for a missing row,   *)
(* edit 1 for what every row of Known was when the account was set up.     *)
(*                                                                         *)
(* A definition named ...Bug is a faulty variant of the definition after   *)
(* it: it belongs to no specification, and serves to check that a property *)
(* would notice the fault (README, Variants).                              *)
(***************************************************************************)
EXTENDS Integers, FiniteSets

CONSTANTS
    Cards, Notes,   \* ids of cards and of notes: sent in chunks, have graves
    Revlog,         \* ids of review log entries: sent in chunks, only added
    Decks,          \* ids of decks, standing for every kind of row that is
                    \* sent in one piece and merged by mtime
    Known,          \* the rows that the first full sync gave every device
    Stamp           \* Stamp[e]: the mtime edit e gave to its row

Chunked == Cards \cup Notes \cup Revlog
Graved  == Cards \cup Notes \cup Decks
Objs    == Chunked \cup Decks

PendingUsn == -1    \* usn of a row changed locally since the last sync
NoGrave    == -2    \* there is no grave for the id

(* Every table has ids of its own, and Known holds rows of these tables.   *)
ASSUME IdsApart ==
    /\ Chunked \cap Decks = {} /\ Revlog \cap Graved = {}
    /\ Cards \cap Notes = {}
    /\ Known \subseteq Objs

Absent == [ed |-> 0, usn |-> 0]

NoCol == [row |-> [o \in {} |-> Absent], grave |-> [o \in {} |-> NoGrave],
          conf |-> 0, mod |-> -1, scm |-> -1, usn |-> -1]

(* The collection that every device has after a first full sync.           *)
Initial == [row   |-> [o \in Objs |-> IF o \in Known THEN [ed |-> 1, usn |-> 0] ELSE Absent],
            grave |-> [o \in Objs |-> NoGrave],
            conf  |-> 1, mod |-> 0, scm |-> 0, usn |-> 1]

KnownFrom == [o \in Objs |-> IF o \in Known THEN 1 ELSE 0]

Present(row) == row.ed # 0
Mtime(row)   == Stamp[row.ed]

IsPendingSyncBug(usn, pending) ==
    IF pending = PendingUsn THEN usn = PendingUsn ELSE usn > pending

(* Usn::pending_object_clause and Usn::is_pending_sync: -1 selects the rows *)
(* marked as pending, another usn the rows that are not older.              *)
IsPendingSync(usn, pending) ==
    IF pending = PendingUsn THEN usn = PendingUsn ELSE usn >= pending

PendingGraves(col, pending) ==
    {o \in Objs : col.grave[o] # NoGrave /\ IsPendingSync(col.grave[o], pending)}

PendingRows(col, pending, ids) ==
    {o \in ids : Present(col.row[o]) /\ IsPendingSync(col.row[o].usn, pending)}

-----------------------------------------------------------------------------
(* Changes made on a device, by Collection::transact: each marks what it   *)
(* touches as pending and moves the collection's mod.                      *)

(* INSERT OR IGNORE: a grave that exists keeps the usn it has.             *)
AddGrave(grave, usn) == IF grave = NoGrave THEN usn ELSE grave

WriteRowBug(col, o, ed, now) ==
    [col EXCEPT !.row[o] = [ed |-> ed, usn |-> PendingUsn]]

WriteRow(col, o, ed, now) ==
    [col EXCEPT !.row[o] = [ed |-> ed, usn |-> PendingUsn], !.mod = now]

RemoveRow(col, o, now) ==
    [col EXCEPT !.row[o] = Absent, !.grave[o] = AddGrave(@, PendingUsn), !.mod = now]

WriteConfig(col, ed, now) == [col EXCEPT !.conf = ed, !.mod = now]

SetSchemaModified(col, now) == [col EXCEPT !.scm = now]

-----------------------------------------------------------------------------
(* Bookkeeping of what is sent.                                            *)

StampRow(row, usn) == [row EXCEPT !.usn = usn]

(* maybe_update_object_usns: rows that are sent lose their pending mark.   *)
StampRows(col, ids, usn) ==
    [col EXCEPT !.row = [o \in Objs |->
        IF o \in ids THEN StampRow(col.row[o], usn) ELSE col.row[o]]]

(* update_pending_grave_usns                                               *)
StampGraves(col, usn) ==
    [col EXCEPT !.grave = [o \in Objs |->
        IF col.grave[o] = PendingUsn THEN usn ELSE col.grave[o]]]

(* The rows of ids as they are sent, a client's with the server's usn.     *)
SentRows(col, ids) == [o \in ids |-> col.row[o]]

-----------------------------------------------------------------------------
(* Merging what the other side sent.                                       *)

ApplyGravesBug(col, ids, usn) ==
    [col EXCEPT !.grave = [o \in Objs |->
        IF o \in ids THEN AddGrave(col.grave[o], usn) ELSE col.grave[o]]]

(* Collection::apply_graves: a deletion wins over whatever is there.       *)
ApplyGraves(col, ids, usn) ==
    [col EXCEPT
        !.row   = [o \in Objs |-> IF o \in ids THEN Absent ELSE col.row[o]],
        !.grave = [o \in Objs |->
            IF o \in ids THEN AddGrave(col.grave[o], usn) ELSE col.grave[o]]]

TakesUnchunkedBug(mine, theirs) ==
    ~Present(mine) \/ Mtime(mine) > Mtime(theirs)

(* merge_decks, merge_deck_config, merge_notetypes: the later mtime wins,   *)
(* and a tie goes to the incoming row.                                      *)
TakesUnchunked(mine, theirs) ==
    ~Present(mine) \/ Mtime(mine) <= Mtime(theirs)

MergeUnchunked(col, entries) ==
    [col EXCEPT !.row = [o \in Objs |->
        IF o \in DOMAIN entries /\ TakesUnchunked(col.row[o], entries[o])
        THEN entries[o] ELSE col.row[o]]]

(* add_or_update_card_if_newer, add_or_update_note_if_newer: an incoming    *)
(* row replaces one that has not changed since the last sync, and otherwise *)
(* needs a later mtime.  merge_revlog: an entry is never replaced.          *)
TakesChunked(o, mine, theirs, pending) ==
    \/ ~Present(mine)
    \/ /\ o \notin Revlog
       /\ \/ ~IsPendingSync(mine.usn, pending)
          \/ Mtime(mine) < Mtime(theirs)

MergeChunk(col, entries, pending) ==
    [col EXCEPT !.row = [o \in Objs |->
        IF o \in DOMAIN entries /\ TakesChunked(o, col.row[o], entries[o], pending)
        THEN entries[o] ELSE col.row[o]]]

-----------------------------------------------------------------------------
(* The sanity check compares how many rows each table has.                 *)

CountOf(col, ids) == Cardinality({o \in ids : Present(col.row[o])})

SanityCounts(col) ==
    <<CountOf(col, Cards), CountOf(col, Notes), CountOf(col, Revlog), CountOf(col, Decks)>>

(* sanity_check_info refuses to count while a row or grave is pending.     *)
HasPending(col) ==
    PendingGraves(col, PendingUsn) \cup PendingRows(col, PendingUsn, Objs) # {}

-----------------------------------------------------------------------------
(* What moves a whole collection.                                          *)

Finish(col, usn, now) == [col EXCEPT !.usn = usn, !.mod = now]

BeforeUploadBug(col, now) ==
    [col EXCEPT !.grave = [o \in Objs |-> NoGrave], !.usn = col.usn + 1,
                !.scm = now, !.mod = now]

(* Collection::before_upload: forget the graves, nothing is pending, and   *)
(* the new schema time makes every other device do a full sync too.        *)
BeforeUpload(col, now) ==
    [col EXCEPT
        !.row   = [o \in Objs |->
                     IF o \in Decks \/ col.row[o].usn = PendingUsn
                     THEN StampRow(col.row[o], 0) ELSE col.row[o]],
        !.grave = [o \in Objs |-> NoGrave],
        !.usn   = col.usn + 1,
        !.scm   = now,
        !.mod   = now]

(* server_download: the usn moves on before the collection is sent.        *)
BeforeDownload(col, now) == [col EXCEPT !.usn = @ + 1, !.mod = now]

(* SyncMeta::compared_to_remote.                                           *)
NoChanges(cl, mod)               == cl.mod = mod
NormalSyncRequired(cl, mod, scm) == ~NoChanges(cl, mod) /\ cl.scm = scm
LocalIsNewer(cl, mod)            == cl.mod > mod

(* Two collections hold the same rows and the same configuration.          *)
SameRow(a, b, o)  == a.row[o].ed = b.row[o].ed
SameData(a, b)    == (\A o \in Objs : SameRow(a, b, o)) /\ a.conf = b.conf
=============================================================================
