------------------------------ MODULE MediaSync ------------------------------
(***************************************************************************)
(* The syncing of media files (rslib/src/sync/media, media/, and the       *)
(* media_manager of sync/http_server).  Each device has a media folder and *)
(* a database that remembers what was last seen in it; the server has a    *)
(* folder and a database that gives each change a usn.                     *)
(*                                                                         *)
(* A content stands for its own checksum.  A request that only reads is    *)
(* one step with its answer; an upload travels on its own, and may be      *)
(* processed after its sender has given up.  File names need no            *)
(* normalisation here, the size limit of a zip may end it anywhere, and a  *)
(* changed file never keeps its mtime.  A definition named ...Bug is a     *)
(* faulty variant of the definition after it, and is in no specification.  *)
(***************************************************************************)
EXTENDS Integers, Sequences, SequencesExt, FiniteSets

CONSTANTS
    Devices,
    Files,
    Contents,
    Unsyncable,    \* the contents that are empty or too large to sync
    Absent,        \* no file; in a database, a deletion
    Shared,        \* Shared[f]: what every device and the server have at first
    ChunkLimit,    \* the LIMIT of changes.sql
    ZipLimit,      \* MAX_MEDIA_FILES_IN_ZIP
    InPlace,       \* whether a file may be written over unnoticed
    MaxEdits,      \* bound on what the users do
    MaxFaults      \* bound on aborted sessions, failed and lost uploads

ASSUME MediaParameters ==
    /\ Absent \notin Contents /\ Unsyncable \subseteq Contents
    /\ Shared \in [Files -> (Contents \ Unsyncable) \cup {Absent}]
    /\ IsFiniteSet(Files) /\ ChunkLimit \in Nat \ {0} /\ ZipLimit \in Nat \ {0}
    /\ MaxEdits \in Nat /\ MaxFaults \in Nat

VARIABLES
    client,      \* client[d]: the folder and the media database of d
    session,     \* session[d]: the sync that d runs, or Idle
    wire,        \* wire[d]: the upload of d that the server has yet to process
    server,
    acknowledged,\* history: the names the server has deleted for a device
    torn,        \* history: what was written to a folder and not recorded
    edits, faults

vars == <<client, session, wire, server, acknowledged, torn, edits, faults>>

(* The rows of the client's and of the server's database.                  *)
Unknown == [known |-> FALSE, sha |-> Absent, dirty |-> FALSE]
Row(sha, dirty) == [known |-> TRUE, sha |-> sha, dirty |-> dirty]
NoEntry == [known |-> FALSE, sha |-> Absent, usn |-> 0]

Idle == [at |-> "idle"]
NoUpload == <<>>

SharedFiles == {f \in Files : Shared[f] # Absent}
SharedOrder == SetToSeq(SharedFiles)
FirstUsn(f) == CHOOSE i \in DOMAIN SharedOrder : SharedOrder[i] = f

Init ==
    /\ client = [d \in Devices |->
         [folder |-> Shared, seen |-> TRUE, last_usn |-> Len(SharedOrder),
          db |-> [f \in Files |-> IF f \in SharedFiles THEN Row(Shared[f], FALSE)
                                                      ELSE Unknown]]]
    /\ session = [d \in Devices |-> Idle]
    /\ wire = [d \in Devices |-> NoUpload]
    /\ server = [folder |-> Shared, last_usn |-> Len(SharedOrder),
                 count |-> Len(SharedOrder),
                 entry |-> [f \in Files |->
                   IF f \in SharedFiles
                   THEN [known |-> TRUE, sha |-> Shared[f], usn |-> FirstUsn(f)]
                   ELSE NoEntry]]
    /\ acknowledged = {} /\ torn = {} /\ edits = 0 /\ faults = 0

-----------------------------------------------------------------------------
(* The user.  seen says that the database has the folder's mtime, which    *)
(* changes as files appear and disappear, and not as one is written over.  *)

Edit == edits < MaxEdits /\ edits' = edits + 1

(* A program or the user writes or removes a file behind Anki's back.      *)
ExternalWrite(d, f, c) ==
    /\ Edit
    /\ client[d].folder[f] # c
    /\ \E seen \in {FALSE, client[d].seen} :
         /\ seen => InPlace /\ client[d].folder[f] # Absent
         /\ client' = [client EXCEPT ![d].folder[f] = c, ![d].seen = seen]
    /\ UNCHANGED <<session, wire, server, acknowledged, torn, faults>>

ExternalRemove(d, f) ==
    /\ Edit
    /\ client[d].folder[f] # Absent
    /\ client' = [client EXCEPT ![d].folder[f] = Absent, ![d].seen = FALSE]
    /\ UNCHANGED <<session, wire, server, acknowledged, torn, faults>>

(* MediaManager::add_file.  f is the name chosen, so nothing else has it.  *)
AddFile(d, f, c) ==
    LET row == client[d].db[f]
    IN  /\ Edit
        /\ client[d].folder[f] \in {Absent, c}
        /\ client' = [client EXCEPT
             ![d].folder[f] = c,
             ![d].db[f] = IF row.known /\ row.sha = c THEN row ELSE Row(c, TRUE)]
        /\ UNCHANGED <<session, wire, server, acknowledged, torn, faults>>

(* remove_files of media/files.rs moves files to the trash, and returns    *)
(* when it meets one that is not there.                                    *)
Trashed(folder, names) ==
    LET gone == {i \in DOMAIN names : \A j \in 1..i : folder[names[j]] # Absent}
    IN  [f \in Files |-> IF \E i \in gone : names[i] = f THEN Absent ELSE folder[f]]

(* MediaManager::remove_files: the rows of all the names become pending    *)
(* deletions.                                                              *)
Forgotten(c, names) ==
    [c EXCEPT !.folder = Trashed(c.folder, names),
              !.db = [f \in Files |->
                        IF f \in Range(names) /\ c.db[f].known
                        THEN Row(Absent, TRUE) ELSE c.db[f]]]

RemoveFiles(d, names) ==
    /\ Edit
    /\ names # <<>>
    /\ client' = [client EXCEPT ![d] = Forgotten(@, names)]
    /\ UNCHANGED <<session, wire, server, acknowledged, torn, faults>>

-----------------------------------------------------------------------------
(* The change tracker.                                                     *)

(* A file that cannot be synced counts as removed.                         *)
Found(folder, f) == IF folder[f] \in Unsyncable THEN Absent ELSE folder[f]

RegisteredBug(c) ==
    IF c.seen THEN c
    ELSE [c EXCEPT !.seen = TRUE, !.db = [f \in Files |->
           IF Found(c.folder, f) # Absent
           THEN Row(Found(c.folder, f), c.db[f].sha # Found(c.folder, f))
           ELSE IF c.db[f].sha # Absent THEN Row(Absent, TRUE) ELSE c.db[f]]]

Registered(c) ==
    IF c.seen THEN c
    ELSE [c EXCEPT !.seen = TRUE, !.db = [f \in Files |->
           IF Found(c.folder, f) = c.db[f].sha THEN c.db[f]
           ELSE Row(Found(c.folder, f), TRUE)]]

(* The media check registers changes as well, at any time.                 *)
MediaCheck(d) ==
    /\ ~client[d].seen
    /\ client' = [client EXCEPT ![d] = Registered(@)]
    /\ UNCHANGED <<session, wire, server, acknowledged, torn, edits, faults>>

-----------------------------------------------------------------------------
(* The client's side of a sync (MediaSyncer).                              *)

(* The elements of seq that are in S.                                      *)
Only(seq, S) ==
    LET upTo[i \in 0..Len(seq)] ==
            IF i = 0 THEN <<>>
            ELSE IF seq[i] \in S THEN Append(upTo[i - 1], seq[i]) ELSE upTo[i - 1]
    IN  upTo[Len(seq)]

Goto(d, s) == session' = [session EXCEPT ![d] = s]

(* The server's usn comes from the collection sync before this one, or is  *)
(* asked for.                                                              *)
StartSync(d) ==
    /\ session[d] = Idle
    /\ client' = [client EXCEPT ![d] = Registered(@)]
    /\ Goto(d, [at |-> "begin", usn |-> server.last_usn])
    /\ UNCHANGED <<wire, server, acknowledged, torn, edits, faults>>

Begin(d) ==
    /\ session[d].at = "begin"
    /\ \E usn \in {session[d].usn, server.last_usn} :
         Goto(d, IF usn # client[d].last_usn THEN [at |-> "fetch", acted |-> TRUE]
                                             ELSE [at |-> "send", acted |-> FALSE])
    /\ UNCHANGED <<client, wire, server, acknowledged, torn, edits, faults>>

(* media_changes_chunk: the index on usn gives the rows in that order.     *)
InOrder(files) ==
    [i \in 1..Cardinality(files) |-> CHOOSE f \in files :
        i = Cardinality({g \in files : server.entry[g].usn <= server.entry[f].usn})]

ChangesBug(after) ==
    LET order == InOrder({f \in Files : server.entry[f].known /\ server.entry[f].usn >= after})
    IN  SubSeq(order, 1, IF Len(order) < ChunkLimit THEN Len(order) ELSE ChunkLimit)

Changes(after) ==
    LET order == InOrder({f \in Files : server.entry[f].known /\ server.entry[f].usn > after})
    IN  SubSeq(order, 1, IF Len(order) < ChunkLimit THEN Len(order) ELSE ChunkLimit)

determine_required_change(local, remote) ==
    CASE local.sha = Absent /\ remote = Absent ->
           IF local.known THEN "Delete" ELSE "None"
      [] local.sha = Absent /\ remote # Absent -> "Download"
      [] local.sha # Absent /\ remote = Absent ->
           IF local.dirty THEN "None" ELSE "Delete"
      [] local.sha # Absent /\ local.sha = remote ->
           IF local.dirty THEN "RemovePending" ELSE "None"
      [] OTHER -> "Download"

BatchUsnBug(batch) == server.last_usn

BatchUsn(batch) == server.entry[Last(batch)].usn

Fetch(d) ==
    /\ session[d].at = "fetch"
    /\ \E batch \in {Changes(client[d].last_usn)} :
         LET Needing(change) == Only(batch, {f \in Files :
                 determine_required_change(client[d].db[f], server.entry[f].sha) = change})
         IN  IF batch = <<>>
             THEN /\ Goto(d, [at |-> "send", acted |-> TRUE])
                  /\ UNCHANGED client
             ELSE \E delete \in {Needing("Delete")} :
                  /\ client' = [client EXCEPT ![d] = Forgotten(@, delete)]
                  /\ Goto(d, [at |-> "download", todo |-> Needing("Download"), got |-> <<>>,
                              delete |-> delete, clean |-> Needing("RemovePending"),
                              last |-> BatchUsn(batch)])
    /\ UNCHANGED <<wire, server, acknowledged, torn, edits, faults>>

(* A batch's deletions, downloads and usn go into the database in one      *)
(* transaction, with the mtime that the folder has by now.                 *)
Recorded(c, s) ==
    [c EXCEPT
       !.seen = TRUE, !.last_usn = s.last,
       !.db = [f \in Files |->
          IF \E i \in DOMAIN s.got : s.got[i].file = f
          THEN Row((CHOOSE g \in Range(s.got) : g.file = f).sha, FALSE)
          ELSE IF f \in Range(s.delete) THEN Unknown
          ELSE IF f \in Range(s.clean) THEN [c.db[f] EXCEPT !.dirty = FALSE]
          ELSE c.db[f]]]

RecordBatch(d) ==
    /\ session[d].at = "download" /\ session[d].todo = <<>>
    /\ client' = [client EXCEPT ![d] = Recorded(@, session[d])]
    /\ Goto(d, [at |-> "fetch", acted |-> TRUE])
    /\ UNCHANGED <<wire, server, acknowledged, torn, edits, faults>>

(* get_entries_for_download and gather_file_data: a conflict when a file   *)
(* has no entry, and when it is not in the folder, which the server then   *)
(* forgets.                                                                *)
Decrement(n) == IF n = 0 THEN 0 ELSE n - 1

ForgetMissing(s, f) ==
    [s EXCEPT !.count = Decrement(@), !.entry[f] = NoEntry]

(* A sync that ends within a batch leaves files it has not recorded.       *)
Unrecorded(s) == IF s.at = "download" THEN {got.file : got \in Range(s.got)} ELSE {}

Download(d) ==
    LET s == session[d]
        limit == IF Len(s.todo) < ZipLimit THEN Len(s.todo) ELSE ZipLimit
    IN  /\ s.at = "download" /\ s.todo # <<>>
        /\ \E n \in 1..limit :
             LET asked == SubSeq(s.todo, 1, n)
                 empty == \E f \in Range(asked) : server.entry[f].sha = Absent
                 missing == SelectInSeq(asked, LAMBDA f : server.folder[f] = Absent)
             IN  \/ /\ empty
                    /\ Goto(d, Idle) /\ torn' = torn \cup Unrecorded(s)
                    /\ UNCHANGED <<client, server>>
                 \/ /\ ~empty /\ missing # 0
                    /\ server' = ForgetMissing(server, asked[missing])
                    /\ Goto(d, Idle) /\ torn' = torn \cup Unrecorded(s)
                    /\ UNCHANGED client
                 \/ /\ ~empty /\ missing = 0
                    /\ client' = [client EXCEPT
                         ![d].folder = [f \in Files |-> IF f \in Range(asked)
                                                        THEN server.folder[f] ELSE @[f]],
                         ![d].seen = @ /\ \A f \in Range(asked) : client[d].folder[f] # Absent]
                    /\ Goto(d, [s EXCEPT !.todo = SubSeq(@, n + 1, Len(@)),
                         !.got = @ \o [i \in 1..n |-> [file |-> asked[i],
                                                       sha |-> server.folder[asked[i]]]]])
                    /\ UNCHANGED <<server, torn>>
        /\ UNCHANGED <<wire, acknowledged, edits, faults>>

(* What get_pending_uploads lists, in the order of the names.              *)
Pending(d) == Only(SetToSeq(Files), {f \in Files : client[d].db[f].dirty})

(* gather_zip_data_for_upload: a missing file is uploaded as a deletion.   *)
DataFor(c, f) == IF c.db[f].sha = Absent THEN Absent ELSE c.folder[f]

InvalidBug(c, files) == {}

Invalid(c, files) == {f \in files : DataFor(c, f) \in Unsyncable}

(* The rows whose files cannot be synced are dropped, and the batch is     *)
(* built again.                                                            *)
Upload(d) ==
    /\ session[d].at = "send" /\ wire[d] = NoUpload
    /\ \E pending \in {Pending(d)} :
       \E n \in 1..(IF Len(pending) < ZipLimit THEN Len(pending) ELSE ZipLimit) :
             \E files \in {SubSeq(pending, 1, n)} :
             LET invalid == Invalid(client[d], Range(files))
             IN  IF invalid # {}
                 THEN /\ client' = [client EXCEPT ![d].db =
                            [f \in Files |-> IF f \in invalid THEN Unknown ELSE @[f]]]
                      /\ Goto(d, [at |-> "send", acted |-> TRUE])
                      /\ UNCHANGED wire
                 ELSE /\ wire' = [wire EXCEPT ![d] =
                            [i \in 1..n |-> [file |-> files[i],
                                         data |-> DataFor(client[d], files[i])]]]
                      /\ Goto(d, [at |-> "sent", files |-> files])
                      /\ UNCHANGED client
    /\ UNCHANGED <<server, acknowledged, torn, edits, faults>>

(* The answer to an upload: its rows are clean, and the usn moves on when  *)
(* the numbers say that nothing else has happened on the server.           *)
Answered(c, s) ==
    [c EXCEPT !.db = [f \in Files |-> IF f \in Range(s.files)
                                      THEN [c.db[f] EXCEPT !.dirty = FALSE] ELSE c.db[f]],
              !.last_usn = IF @ + Len(s.files) = s.usn THEN s.usn ELSE @]

UploadAnswered(d) ==
    /\ session[d].at = "answered"
    /\ client' = [client EXCEPT ![d] = Answered(@, session[d])]
    /\ Goto(d, [at |-> "send", acted |-> TRUE])
    /\ UNCHANGED <<wire, server, acknowledged, torn, edits, faults>>

(* finalize_sync: a sync that did something ends with the sanity check.    *)
CountOf(c) == Cardinality({f \in Files : c.db[f].sha # Absent})

Finish(d) ==
    /\ session[d].at = "send" /\ Pending(d) = <<>>
    /\ Goto(d, IF session[d].acted /\ CountOf(client[d]) # server.count
               THEN [at |-> "resync"] ELSE Idle)
    /\ UNCHANGED <<client, wire, server, acknowledged, torn, edits, faults>>

ForceResync(d) ==
    /\ session[d].at = "resync"
    /\ client' = [client EXCEPT ![d].db = [f \in Files |-> Unknown],
                                ![d].last_usn = 0, ![d].seen = FALSE]
    /\ Goto(d, Idle)
    /\ UNCHANGED <<wire, server, acknowledged, torn, edits, faults>>

(* The user aborts, the network fails, or the program dies.                *)
Abort(d) ==
    /\ session[d] # Idle
    /\ faults < MaxFaults /\ faults' = faults + 1
    /\ torn' = torn \cup Unrecorded(session[d])
    /\ Goto(d, Idle)
    /\ UNCHANGED <<client, wire, server, acknowledged, edits>>

-----------------------------------------------------------------------------
(* The server's side of an upload (process_uploaded_changes).              *)

RegisterChangeBug(s, change) ==
    LET old == s.entry[change.file].sha
    IN  IF old = change.data THEN s
        ELSE [s EXCEPT
               !.folder[change.file] = change.data,
               !.entry[change.file] = [known |-> TRUE, sha |-> change.data,
                                       usn |-> s.last_usn + 1],
               !.last_usn = @ + 1,
               !.count = IF change.data = Absent THEN Decrement(@) ELSE @ + 1]

(* register_uploaded_change: a file that is already deleted, or identical, *)
(* takes no usn.                                                           *)
RegisterChange(s, change) ==
    LET old == s.entry[change.file].sha
    IN  IF old = change.data THEN s
        ELSE [s EXCEPT
               !.folder[change.file] = change.data,
               !.entry[change.file] = [known |-> TRUE, sha |-> change.data,
                                       usn |-> s.last_usn + 1],
               !.last_usn = @ + 1,
               !.count = IF change.data = Absent THEN Decrement(@)
                         ELSE IF old = Absent THEN @ + 1 ELSE @]

Deletions(upload) == {upload[i].file : i \in {j \in DOMAIN upload : upload[j].data = Absent}}

ProcessUpload(d) ==
    /\ wire[d] # NoUpload
    /\ server' = FoldLeft(RegisterChange, server, wire[d])
    /\ acknowledged' = acknowledged \cup Deletions(wire[d])
    /\ wire' = [wire EXCEPT ![d] = NoUpload]
    /\ IF session[d].at = "sent"
       THEN Goto(d, [at |-> "answered", files |-> session[d].files,
                     usn |-> server'.last_usn])
       ELSE UNCHANGED session
    /\ UNCHANGED <<client, torn, edits, faults>>

(* A file operation or the commit fails: the database is rolled back, and  *)
(* the folder keeps what was done to it.                                   *)
RolledBackBug(s, done) == done

RolledBack(s, done) == [s EXCEPT !.folder = done.folder]

UploadFails(d) ==
    /\ wire[d] # NoUpload
    /\ faults < MaxFaults /\ faults' = faults + 1
    /\ \E k \in 0..Len(wire[d]) :
         server' = RolledBack(server, FoldLeft(RegisterChange, server,
                                               SubSeq(wire[d], 1, k)))
    /\ torn' = torn \cup {wire[d][i].file : i \in DOMAIN wire[d]}
    /\ wire' = [wire EXCEPT ![d] = NoUpload]
    /\ IF session[d].at = "sent" THEN Goto(d, Idle) ELSE UNCHANGED session
    /\ UNCHANGED <<client, acknowledged, edits>>

-----------------------------------------------------------------------------
User(d) ==
    \/ \E f \in Files, c \in Contents : ExternalWrite(d, f, c) \/ AddFile(d, f, c)
    \/ \E f \in Files : ExternalRemove(d, f)
    \/ \E names \in UNION {SetToSeqs(S) : S \in SUBSET Files} : RemoveFiles(d, names)

SyncStep(d) ==
    \/ Begin(d) \/ Fetch(d) \/ Download(d) \/ RecordBatch(d)
    \/ Upload(d) \/ UploadAnswered(d) \/ Finish(d) \/ ForceResync(d)

Fault(d) == Abort(d) \/ UploadFails(d)

Next == \E d \in Devices :
    User(d) \/ MediaCheck(d) \/ StartSync(d) \/ SyncStep(d) \/ ProcessUpload(d) \/ Fault(d)

Spec == Init /\ [][Next]_vars

(* One device syncs at a time, its user waits for it, and no upload that   *)
(* was given up is still on its way.                                       *)
Undisturbed(d) == \A e \in Devices \ {d} : session[e] = Idle /\ wire[e] = NoUpload

StartsUndisturbed(d) == Undisturbed(d) /\ wire[d] = NoUpload /\ StartSync(d)

SerialNext == \E d \in Devices :
    \/ session[d] = Idle /\ (User(d) \/ MediaCheck(d))
    \/ StartsUndisturbed(d)
    \/ Undisturbed(d) /\ (SyncStep(d) \/ ProcessUpload(d) \/ Fault(d))

SerialSpec == Init /\ [][SerialNext]_vars

(* A sync in progress goes on, and the server answers.                     *)
SyncGoesOn == \A d \in Devices : WF_vars(SyncStep(d)) /\ WF_vars(ProcessUpload(d))

FairSpec == Spec /\ SyncGoesOn

(* Every device goes on to sync now and then.                              *)
FairSerialSpec ==
    /\ SerialSpec
    /\ \A d \in Devices :
         /\ WF_vars(Undisturbed(d) /\ SyncStep(d))
         /\ WF_vars(Undisturbed(d) /\ ProcessUpload(d))
         /\ SF_vars(StartsUndisturbed(d))

-----------------------------------------------------------------------------
(* Properties.                                                             *)

Shas == Contents \cup {Absent}
NameLists == UNION {SetToSeqs(S) : S \in SUBSET Files}

TypeOK ==
    /\ client \in [Devices -> [folder : [Files -> Shas], seen : BOOLEAN, last_usn : Nat,
                     db : [Files -> [known : BOOLEAN, sha : Shas, dirty : BOOLEAN]]]]
    /\ server \in [folder : [Files -> Shas], last_usn : Nat, count : Nat,
                   entry : [Files -> [known : BOOLEAN, sha : Shas, usn : Nat]]]
    /\ \A d \in Devices :
         /\ wire[d] \in Seq([file : Files, data : Shas \ Unsyncable])
         /\ session[d].at \in {"idle", "begin", "fetch", "download", "send", "sent",
                               "answered", "resync"}
         /\ session[d].at = "download" =>
              {session[d].todo, session[d].delete, session[d].clean} \subseteq NameLists
    /\ acknowledged \subseteq Files /\ torn \subseteq Files
    /\ edits \in 0..MaxEdits /\ faults \in 0..MaxFaults

(* The server's counter, which the sanity check trusts, is the number of   *)
(* files it has, and its changes have usns of their own, so that a page of *)
(* changes that ends between two of them loses none.                       *)
ServerTidy ==
    LET entry == server.entry
    IN  /\ server.count = Cardinality({f \in Files : entry[f].sha # Absent})
        /\ \A f \in Files : entry[f].usn <= server.last_usn
        /\ \A f, g \in Files : entry[f].known /\ entry[f].usn = entry[g].usn => f = g

(* A file that a device has as clean, and that the server has not changed  *)
(* since the usn up to which the device is synced, is the same on both.    *)
(* An upload that failed or a download that was cut short may leave a file *)
(* that is not what the row says.                                          *)
CleanMeansSynced ==
    \A d \in Devices, f \in Files :
        LET row == client[d].db[f]
            remote == server.entry[f]
        IN  /\ remote.known /\ remote.usn <= client[d].last_usn /\ ~row.dirty
            /\ f \notin torn
            => row.sha = remote.sha

(* Only what goes wrong makes the sanity check ask for a full resync.      *)
SanityPasses == faults = 0 => \A d \in Devices : session[d].at # "resync"

(* A sync removes a file from a device only when the server has confirmed  *)
(* to some device that it is deleted; a file that the server has lost is   *)
(* not removed elsewhere.                                                  *)
RemovedWhenAcknowledged ==
    [][\A d \in Devices, f \in Files :
         /\ session[d].at = "fetch"
         /\ client[d].folder[f] # Absent /\ client'[d].folder[f] = Absent
         /\ UNCHANGED edits
         => f \in acknowledged]_vars

(* The media database calls a file deleted only when it is not there, or   *)
(* when the folder is known to have changed (MediaEntry::sha1).            *)
DeletedMeansGone ==
    \A d \in Devices, f \in Files :
        /\ client[d].seen /\ client[d].db[f].known /\ client[d].db[f].sha = Absent
        => Found(client[d].folder, f) = Absent

(* Every media sync ends.                                                  *)
MediaSyncEnds == \A d \in Devices : session[d].at # "idle" ~> session[d].at = "idle"

(* Once the users stop, nothing stays pending and all devices have the     *)
(* server's version of every file that it has a row for.                   *)
MediaConverges ==
    <>[](\A d \in Devices, f \in Files :
           LET row == client[d].db[f]
               remote == server.entry[f]
           IN  /\ ~row.dirty
               /\ remote.known /\ f \notin torn => row.sha = remote.sha)
=============================================================================
