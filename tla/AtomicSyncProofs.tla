-------------------------- MODULE AtomicSyncProofs --------------------------
(***************************************************************************)
(* Proofs about AtomicSync, for any finite or infinite set of clients and  *)
(* of objects and any bounds.                                              *)
(***************************************************************************)
EXTENDS AtomicSync, TLAPS

(* Every collection that a client has or may adopt, and every collection   *)
(* that is or may become the server's.                                     *)
Replicas == {cli[c] : c \in Clients} \cup {x.col : x \in offers}
              \cup ({ack[c] : c \in Clients} \ {NoCol})
Servers  == {srv} \cup uploads

(* What holds of each object of one collection.                            *)
GoodObj(col, o) ==
    /\ col.row[o].usn >= PendingUsn /\ col.row[o].usn < col.usn
    /\ col.grave[o] >= NoGrave /\ col.grave[o] < col.usn
    /\ col.row[o].ed <= edits
    /\ ~Present(col.row[o]) => col.row[o] = Absent
    /\ col.grave[o] # NoGrave => ~Present(col.row[o])
    /\ Present(col.row[o]) \/ col.grave[o] # NoGrave => born[o] # 0
    /\ o \in Revlog /\ Present(col.row[o]) => col.row[o].ed = born[o]

Good(col) ==
    /\ col.mod <= clk /\ col.scm <= clk /\ col.usn > 0
    /\ \A o \in Objs : GoodObj(col, o)

(* Nothing on the server is pending.                                       *)
Clean(col) == \A o \in Objs : col.row[o].usn # PendingUsn /\ col.grave[o] # PendingUsn

(* Both sides of a session end with the same edit of a row when later      *)
(* edits have later mtimes, or when two edits never have the same mtime    *)
(* and the row is one that is sent in chunks; they end with a row or       *)
(* without one whatever the clocks show.                                   *)
Exact(o) == ClocksAgree \/ (StampsDiffer /\ o \in Chunked)

Alike(r, s, o) ==
    /\ Present(r.row[o]) <=> Present(s.row[o])
    /\ Exact(o) => SameRow(r, s, o)

(* How an object of a replica relates to the same object of a server that  *)
(* it can sync with.                                                       *)
PairObj(r, s, o) ==
    /\ Alike(r, s, o) \/ WillSend(r, o) \/ WillReceive(r, s, o)
    /\ s.grave[o] # NoGrave /\ s.grave[o] < r.usn => ~Present(r.row[o])
    /\ r.grave[o] >= 0 => s.grave[o] # NoGrave
    /\ ClocksAgree /\ Present(r.row[o]) /\ Present(s.row[o]) =>
         IF r.row[o].usn = PendingUsn
         THEN s.row[o].usn < r.usn => s.row[o].ed <= r.row[o].ed
         ELSE r.row[o].ed <= s.row[o].ed

Pair(r, s) ==
    r.scm = s.scm => r.usn <= s.usn /\ \A o \in Objs : PairObj(r, s, o)

InSync(r, s) == (\A o \in Objs : Alike(r, s, o)) /\ r.conf = s.conf /\ ~HasPending(r)

BornOK == \A o \in Objs : born[o] <= edits

Pairs == \A r \in Replicas, s \in Servers : Pair(r, s)

(* An upload that has not arrived yet forces everyone else to a full sync. *)
SchemasApart ==
    \A u \in uploads :
        /\ u.scm # srv.scm
        /\ \A v \in uploads : v.scm = u.scm => v = u
        /\ \A c \in Clients : ack[c] # NoCol => ack[c].scm # u.scm

ModsAgree ==
    \A r \in Replicas :
        /\ ~torn /\ r.mod = srv.mod => InSync(r, srv)
        /\ \A u \in uploads : r.mod = u.mod => InSync(r, u)

IInv ==
    /\ TypeOK
    /\ BornOK
    /\ \A r \in Replicas : Good(r)
    /\ \A s \in Servers : Good(s) /\ Clean(s)
    /\ Pairs
    /\ SchemasApart
    /\ ModsAgree

-----------------------------------------------------------------------------
(* Replacing one field of a collection.                                    *)
LEMMA SetRow ==
    ASSUME NEW col \in Collection, NEW f \in [Objs -> Row]
    PROVE  LET new == [col EXCEPT !.row = f]
           IN  /\ new \in Collection
               /\ new.row = f /\ new.grave = col.grave /\ new.conf = col.conf
               /\ new.mod = col.mod /\ new.scm = col.scm /\ new.usn = col.usn
  BY DEF Collection

(* ... of its graves,                                                      *)
LEMMA SetGrave ==
    ASSUME NEW col \in Collection, NEW f \in [Objs -> Int]
    PROVE  LET new == [col EXCEPT !.grave = f]
           IN  /\ new \in Collection
               /\ new.row = col.row /\ new.grave = f /\ new.conf = col.conf
               /\ new.mod = col.mod /\ new.scm = col.scm /\ new.usn = col.usn
  BY DEF Collection

(* ... of its configuration,                                               *)
LEMMA SetConf ==
    ASSUME NEW col \in Collection, NEW conf \in 0..MaxEdits
    PROVE  LET new == [col EXCEPT !.conf = conf]
           IN  /\ new \in Collection
               /\ new.row = col.row /\ new.grave = col.grave /\ new.conf = conf
               /\ new.mod = col.mod /\ new.scm = col.scm /\ new.usn = col.usn
  BY DEF Collection

(* ... of its modification time,                                           *)
LEMMA SetMod ==
    ASSUME NEW col \in Collection, NEW mod \in Nat
    PROVE  LET new == [col EXCEPT !.mod = mod]
           IN  /\ new \in Collection
               /\ new.row = col.row /\ new.grave = col.grave /\ new.conf = col.conf
               /\ new.mod = mod /\ new.scm = col.scm /\ new.usn = col.usn
  BY DEF Collection

(* ... of its schema time,                                                 *)
LEMMA SetScm ==
    ASSUME NEW col \in Collection, NEW scm \in Nat
    PROVE  LET new == [col EXCEPT !.scm = scm]
           IN  /\ new \in Collection
               /\ new.row = col.row /\ new.grave = col.grave /\ new.conf = col.conf
               /\ new.mod = col.mod /\ new.scm = scm /\ new.usn = col.usn
  BY DEF Collection

(* ... and of its usn.                                                     *)
LEMMA SetUsn ==
    ASSUME NEW col \in Collection, NEW usn \in Nat
    PROVE  LET new == [col EXCEPT !.usn = usn]
           IN  /\ new \in Collection
               /\ new.row = col.row /\ new.grave = col.grave /\ new.conf = col.conf
               /\ new.mod = col.mod /\ new.scm = col.scm /\ new.usn = usn
  BY DEF Collection

(* What a change of rows or graves leaves alone.                           *)
SameHead(new, old) == new.mod = old.mod /\ new.scm = old.scm /\ new.usn = old.usn

(* What the constant rows are, and what stamping a row with a usn leaves.  *)
LEMMA RowConstants ==
    /\ Absent \in Row /\ ~Present(Absent) /\ Absent.usn = 0 /\ Absent.ed = 0
    /\ \A row \in Row, usn \in Int :
         /\ StampRow(row, usn) = [ed |-> row.ed, usn |-> usn]
         /\ StampRow(row, usn) \in Row
         /\ StampRow(row, usn).ed = row.ed /\ StampRow(row, usn).usn = usn
  BY Bounds DEF Absent, Row, Present, StampRow

(* The fields of a row.                                                    *)
LEMMA RowType ==
    \A row \in Row : /\ row.ed \in 0..MaxEdits /\ row.ed \in Nat /\ row.usn \in Int
                     /\ Present(row) <=> row.ed # 0
  BY Bounds DEF Row, Present

(* apply_graves removes the rows and adds graves for them, no more.        *)
LEMMA ApplyGravesType ==
    ASSUME NEW col \in Collection, NEW ids, NEW usn \in Nat
    PROVE  LET new == ApplyGraves(col, ids, usn)
           IN  /\ new \in Collection /\ SameHead(new, col) /\ new.conf = col.conf
               /\ \A o \in Objs :
                    /\ new.row[o] = IF o \in ids THEN Absent ELSE col.row[o]
                    /\ new.grave[o] = IF o \in ids THEN AddGrave(col.grave[o], usn)
                                      ELSE col.grave[o]
<1> DEFINE f == [o \in Objs |-> IF o \in ids THEN Absent ELSE col.row[o]]
           g == [o \in Objs |-> IF o \in ids THEN AddGrave(col.grave[o], usn)
                                ELSE col.grave[o]]
           mid == [col EXCEPT !.row = f]
<1>1. f \in [Objs -> Row]
  BY RowConstants DEF Collection
<1>2. g \in [Objs -> Int]
  BY DEF Collection, AddGrave
<1>3. /\ mid \in Collection /\ mid.row = f /\ mid.conf = col.conf
      /\ SameHead(mid, col)
  <2> HIDE DEF f
  <2> QED  BY <1>1, SetRow DEF SameHead
<1>4. ApplyGraves(col, ids, usn) = [mid EXCEPT !.grave = g]
  BY DEF ApplyGraves
<1>5. LET new == [mid EXCEPT !.grave = g]
      IN  /\ new \in Collection /\ new.row = f /\ new.grave = g
          /\ new.conf = col.conf /\ SameHead(new, col)
  <2> HIDE DEF f, g, mid
  <2> QED  BY <1>2, <1>3, SetGrave DEF SameHead
<1> QED
  BY <1>4, <1>5

-----------------------------------------------------------------------------
(* A merge, object by object.  c and s are the rows of one object on the   *)
(* client and on the server once the deletions are applied, k the client's *)
(* usn and u the server's.                                                 *)

Stamped(row, u) == [ed |-> row.ed, usn |-> u]

Pending(row) == Present(row) /\ row.usn = PendingUsn

Fresh(row, k) == Present(row) /\ row.usn >= k

DeckOnServer(c, s, u) ==
    IF Pending(c) /\ (~Present(s) \/ Mtime(s) <= Mtime(c)) THEN Stamped(c, u) ELSE s

DeckOnClient(c, s, k, u) ==
    IF Fresh(s, k) /\ (~Present(c) \/ Mtime(c) <= Mtime(s)) THEN s
    ELSE IF Pending(c) THEN Stamped(c, u) ELSE c

ChunkReceived(o, c, s, k) ==
    IF /\ Fresh(s, k)
       /\ \/ ~Present(c)
          \/ o \notin Revlog /\ (c.usn # PendingUsn \/ Mtime(c) < Mtime(s))
    THEN s ELSE c

ChunkOnClient(o, c, s, k, u) ==
    LET r == ChunkReceived(o, c, s, k)
    IN  IF Pending(r) THEN Stamped(r, u) ELSE r

ChunkOnServer(o, c, s, k, u) ==
    LET r == ChunkReceived(o, c, s, k)
    IN  IF /\ Pending(r)
           /\ \/ ~Present(s)
              \/ o \notin Revlog /\ (~(s.usn >= k) \/ Mtime(s) < Mtime(r))
        THEN Stamped(r, u) ELSE s

OnClient(o, c, s, k, u) ==
    IF o \in Decks THEN DeckOnClient(c, s, k, u) ELSE ChunkOnClient(o, c, s, k, u)

OnServer(o, c, s, k, u) ==
    IF o \in Decks THEN DeckOnServer(c, s, u) ELSE ChunkOnServer(o, c, s, k, u)

(* Pending graves take the usn of the session.                             *)
LEMMA StampGravesType ==
    ASSUME NEW col \in Collection, NEW usn \in Nat
    PROVE  LET new == StampGraves(col, usn)
           IN  /\ new \in Collection /\ SameHead(new, col) /\ new.conf = col.conf
               /\ new.row = col.row
               /\ \A o \in Objs :
                    new.grave[o] = IF col.grave[o] = PendingUsn THEN usn ELSE col.grave[o]
<1> DEFINE g == [o \in Objs |-> IF col.grave[o] = PendingUsn THEN usn ELSE col.grave[o]]
<1>1. g \in [Objs -> Int]
  BY DEF Collection
<1>2. StampGraves(col, usn) = [col EXCEPT !.grave = g]
  BY DEF StampGraves
<1>3. LET new == [col EXCEPT !.grave = g]
      IN  /\ new \in Collection /\ SameHead(new, col) /\ new.conf = col.conf
          /\ new.row = col.row /\ new.grave = g
  <2> HIDE DEF g
  <2> QED  BY <1>1, SetGrave DEF SameHead
<1> QED
  BY <1>2, <1>3

(* Rows that are sent take the new usn (maybe_update_object_usns).         *)
LEMMA StampRowsType ==
    ASSUME NEW col \in Collection, NEW ids, NEW usn \in Nat
    PROVE  LET new == StampRows(col, ids, usn)
           IN  /\ new \in Collection /\ SameHead(new, col) /\ new.conf = col.conf
               /\ new.grave = col.grave
               /\ \A o \in Objs :
                    new.row[o] = IF o \in ids THEN Stamped(col.row[o], usn) ELSE col.row[o]
<1> DEFINE f == [o \in Objs |-> IF o \in ids THEN StampRow(col.row[o], usn) ELSE col.row[o]]
<1>1. \A o \in Objs : col.row[o] \in Row
  BY DEF Collection
<1>2. f \in [Objs -> Row]
  BY <1>1, RowConstants
<1>3. StampRows(col, ids, usn) = [col EXCEPT !.row = f]
  BY DEF StampRows
<1>4. LET new == [col EXCEPT !.row = f]
      IN  /\ new \in Collection /\ SameHead(new, col) /\ new.conf = col.conf
          /\ new.grave = col.grave /\ new.row = f
  <2> HIDE DEF f
  <2> QED  BY <1>2, SetRow DEF SameHead
<1> QED
  BY <1>1, <1>3, <1>4, RowConstants DEF Stamped

(* What merging decks does to each row.                                    *)
LEMMA MergeUnchunkedType ==
    ASSUME NEW col \in Collection, NEW ids \in SUBSET Objs, NEW src \in Collection
    PROVE  LET new == MergeUnchunked(col, SentRows(src, ids))
           IN  /\ new \in Collection /\ SameHead(new, col) /\ new.conf = col.conf
               /\ new.grave = col.grave
               /\ \A o \in Objs :
                    new.row[o] = IF o \in ids /\ TakesUnchunked(col.row[o], src.row[o])
                                 THEN src.row[o] ELSE col.row[o]
<1> DEFINE entries == SentRows(src, ids)
           f == [o \in Objs |->
                   IF o \in DOMAIN entries /\ TakesUnchunked(col.row[o], entries[o])
                   THEN entries[o] ELSE col.row[o]]
<1>1. DOMAIN entries = ids /\ \A o \in ids : entries[o] = src.row[o]
  BY DEF SentRows
<1>2. f \in [Objs -> Row]
  <2> HIDE DEF entries
  <2> QED  BY <1>1 DEF Collection
<1>3. MergeUnchunked(col, entries) = [col EXCEPT !.row = f]
  BY DEF MergeUnchunked
<1>4. LET new == [col EXCEPT !.row = f]
      IN  /\ new \in Collection /\ SameHead(new, col) /\ new.conf = col.conf
          /\ new.grave = col.grave /\ new.row = f
  <2> HIDE DEF f
  <2> QED  BY <1>2, SetRow DEF SameHead
<1> QED
  BY <1>1, <1>3, <1>4

(* What merging a chunk does to each row.                                  *)
LEMMA MergeChunkType ==
    ASSUME NEW col \in Collection, NEW ids \in SUBSET Objs, NEW src \in Collection,
           NEW pending
    PROVE  LET new == MergeChunk(col, SentRows(src, ids), pending)
           IN  /\ new \in Collection /\ SameHead(new, col) /\ new.conf = col.conf
               /\ new.grave = col.grave
               /\ \A o \in Objs :
                    new.row[o] =
                      IF o \in ids /\ TakesChunked(o, col.row[o], src.row[o], pending)
                      THEN src.row[o] ELSE col.row[o]
<1> DEFINE entries == SentRows(src, ids)
           f == [o \in Objs |->
                   IF o \in DOMAIN entries /\ TakesChunked(o, col.row[o], entries[o], pending)
                   THEN entries[o] ELSE col.row[o]]
<1>1. DOMAIN entries = ids /\ \A o \in ids : entries[o] = src.row[o]
  BY DEF SentRows
<1>2. f \in [Objs -> Row]
  <2> HIDE DEF entries
  <2> QED  BY <1>1 DEF Collection
<1>3. MergeChunk(col, entries, pending) = [col EXCEPT !.row = f]
  BY DEF MergeChunk
<1>4. LET new == [col EXCEPT !.row = f]
      IN  /\ new \in Collection /\ SameHead(new, col) /\ new.conf = col.conf
          /\ new.grave = col.grave /\ new.row = f
  <2> HIDE DEF f
  <2> QED  BY <1>2, SetRow DEF SameHead
<1> QED
  BY <1>1, <1>3, <1>4

(* Which rows and graves are pending.                                      *)
LEMMA PendingSets ==
    ASSUME NEW col \in Collection, NEW k \in Nat, NEW ids \in SUBSET Objs
    PROVE  /\ PendingRows(col, PendingUsn, ids) = {o \in ids : Pending(col.row[o])}
           /\ PendingRows(col, k, ids) = {o \in ids : Fresh(col.row[o], k)}
           /\ PendingGraves(col, PendingUsn) = {o \in Objs : col.grave[o] = PendingUsn}
           /\ PendingGraves(col, k) =
                {o \in Objs : col.grave[o] # NoGrave /\ col.grave[o] >= k}
  BY DEF PendingRows, PendingGraves, IsPendingSync, Pending, Fresh, PendingUsn, NoGrave

-----------------------------------------------------------------------------
(* The stages of a session, object by object.                              *)
ConfOK(cl, sv) == NewerConf(cl, sv) \in 0..MaxEdits

(* The configuration that a session keeps is one of the two.               *)
LEMMA NewerConfType ==
    ASSUME NEW cl \in Collection, NEW sv \in Collection
    PROVE  ConfOK(cl, sv)
  BY DEF ConfOK, NewerConf, Collection

(* Deletions: the graves and rows after apply_graves on either side.       *)
LEMMA DeletedByObject ==
    ASSUME NEW cl \in Collection, NEW sv \in Collection
    PROVE  LET c1 == ClientDeleted(cl, sv)
               s1 == ServerDeleted(cl, sv)
           IN  /\ c1 \in Collection /\ SameHead(c1, cl)
               /\ s1 \in Collection /\ SameHead(s1, sv)
               /\ \A o \in Objs :
                    LET sent == cl.grave[o] = PendingUsn
                        recv == sv.grave[o] # NoGrave /\ sv.grave[o] >= cl.usn
                        g    == IF sent THEN sv.usn ELSE cl.grave[o]
                    IN  /\ c1.row[o] = IF recv THEN Absent ELSE cl.row[o]
                        /\ c1.grave[o] = IF recv THEN AddGrave(g, sv.usn) ELSE g
                        /\ s1.row[o] = IF sent THEN Absent ELSE sv.row[o]
                        /\ s1.grave[o] = IF sent THEN AddGrave(sv.grave[o], sv.usn)
                                         ELSE sv.grave[o]
<1>1. cl.usn \in Nat /\ sv.usn \in Nat
  BY DEF Collection
<1>2. /\ PendingGraves(cl, PendingUsn) = {o \in Objs : cl.grave[o] = PendingUsn}
      /\ PendingGraves(sv, cl.usn) =
            {o \in Objs : sv.grave[o] # NoGrave /\ sv.grave[o] >= cl.usn}
  BY <1>1, PendingSets
<1>3. LET new == StampGraves(cl, sv.usn)
      IN  /\ new \in Collection /\ SameHead(new, cl) /\ new.row = cl.row
          /\ \A o \in Objs : new.grave[o] = IF cl.grave[o] = PendingUsn
                                            THEN sv.usn ELSE cl.grave[o]
  BY <1>1, StampGravesType
<1> QED
  BY <1>1, <1>2, <1>3, ApplyGravesType DEF ClientDeleted, ServerDeleted, SameHead

(* Decks are exchanged at once; chunked rows stay as they are.             *)
LEMMA UnchunkedByObject ==
    ASSUME NEW cl \in Collection, NEW sv \in Collection
    PROVE  LET c1 == ClientDeleted(cl, sv)
               s1 == ServerDeleted(cl, sv)
               c2 == ClientUnchunked(cl, sv)
               s2 == ServerUnchunked(cl, sv)
           IN  /\ c2 \in Collection /\ SameHead(c2, cl)
               /\ s2 \in Collection /\ SameHead(s2, sv)
               /\ c2.conf = NewerConf(cl, sv) /\ s2.conf = NewerConf(cl, sv)
               /\ c2.grave = c1.grave /\ s2.grave = s1.grave
               /\ \A o \in Objs :
                    IF o \in Decks
                    THEN /\ c2.row[o] = DeckOnClient(c1.row[o], s1.row[o], cl.usn, sv.usn)
                         /\ s2.row[o] = DeckOnServer(c1.row[o], s1.row[o], sv.usn)
                    ELSE c2.row[o] = c1.row[o] /\ s2.row[o] = s1.row[o]
<1> DEFINE c1   == ClientDeleted(cl, sv)
           s1   == ServerDeleted(cl, sv)
           sent == PendingRows(c1, PendingUsn, Decks)
           recv == PendingRows(s1, cl.usn, Decks)
           st   == StampRows(c1, sent, sv.usn)
           cm   == MergeUnchunked(st, SentRows(s1, recv))
           sm   == MergeUnchunked(s1, SentRows(st, sent))
<1>1. cl.usn \in Nat /\ sv.usn \in Nat /\ NewerConf(cl, sv) \in 0..MaxEdits
  BY NewerConfType DEF Collection, ConfOK
<1>2. /\ c1 \in Collection /\ SameHead(c1, cl)
      /\ s1 \in Collection /\ SameHead(s1, sv)
  BY DeletedByObject
<1>3. Decks \subseteq Objs
  BY DEF Objs
<1>4. /\ sent = {o \in Decks : Pending(c1.row[o])}
      /\ recv = {o \in Decks : Fresh(s1.row[o], cl.usn)}
  BY <1>1, <1>2, <1>3, PendingSets
<1>5. sent \subseteq Objs /\ recv \subseteq Objs
  BY <1>3, <1>4
<1>6. /\ st \in Collection /\ SameHead(st, c1) /\ st.grave = c1.grave
      /\ \A o \in Objs : st.row[o] = IF o \in sent THEN Stamped(c1.row[o], sv.usn)
                                     ELSE c1.row[o]
  <2> HIDE DEF sent, c1
  <2> QED  BY <1>1, <1>2, StampRowsType
<1>7. /\ cm \in Collection /\ SameHead(cm, st) /\ cm.grave = st.grave
      /\ \A o \in Objs :
            cm.row[o] = IF o \in recv /\ TakesUnchunked(st.row[o], s1.row[o])
                        THEN s1.row[o] ELSE st.row[o]
  <2> HIDE DEF recv, st, s1
  <2> QED  BY <1>2, <1>5, <1>6, MergeUnchunkedType
<1>8. /\ sm \in Collection /\ SameHead(sm, s1) /\ sm.grave = s1.grave
      /\ \A o \in Objs :
            sm.row[o] = IF o \in sent /\ TakesUnchunked(s1.row[o], st.row[o])
                        THEN st.row[o] ELSE s1.row[o]
  <2> HIDE DEF sent, st, s1
  <2> QED  BY <1>2, <1>5, <1>6, MergeUnchunkedType
<1>9. /\ ClientUnchunked(cl, sv) = [cm EXCEPT !.conf = NewerConf(cl, sv)]
      /\ ServerUnchunked(cl, sv) = [sm EXCEPT !.conf = NewerConf(cl, sv)]
  BY DEF ClientUnchunked, ServerUnchunked
<1>10. LET c2 == ClientUnchunked(cl, sv)
       IN  /\ c2 \in Collection /\ SameHead(c2, cm) /\ c2.conf = NewerConf(cl, sv)
           /\ c2.row = cm.row /\ c2.grave = cm.grave
  <2> HIDE DEF cm
  <2> QED  BY <1>1, <1>7, <1>9, SetConf DEF SameHead
<1>11. LET s2 == ServerUnchunked(cl, sv)
       IN  /\ s2 \in Collection /\ SameHead(s2, sm) /\ s2.conf = NewerConf(cl, sv)
           /\ s2.row = sm.row /\ s2.grave = sm.grave
  <2> HIDE DEF sm
  <2> QED  BY <1>1, <1>8, <1>9, SetConf DEF SameHead
<1>12. ASSUME NEW o \in Decks
       PROVE  /\ cm.row[o] = DeckOnClient(c1.row[o], s1.row[o], cl.usn, sv.usn)
              /\ sm.row[o] = DeckOnServer(c1.row[o], s1.row[o], sv.usn)
  <2>1. o \in Objs /\ (o \in sent <=> Pending(c1.row[o]))
        /\ (o \in recv <=> Fresh(s1.row[o], cl.usn))
    BY <1>3, <1>4
  <2>2. \A row : /\ TakesUnchunked(Stamped(c1.row[o], sv.usn), row) <=> TakesUnchunked(c1.row[o], row)
                 /\ TakesUnchunked(row, Stamped(c1.row[o], sv.usn)) <=> TakesUnchunked(row, c1.row[o])
    BY DEF TakesUnchunked, Stamped, Present, Mtime
  <2> HIDE DEF sent, recv, st, cm, sm, c1, s1
  <2>3. cm.row[o] = DeckOnClient(c1.row[o], s1.row[o], cl.usn, sv.usn)
    BY <1>6, <1>7, <2>1, <2>2 DEF DeckOnClient, TakesUnchunked
  <2>4. sm.row[o] = DeckOnServer(c1.row[o], s1.row[o], sv.usn)
    BY <1>6, <1>8, <2>1, <2>2 DEF DeckOnServer, TakesUnchunked
  <2> QED  BY <2>3, <2>4
<1>13. ASSUME NEW o \in Objs, o \notin Decks
       PROVE  cm.row[o] = c1.row[o] /\ sm.row[o] = s1.row[o]
  <2>1. o \notin sent /\ o \notin recv
    BY <1>4, <1>13
  <2> HIDE DEF sent, recv, st, cm, sm, c1, s1
  <2> QED  BY <1>6, <1>7, <1>8, <2>1
<1> HIDE DEF cm, sm, st, c1, s1
<1> QED
  BY <1>2, <1>6, <1>7, <1>8, <1>10, <1>11, <1>12, <1>13 DEF SameHead, c1, s1

(* The two collections after the whole session.                            *)
LEMMA MergedByObject ==
    ASSUME NEW cl \in Collection, NEW sv \in Collection
    PROVE  LET c1 == ClientDeleted(cl, sv)
               s1 == ServerDeleted(cl, sv)
               cm == ClientMerged(cl, sv)
               sm == ServerMerged(cl, sv)
           IN  /\ cm \in Collection /\ SameHead(cm, cl)
               /\ sm \in Collection /\ SameHead(sm, sv)
               /\ cm.conf = sm.conf
               /\ cm.grave = c1.grave /\ sm.grave = s1.grave
               /\ \A o \in Objs :
                    /\ cm.row[o] = OnClient(o, c1.row[o], s1.row[o], cl.usn, sv.usn)
                    /\ sm.row[o] = OnServer(o, c1.row[o], s1.row[o], cl.usn, sv.usn)
<1> DEFINE c1   == ClientDeleted(cl, sv)
           s1   == ServerDeleted(cl, sv)
           c2   == ClientUnchunked(cl, sv)
           s2   == ServerUnchunked(cl, sv)
           recv == PendingRows(s2, cl.usn, Chunked)
           c4   == ClientReceived(cl, sv)
           sent == PendingRows(c4, PendingUsn, Chunked)
           cm   == ClientMerged(cl, sv)
           sm   == ServerMerged(cl, sv)
<1>1. cl.usn \in Nat /\ sv.usn \in Nat /\ cl.usn # PendingUsn
  BY DEF Collection, PendingUsn
<1>2. /\ c2 \in Collection /\ SameHead(c2, cl)
      /\ s2 \in Collection /\ SameHead(s2, sv)
      /\ c2.conf = s2.conf
      /\ c2.grave = c1.grave /\ s2.grave = s1.grave
      /\ \A o \in Objs :
           IF o \in Decks
           THEN /\ c2.row[o] = DeckOnClient(c1.row[o], s1.row[o], cl.usn, sv.usn)
                /\ s2.row[o] = DeckOnServer(c1.row[o], s1.row[o], sv.usn)
           ELSE c2.row[o] = c1.row[o] /\ s2.row[o] = s1.row[o]
  <2>1. c2.conf = NewerConf(cl, sv) /\ s2.conf = NewerConf(cl, sv)
    BY UnchunkedByObject, Zenon
  <2>2. /\ c2 \in Collection /\ SameHead(c2, cl)
        /\ s2 \in Collection /\ SameHead(s2, sv)
        /\ c2.grave = c1.grave /\ s2.grave = s1.grave
    BY UnchunkedByObject, Zenon
  <2>3. \A o \in Objs :
           IF o \in Decks
           THEN /\ c2.row[o] = DeckOnClient(c1.row[o], s1.row[o], cl.usn, sv.usn)
                /\ s2.row[o] = DeckOnServer(c1.row[o], s1.row[o], sv.usn)
           ELSE c2.row[o] = c1.row[o] /\ s2.row[o] = s1.row[o]
    BY UnchunkedByObject, Zenon
  <2> HIDE DEF c1, s1, c2, s2
  <2> QED  BY <2>1, <2>2, <2>3
<1>3. Chunked \subseteq Objs
  BY DEF Objs
<1>4. recv = {o \in Chunked : Fresh(s2.row[o], cl.usn)} /\ recv \subseteq Objs
  <2> HIDE DEF s2
  <2> QED  BY <1>1, <1>2, <1>3, PendingSets
<1>5. /\ c4 \in Collection /\ SameHead(c4, c2) /\ c4.conf = c2.conf /\ c4.grave = c2.grave
      /\ \A o \in Objs :
           c4.row[o] = IF o \in recv /\ TakesChunked(o, c2.row[o], s2.row[o], PendingUsn)
                       THEN s2.row[o] ELSE c2.row[o]
  <2>1. c4 = MergeChunk(c2, SentRows(s2, recv), PendingUsn)
    BY DEF ClientReceived
  <2> HIDE DEF c2, s2, recv, c4
  <2> QED  BY <1>2, <1>4, <2>1, MergeChunkType
<1>6. sent = {o \in Chunked : Pending(c4.row[o])} /\ sent \subseteq Objs
  <2> HIDE DEF c4
  <2> QED  BY <1>1, <1>3, <1>5, PendingSets
<1>7. /\ cm \in Collection /\ SameHead(cm, c4) /\ cm.conf = c4.conf /\ cm.grave = c4.grave
      /\ \A o \in Objs : cm.row[o] = IF o \in sent THEN Stamped(c4.row[o], sv.usn)
                                     ELSE c4.row[o]
  <2>1. cm = StampRows(c4, sent, sv.usn)
    BY DEF ClientMerged
  <2> HIDE DEF c4, sent, cm
  <2> QED  BY <1>1, <1>5, <2>1, StampRowsType
<1>8. /\ sm \in Collection /\ SameHead(sm, s2) /\ sm.conf = s2.conf /\ sm.grave = s2.grave
      /\ \A o \in Objs :
           sm.row[o] = IF o \in sent /\ TakesChunked(o, s2.row[o], cm.row[o], cl.usn)
                       THEN cm.row[o] ELSE s2.row[o]
  <2>1. sm = MergeChunk(s2, SentRows(cm, sent), cl.usn)
    BY DEF ServerMerged
  <2>2. s2 \in Collection /\ cm \in Collection /\ sent \in SUBSET Objs
    BY <1>2, <1>6, <1>7
  <2> HIDE DEF s2, sent, cm, sm
  <2> DEFINE k == cl.usn
  <2>3. sm = MergeChunk(s2, SentRows(cm, sent), k)
    BY <2>1
  <2> HIDE DEF k
  <2>4. LET new == MergeChunk(s2, SentRows(cm, sent), k)
        IN  /\ new \in Collection /\ SameHead(new, s2) /\ new.conf = s2.conf
            /\ new.grave = s2.grave
            /\ \A o \in Objs :
                 new.row[o] = IF o \in sent /\ TakesChunked(o, s2.row[o], cm.row[o], k)
                              THEN cm.row[o] ELSE s2.row[o]
    BY <2>2, MergeChunkType
  <2> QED  BY <2>3, <2>4 DEF k
<1> HIDE DEF c2, s2, recv, c4, sent, cm, sm, c1, s1
<1>9. ASSUME NEW o \in Decks
      PROVE  /\ cm.row[o] = OnClient(o, c1.row[o], s1.row[o], cl.usn, sv.usn)
             /\ sm.row[o] = OnServer(o, c1.row[o], s1.row[o], cl.usn, sv.usn)
  <2>1. o \in Objs /\ o \notin Chunked
    BY IdsApart DEF Objs
  <2>2. o \notin recv /\ o \notin sent
    BY <1>4, <1>6, <2>1
  <2> QED  BY <1>2, <1>5, <1>7, <1>8, <2>1, <2>2 DEF OnClient, OnServer
<1>10. ASSUME NEW o \in Objs, o \notin Decks
       PROVE  /\ cm.row[o] = OnClient(o, c1.row[o], s1.row[o], cl.usn, sv.usn)
              /\ sm.row[o] = OnServer(o, c1.row[o], s1.row[o], cl.usn, sv.usn)
  <2>1. o \in Chunked /\ c2.row[o] = c1.row[o] /\ s2.row[o] = s1.row[o]
    BY <1>2, <1>10 DEF Objs
  <2>2. c4.row[o] = ChunkReceived(o, c1.row[o], s1.row[o], cl.usn)
    BY <1>4, <1>5, <2>1 DEF ChunkReceived, TakesChunked, IsPendingSync
  <2>3. cm.row[o] = ChunkOnClient(o, c1.row[o], s1.row[o], cl.usn, sv.usn)
    BY <1>6, <1>7, <2>1, <2>2 DEF ChunkOnClient
  <2>4. o \in sent <=> Pending(c4.row[o])
    BY <1>6, <2>1
  <2>5. o \in sent => cm.row[o] = Stamped(c4.row[o], sv.usn)
                      /\ Mtime(cm.row[o]) = Mtime(c4.row[o])
    BY <1>7 DEF Stamped, Mtime
  <2>6. o \in sent =>
          (TakesChunked(o, s2.row[o], cm.row[o], cl.usn) <=>
             \/ ~Present(s1.row[o])
             \/ o \notin Revlog /\ (~(s1.row[o].usn >= cl.usn)
                                    \/ Mtime(s1.row[o]) < Mtime(c4.row[o])))
    BY <1>1, <2>1, <2>5 DEF TakesChunked, IsPendingSync
  <2>7. sm.row[o] = ChunkOnServer(o, c1.row[o], s1.row[o], cl.usn, sv.usn)
    BY <1>8, <2>1, <2>2, <2>4, <2>5, <2>6 DEF ChunkOnServer
  <2> QED  BY <1>10, <2>3, <2>7 DEF OnClient, OnServer
<1> QED
  BY <1>2, <1>5, <1>7, <1>8, <1>9, <1>10 DEF SameHead, c1, s1, cm, sm

-----------------------------------------------------------------------------
(* What a session does to one object of a client and a server that stand   *)
(* in the invariant's relation.                                            *)

(* The server's side of an object, old and new: what changed has the usn   *)
(* of this session, graves stay, and where clocks agree the content never  *)
(* gets older.                                                             *)
Advances(old, new, o, u) ==
    /\ \/ new.row[o] = old.row[o]
       \/ Present(new.row[o]) /\ new.row[o].usn = u
       \/ new.row[o] = Absent /\ new.grave[o] = u
    /\ new.grave[o] = old.grave[o] \/ (old.grave[o] = NoGrave /\ new.grave[o] = u)
    /\ ClocksAgree /\ Present(new.row[o]) => old.row[o].ed <= new.row[o].ed

(* GoodObj, with the bound on usns as a parameter.                         *)
Sound(col, o, u) ==
    /\ col.row[o].usn >= 0 /\ col.row[o].usn <= u
    /\ col.grave[o] = NoGrave \/ (col.grave[o] >= 0 /\ col.grave[o] <= u)
    /\ col.row[o].ed <= edits
    /\ ~Present(col.row[o]) => col.row[o] = Absent
    /\ col.grave[o] # NoGrave => ~Present(col.row[o])
    /\ Present(col.row[o]) \/ col.grave[o] # NoGrave => born[o] # 0
    /\ o \in Revlog /\ Present(col.row[o]) => col.row[o].ed = born[o]

(* Where clocks agree, mtimes order edits as they were made.               *)
LEMMA StampOrder ==
    ASSUME NEW o \in Objs, NEW d \in 0..MaxEdits, NEW e \in 0..MaxEdits
    PROVE  /\ Stamp[d] \in Nat /\ Stamp[e] \in Nat
           /\ ClocksAgree => (Stamp[d] < Stamp[e] <=> d < e)
           /\ ClocksAgree => (Stamp[d] <= Stamp[e] <=> d <= e)
           /\ Exact(o) /\ Stamp[d] = Stamp[e] => d = e
<1>1. /\ Stamp[d] \in Nat /\ Stamp[e] \in Nat
      /\ ClocksAgree => (Stamp[d] < Stamp[e] <=> d < e)
      /\ ClocksAgree => (Stamp[d] <= Stamp[e] <=> d <= e)
  BY Bounds DEF ClocksAgree
<1> QED
  BY <1>1, Bounds DEF Exact, StampsDiffer

(* A row that neither side deleted: both sides have it in the end, or      *)
(* neither, and the later edit where mtimes tell which one that is.        *)
LEMMA MergeRows ==
    ASSUME NEW o \in Objs, NEW k \in Nat, NEW u \in Nat, k <= u,
           NEW c \in Row, NEW s \in Row,
           c.usn >= PendingUsn, c.usn <= u, s.usn >= 0, s.usn <= u,
           ~Present(c) => c = Absent, ~Present(s) => s = Absent,
           o \in Revlog /\ Present(c) /\ Present(s) => c.ed = s.ed,
           \/ (Present(c) <=> Present(s)) /\ (Exact(o) => c.ed = s.ed)
           \/ Pending(c) \/ Fresh(s, k),
           ClocksAgree /\ Present(c) /\ Present(s) =>
             IF c.usn = PendingUsn THEN s.usn < k => s.ed <= c.ed ELSE c.ed <= s.ed
    PROVE  LET cm == OnClient(o, c, s, k, u)
               sm == OnServer(o, c, s, k, u)
           IN  /\ cm \in Row /\ sm \in Row
               /\ Present(cm) <=> Present(sm)
               /\ Exact(o) => cm.ed = sm.ed
               /\ ClocksAgree => sm.ed = Later(c, s)
               /\ cm.usn >= 0 /\ cm.usn <= u /\ sm.usn >= 0 /\ sm.usn <= u
               /\ ~Present(cm) => cm = Absent
               /\ ~Present(sm) => sm = Absent
               /\ sm = s \/ (Present(sm) /\ sm.usn = u)
               /\ cm.ed \in {c.ed, s.ed} /\ sm.ed \in {c.ed, s.ed}
<1> DEFINE cm == OnClient(o, c, s, k, u)
           sm == OnServer(o, c, s, k, u)
           C  == ClocksAgree
           X  == Exact(o)
           mc == Mtime(c)
           ms == Mtime(s)
<1>1. /\ c.ed \in 0..MaxEdits /\ c.usn \in Int
      /\ s.ed \in 0..MaxEdits /\ s.usn \in Int
      /\ PendingUsn = -1 /\ Absent = [ed |-> 0, usn |-> 0]
  BY DEF Row, PendingUsn, Absent
<1>2. /\ mc \in Nat /\ ms \in Nat
      /\ C => (mc < ms <=> c.ed < s.ed) /\ (mc <= ms <=> c.ed <= s.ed)
      /\ C => (ms < mc <=> s.ed < c.ed) /\ (ms <= mc <=> s.ed <= c.ed)
      /\ X /\ mc = ms => c.ed = s.ed
  BY <1>1, StampOrder DEF Mtime
<1>3. /\ Stamped(c, u) = [ed |-> c.ed, usn |-> u]
      /\ Stamped(c, u) \in Row /\ Stamped(s, u) \in Row
      /\ Stamped(c, u).ed = c.ed /\ Stamped(c, u).usn = u
      /\ Stamped(s, u).ed = s.ed /\ Stamped(s, u).usn = u
  BY <1>1 DEF Stamped, Row
<1>4. Later(c, s) = IF c.ed < s.ed THEN s.ed ELSE c.ed
  BY DEF Later
<1>5. /\ Present(c) <=> c.ed # 0
      /\ Present(s) <=> s.ed # 0
      /\ Pending(c) <=> c.ed # 0 /\ c.usn = -1
      /\ Fresh(s, k) <=> s.ed # 0 /\ s.usn >= k
      /\ c.ed = 0 => c.usn = 0
      /\ s.ed = 0 => s.usn = 0
      /\ c.ed = 0 /\ s.ed = 0 => c = s
  BY <1>1 DEF Present, Pending, Fresh
<1>6. /\ o \in Revlog /\ c.ed # 0 /\ s.ed # 0 => c.ed = s.ed
      /\ \/ (c.ed # 0 <=> s.ed # 0) /\ (X => c.ed = s.ed)
         \/ c.ed # 0 /\ c.usn = -1
         \/ s.ed # 0 /\ s.usn >= k
      /\ C /\ c.ed # 0 /\ s.ed # 0 =>
           IF c.usn = -1 THEN s.usn < k => s.ed <= c.ed ELSE c.ed <= s.ed
  BY <1>1, <1>5
<1>7. X <=> C \/ (StampsDiffer /\ o \notin Decks)
  BY IdsApart DEF Exact, Objs
(* The three ways in which a side ends.                                    *)
<1> DEFINE Goal ==
      /\ cm \in Row /\ sm \in Row
      /\ cm.ed # 0 <=> sm.ed # 0
      /\ X => cm.ed = sm.ed
      /\ C => sm.ed = IF c.ed < s.ed THEN s.ed ELSE c.ed
      /\ cm.usn >= 0 /\ cm.usn <= u /\ sm.usn >= 0 /\ sm.usn <= u
      /\ cm.ed = 0 => cm = Absent
      /\ sm.ed = 0 => sm = Absent
      /\ sm = s \/ (sm.ed # 0 /\ sm.usn = u)
      /\ cm.ed \in {c.ed, s.ed} /\ sm.ed \in {c.ed, s.ed}
<1> SUFFICES Goal
  BY <1>4 DEF Present
<1>8. ASSUME cm \in {s, c, Stamped(c, u)}, sm \in {s, Stamped(c, u)},
             cm = c => c.usn # -1 \/ c.ed = 0, sm # s => c.ed # 0,
             cm # c /\ cm # s => c.ed # 0,
             (IF cm = s THEN s.ed ELSE c.ed) # 0 <=> (IF sm = s THEN s.ed ELSE c.ed) # 0,
             X => (IF cm = s THEN s.ed ELSE c.ed) = (IF sm = s THEN s.ed ELSE c.ed),
             C => (IF sm = s THEN s.ed ELSE c.ed) = (IF c.ed < s.ed THEN s.ed ELSE c.ed)
      PROVE  Goal
  <2> HIDE DEF cm, sm, C, X
  <2> QED  BY <1>1, <1>3, <1>5, <1>8
<1>9. CASE o \in Decks
  <2>1. /\ cm = IF s.ed # 0 /\ s.usn >= k /\ (c.ed = 0 \/ mc <= ms) THEN s
                ELSE IF c.ed # 0 /\ c.usn = -1 THEN Stamped(c, u) ELSE c
        /\ sm = IF c.ed # 0 /\ c.usn = -1 /\ (s.ed = 0 \/ ms <= mc)
                THEN Stamped(c, u) ELSE s
    BY <1>1, <1>5, <1>9
       DEF OnClient, OnServer, DeckOnClient, DeckOnServer
  <2> HIDE DEF cm, sm, C, X, mc, ms, Goal
  <2> QED  BY <1>1, <1>2, <1>3, <1>5, <1>6, <1>7, <1>8, <1>9, <2>1
<1>10. CASE o \notin Decks
  <2> DEFINE r == ChunkReceived(o, c, s, k)
  <2>1. r = IF s.ed # 0 /\ s.usn >= k
               /\ (c.ed = 0 \/ (o \notin Revlog /\ (c.usn # -1 \/ mc < ms)))
            THEN s ELSE c
    BY <1>1, <1>5 DEF ChunkReceived
  <2>2. /\ cm = IF Present(r) /\ r.usn = -1 THEN Stamped(r, u) ELSE r
        /\ sm = IF /\ Present(r) /\ r.usn = -1
                   /\ \/ ~Present(s)
                      \/ o \notin Revlog /\ (~(s.usn >= k) \/ Mtime(s) < Mtime(r))
                THEN Stamped(r, u) ELSE s
    BY <1>1, <1>10 DEF OnClient, OnServer, ChunkOnClient, ChunkOnServer, Pending
  <2>3. CASE r = s
    <3>1. cm = s /\ sm = s
      BY <1>1, <2>2, <2>3
    <3>2. C => c.ed <= s.ed
      <4> HIDE DEF C, mc, ms, r
      <4> QED  BY <1>1, <1>2, <1>5, <1>6, <2>1, <2>3
    <3> HIDE DEF cm, sm, C, X, Goal
    <3> QED  BY <1>1, <1>5, <1>8, <3>1, <3>2
  <2>4. CASE r # s
    <3>1. r = c
      BY <2>1, <2>4
    <3>2. /\ cm = IF c.ed # 0 /\ c.usn = -1 THEN Stamped(c, u) ELSE c
          /\ sm = IF /\ c.ed # 0 /\ c.usn = -1
                     /\ \/ s.ed = 0
                        \/ o \notin Revlog /\ (~(s.usn >= k) \/ ms < mc)
                  THEN Stamped(c, u) ELSE s
      BY <1>5, <2>2, <3>1
    <3>3. ~(s.ed # 0 /\ s.usn >= k
               /\ (c.ed = 0 \/ (o \notin Revlog /\ (c.usn # -1 \/ mc < ms))))
      BY <2>1, <2>4
    <3> HIDE DEF cm, sm, C, X, mc, ms, Goal
    <3> QED  BY <1>1, <1>2, <1>3, <1>5, <1>6, <1>7, <1>8, <3>2, <3>3
  <2> QED  BY <2>3, <2>4
<1> QED
  BY <1>9, <1>10

(* A session leaves an object in step on both sides, deleted or not.       *)
LEMMA MergeObject ==
    ASSUME NEW cl \in Collection, NEW sv \in Collection, NEW o \in Objs,
           edits \in Nat, born \in [Objs -> Nat], cl.usn <= sv.usn,
           GoodObj(cl, o), GoodObj(sv, o), PairObj(cl, sv, o),
           sv.row[o].usn # PendingUsn, sv.grave[o] # PendingUsn
    PROVE  LET cm == ClientMerged(cl, sv)
               sm == ServerMerged(cl, sv)
               dead == cl.grave[o] = PendingUsn
                         \/ (sv.grave[o] # NoGrave /\ sv.grave[o] >= cl.usn)
           IN  /\ Sound(cm, o, sv.usn) /\ Sound(sm, o, sv.usn)
               /\ Advances(sv, sm, o, sv.usn)
               /\ Alike(cm, sm, o)
               /\ cm.grave[o] # NoGrave => sm.grave[o] # NoGrave
               /\ cl.grave[o] = PendingUsn => sm.grave[o] # NoGrave
               /\ ClocksAgree => sm.row[o].ed = IF dead THEN 0 ELSE Later(cl.row[o], sv.row[o])
<1> DEFINE C  == ClocksAgree
           X  == Exact(o)
           cm == ClientMerged(cl, sv)
           sm == ServerMerged(cl, sv)
           c  == ClientDeleted(cl, sv).row[o]
           s  == ServerDeleted(cl, sv).row[o]
           rc == cl.row[o]
           rs == sv.row[o]
           gc == cl.grave[o]
           gs == sv.grave[o]
           gm == ClientDeleted(cl, sv).grave[o]
           hm == ServerDeleted(cl, sv).grave[o]
           k  == cl.usn
           u  == sv.usn
           sent == gc = PendingUsn
           recv == gs # NoGrave /\ gs >= k
<1>1. /\ k \in Nat /\ u \in Nat /\ k <= u
      /\ rc \in Row /\ rs \in Row /\ gc \in Int /\ gs \in Int
      /\ PendingUsn = -1 /\ NoGrave = -2
  BY DEF Collection, PendingUsn, NoGrave
<1>2. /\ rc.ed \in 0..MaxEdits /\ rc.usn \in Int /\ rs.ed \in 0..MaxEdits /\ rs.usn \in Int
      /\ \A row \in Row : Present(row) <=> row.ed # 0
      /\ Absent \in Row /\ Absent.ed = 0 /\ Absent.usn = 0
      /\ born[o] \in Nat
  BY <1>1, RowConstants DEF Row, Present
<1>3. /\ c = IF recv THEN Absent ELSE rc
      /\ gm = LET g == IF sent THEN u ELSE gc IN IF recv THEN AddGrave(g, u) ELSE g
      /\ s = IF sent THEN Absent ELSE rs
      /\ hm = IF sent THEN AddGrave(gs, u) ELSE gs
  BY DeletedByObject
<1>4. /\ cm.row[o] = OnClient(o, c, s, k, u) /\ cm.grave[o] = gm
      /\ sm.row[o] = OnServer(o, c, s, k, u) /\ sm.grave[o] = hm
  BY MergedByObject
(* The hypotheses, in terms of numbers.                                    *)
<1>5. /\ rc.usn >= -1 /\ rc.usn < k /\ gc >= -2 /\ gc < k
      /\ rc.ed <= edits /\ (rc.ed = 0 => rc = Absent)
      /\ gc # -2 => rc.ed = 0
      /\ rc.ed # 0 \/ gc # -2 => born[o] # 0
      /\ o \in Revlog /\ rc.ed # 0 => rc.ed = born[o]
  BY <1>1, <1>2 DEF GoodObj
<1>6. /\ rs.usn >= 0 /\ rs.usn < u /\ (gs = -2 \/ gs >= 0) /\ gs < u
      /\ rs.ed <= edits /\ (rs.ed = 0 => rs = Absent)
      /\ gs # -2 => rs.ed = 0
      /\ rs.ed # 0 \/ gs # -2 => born[o] # 0
      /\ o \in Revlog /\ rs.ed # 0 => rs.ed = born[o]
  BY <1>1, <1>2 DEF GoodObj
<1>7. /\ \/ (rc.ed # 0 <=> rs.ed # 0) /\ (X => rc.ed = rs.ed)
         \/ gc = -1 \/ (rc.ed # 0 /\ rc.usn = -1)
         \/ (gs # -2 /\ gs >= k) \/ (rs.ed # 0 /\ rs.usn >= k)
      /\ gs # -2 /\ gs < k => rc.ed = 0
      /\ gc >= 0 => gs # -2
      /\ C /\ rc.ed # 0 /\ rs.ed # 0 =>
           IF rc.usn = -1 THEN rs.usn < k => rs.ed <= rc.ed ELSE rc.ed <= rs.ed
  BY <1>1, <1>2 DEF PairObj, Alike, SameRow, WillSend, WillReceive
<1> HIDE DEF C, X, cm, sm, c, s, rc, rs, gc, gs, gm, hm, k, u
<1>8. /\ gm = IF sent THEN u
              ELSE IF recv /\ gc = -2 THEN u ELSE gc
      /\ hm = IF sent /\ gs = -2 THEN u ELSE gs
  BY <1>1, <1>3 DEF AddGrave
<1>9. /\ c \in Row /\ s \in Row
      /\ c.ed = IF recv THEN 0 ELSE rc.ed
      /\ c.usn = IF recv THEN 0 ELSE rc.usn
      /\ s.ed = IF sent THEN 0 ELSE rs.ed
      /\ s.usn = IF sent THEN 0 ELSE rs.usn
      /\ c.ed = 0 => c = Absent
      /\ s.ed = 0 => s = Absent
  BY <1>1, <1>2, <1>3, <1>5, <1>6
<1>10. sent => c.ed = 0 /\ s.ed = 0
  BY <1>1, <1>5, <1>9
<1>11. recv => c.ed = 0 /\ s.ed = 0
  BY <1>1, <1>6, <1>9
<1>12. gm # -2 \/ hm # -2 => c.ed = 0 /\ s.ed = 0
  BY <1>1, <1>5, <1>6, <1>7, <1>8, <1>9, <1>10, <1>11
<1>13. /\ c.usn >= -1 /\ c.usn <= u /\ s.usn >= 0 /\ s.usn <= u
  BY <1>1, <1>2, <1>5, <1>6, <1>9
<1>14. /\ \/ (c.ed # 0 <=> s.ed # 0) /\ (X => c.ed = s.ed)
          \/ (c.ed # 0 /\ c.usn = -1) \/ (s.ed # 0 /\ s.usn >= k)
       /\ o \in Revlog /\ c.ed # 0 /\ s.ed # 0 => c.ed = s.ed
       /\ C /\ c.ed # 0 /\ s.ed # 0 =>
            IF c.usn = -1 THEN s.usn < k => s.ed <= c.ed ELSE c.ed <= s.ed
  BY <1>1, <1>2, <1>5, <1>6, <1>7, <1>9, <1>10, <1>11
<1>15. /\ \/ (Present(c) <=> Present(s)) /\ (X => c.ed = s.ed)
          \/ Pending(c) \/ Fresh(s, k)
       /\ o \in Revlog /\ Present(c) /\ Present(s) => c.ed = s.ed
       /\ C /\ Present(c) /\ Present(s) =>
            IF c.usn = PendingUsn THEN s.usn < k => s.ed <= c.ed ELSE c.ed <= s.ed
       /\ c.usn >= PendingUsn
       /\ ~Present(c) => c = Absent
       /\ ~Present(s) => s = Absent
  BY <1>1, <1>2, <1>9, <1>13, <1>14 DEF Pending, Fresh
<1>16. /\ cm.row[o] \in Row /\ sm.row[o] \in Row
       /\ Present(cm.row[o]) <=> Present(sm.row[o])
       /\ X => cm.row[o].ed = sm.row[o].ed
       /\ C => sm.row[o].ed = Later(c, s)
       /\ cm.row[o].usn >= 0 /\ cm.row[o].usn <= u
       /\ sm.row[o].usn >= 0 /\ sm.row[o].usn <= u
       /\ ~Present(cm.row[o]) => cm.row[o] = Absent
       /\ ~Present(sm.row[o]) => sm.row[o] = Absent
       /\ sm.row[o] = s \/ (Present(sm.row[o]) /\ sm.row[o].usn = u)
       /\ cm.row[o].ed \in {c.ed, s.ed} /\ sm.row[o].ed \in {c.ed, s.ed}
  BY <1>1, <1>4, <1>9, <1>13, <1>15, MergeRows DEF C, X
<1>17. Later(c, s) = IF c.ed < s.ed THEN s.ed ELSE c.ed
  BY DEF Later
<1>18. /\ cm.row[o].ed <= edits /\ cm.row[o].ed \in 0..MaxEdits
       /\ sm.row[o].ed <= edits /\ sm.row[o].ed \in 0..MaxEdits
  <2>1. c.ed <= edits /\ s.ed <= edits /\ c.ed \in 0..MaxEdits /\ s.ed \in 0..MaxEdits
    BY <1>2, <1>5, <1>6, <1>9, Bounds
  <2> QED  BY <1>16, <2>1
<1>19. /\ cm.row[o].ed # 0 \/ gm # -2 \/ hm # -2 => born[o] # 0
       /\ sm.row[o].ed # 0 => born[o] # 0
       /\ o \in Revlog /\ cm.row[o].ed # 0 => cm.row[o].ed = born[o]
       /\ o \in Revlog /\ sm.row[o].ed # 0 => sm.row[o].ed = born[o]
  BY <1>1, <1>5, <1>6, <1>8, <1>9, <1>16
<1>20. gm # -2 \/ hm # -2 => cm.row[o].ed = 0 /\ sm.row[o].ed = 0
  BY <1>12, <1>16
<1>21. /\ gm = -2 \/ (gm >= 0 /\ gm <= u)
       /\ hm = -2 \/ (hm >= 0 /\ hm <= u)
  BY <1>1, <1>5, <1>6, <1>8
<1>22. Sound(cm, o, u)
  BY <1>1, <1>2, <1>4, <1>16, <1>18, <1>19, <1>20, <1>21 DEF Sound
<1>23. Sound(sm, o, u)
  BY <1>1, <1>2, <1>4, <1>16, <1>18, <1>19, <1>20, <1>21 DEF Sound
<1>24. Advances(sv, sm, o, u)
  <2>1. \/ sm.row[o] = rs
        \/ Present(sm.row[o]) /\ sm.row[o].usn = u
        \/ sm.row[o] = Absent /\ hm = u
    <3>1. CASE sent /\ rs.ed # 0
      BY <1>1, <1>2, <1>6, <1>8, <1>10, <1>16, <3>1
    <3>2. CASE ~sent \/ rs.ed = 0
      BY <1>2, <1>3, <1>6, <1>9, <1>16, <3>2
    <3> QED  BY <3>1, <3>2
  <2>2. hm = gs \/ (gs = NoGrave /\ hm = u)
    BY <1>1, <1>8
  <2>3. C /\ Present(sm.row[o]) => rs.ed <= sm.row[o].ed
    <3>1. C => sm.row[o].ed = IF c.ed < s.ed THEN s.ed ELSE c.ed
      BY <1>16, <1>17
    <3>2. CASE sent
      BY <1>2, <1>10, <1>16, <3>1, <3>2
    <3>3. CASE ~sent
      <4>1. rs.ed = s.ed
        BY <1>9, <3>3
      <4> QED  BY <1>2, <1>9, <3>1, <4>1 DEF Row
    <3> QED  BY <3>2, <3>3
  <2> QED  BY <1>4, <2>1, <2>2, <2>3 DEF Advances, rs, gs, C
<1>25. (gm # NoGrave => hm # NoGrave) /\ (sent => hm # NoGrave)
  BY <1>1, <1>5, <1>6, <1>7, <1>8
<1>26. C => sm.row[o].ed = IF sent \/ recv THEN 0 ELSE Later(rc, rs)
  <2>1. CASE sent \/ recv
    BY <1>10, <1>11, <1>16, <2>1
  <2>2. CASE ~(sent \/ recv)
    BY <1>3, <1>16, <2>2
  <2> QED  BY <2>1, <2>2
<1> QED
  BY <1>4, <1>16, <1>22, <1>23, <1>24, <1>25, <1>26
     DEF Alike, SameRow, C, X, cm, sm, u, gc, gs, k, rc, rs

(* A replica that stood in the relation to the server before a commit      *)
(* stands in it to the committed collection too ...                        *)
LEMMA PairAdvances ==
    ASSUME NEW r \in Collection, NEW sv \in Collection, NEW sm \in Collection,
           NEW o \in Objs, r.usn <= sv.usn,
           GoodObj(r, o), GoodObj(sv, o), PairObj(r, sv, o), Sound(sm, o, sv.usn),
           Advances(sv, sm, o, sv.usn)
    PROVE  PairObj(r, sm, o)
<1> DEFINE C == ClocksAgree   X == Exact(o)
           rr == r.row[o]   rg == r.grave[o]   k == r.usn   u == sv.usn
           ss == sv.row[o]  sg == sv.grave[o]
           ns == sm.row[o]  ng == sm.grave[o]
<1>1. /\ k \in Nat /\ u \in Nat /\ k <= u /\ PendingUsn = -1 /\ NoGrave = -2
      /\ rr \in Row /\ ss \in Row /\ ns \in Row
      /\ rg \in Int /\ sg \in Int /\ ng \in Int
  BY DEF Collection, PendingUsn, NoGrave
<1>2. /\ rr.ed \in Nat /\ rr.usn \in Int /\ ss.ed \in Nat /\ ss.usn \in Int
      /\ ns.ed \in Nat /\ ns.usn \in Int
      /\ \A row \in Row : Present(row) <=> row.ed # 0
      /\ Absent.ed = 0
  BY <1>1, RowConstants, RowType
<1>3. /\ ns = ss \/ (ns.ed # 0 /\ ns.usn = u) \/ (ns.ed = 0 /\ ng = u)
      /\ ng = sg \/ (sg = -2 /\ ng = u)
      /\ C /\ ns.ed # 0 => ss.ed <= ns.ed
  <2>1. \/ ns = ss
        \/ Present(ns) /\ ns.usn = u
        \/ ns = Absent /\ ng = u
    BY DEF Advances
  <2>2. ng = sg \/ (sg = NoGrave /\ ng = u)
    BY DEF Advances
  <2>3. C /\ Present(ns) => ss.ed <= ns.ed
    BY DEF Advances
  <2> HIDE DEF C, ss, sg, ns, ng, u
  <2> QED  BY <1>1, <1>2, <2>1, <2>2, <2>3
<1>4. ng # -2 => ns.ed = 0
  BY <1>1, <1>2 DEF Sound
<1>5. /\ rg # -2 => rr.ed = 0
      /\ rg >= -2 /\ rr.usn >= -1
  BY <1>1, <1>2 DEF GoodObj
<1>6. sg # -2 => ss.ed = 0
  BY <1>1, <1>2 DEF GoodObj
<1>7. /\ \/ (rr.ed # 0 <=> ss.ed # 0) /\ (X => rr.ed = ss.ed)
         \/ rg = -1 \/ (rr.ed # 0 /\ rr.usn = -1)
         \/ (sg # -2 /\ sg >= k) \/ (ss.ed # 0 /\ ss.usn >= k)
      /\ sg # -2 /\ sg < k => rr.ed = 0
      /\ rg >= 0 => sg # -2
      /\ C /\ rr.ed # 0 /\ ss.ed # 0 =>
           IF rr.usn = -1 THEN ss.usn < k => ss.ed <= rr.ed ELSE rr.ed <= ss.ed
  BY <1>1, <1>2 DEF PairObj, Alike, SameRow, WillSend, WillReceive
<1>8. (ns.ed = ss.ed /\ ns.usn = ss.usn) \/ (ns.ed # 0 /\ ns.usn = u) \/ (ns.ed = 0 /\ ng = u)
  BY <1>3
<1> HIDE DEF C, X, rr, rg, k, u, ss, sg, ns, ng
<1>9. \/ (rr.ed # 0 <=> ns.ed # 0) /\ (X => rr.ed = ns.ed)
      \/ rg = -1 \/ (rr.ed # 0 /\ rr.usn = -1)
      \/ (ng # -2 /\ ng >= k) \/ (ns.ed # 0 /\ ns.usn >= k)
  BY <1>1, <1>2, <1>3, <1>4, <1>5, <1>6, <1>7, <1>8
<1>10. ng # -2 /\ ng < k => rr.ed = 0
  BY <1>1, <1>3, <1>7
<1>11. rg >= 0 => ng # -2
  BY <1>1, <1>3, <1>7
<1>12. C /\ rr.ed # 0 /\ ns.ed # 0 =>
         IF rr.usn = -1 THEN ns.usn < k => ns.ed <= rr.ed ELSE rr.ed <= ns.ed
  BY <1>1, <1>2, <1>3, <1>4, <1>5, <1>6, <1>7, <1>8
<1> QED
  BY <1>1, <1>2, <1>9, <1>10, <1>11, <1>12
     DEF PairObj, Alike, SameRow, WillSend, WillReceive, C, X, rr, rg, k, ns, ng

(* ... and so does the client that took part.                              *)
LEMMA PairMerged ==
    ASSUME NEW r \in Collection, NEW s \in Collection, NEW o \in Objs, NEW u \in Nat,
           Sound(r, o, u), Sound(s, o, u), Alike(r, s, o),
           r.grave[o] # NoGrave => s.grave[o] # NoGrave
    PROVE  PairObj(r, s, o)
<1>1. /\ r.row[o] \in Row /\ s.row[o] \in Row /\ PendingUsn = -1 /\ NoGrave = -2
      /\ r.row[o].ed \in Nat /\ s.row[o].ed \in Nat
  BY DEF Collection, Row, PendingUsn, NoGrave
<1> QED
  BY <1>1 DEF Sound, Alike, Exact, SameRow, PairObj, Present

(* A collection stands in Pairs to itself.                                 *)
LEMMA PairSelf ==
    ASSUME NEW s \in Collection, NEW o \in Objs, GoodObj(s, o), s.row[o].usn # PendingUsn
    PROVE  PairObj(s, s, o)
<1>1. /\ s.row[o] \in Row /\ PendingUsn = -1 /\ NoGrave = -2 /\ s.row[o].ed \in Nat
  BY DEF Collection, Row, PendingUsn, NoGrave
<1> QED
  BY <1>1 DEF GoodObj, Alike, SameRow, PairObj, Present

-----------------------------------------------------------------------------
(* What the steps have in common.                                          *)

LEMMA SetsTyped ==
    ASSUME TypeOK
    PROVE  Replicas \subseteq Collection /\ Servers \subseteq Collection
           /\ srv \in Servers /\ uploads \subseteq Servers
           /\ \A c \in Clients : cli[c] \in Replicas
  BY DEF TypeOK, Replicas, Servers

(* NoCol is not a collection.                                              *)
LEMMA NoColApart == NoCol \notin Collection
<1>1. NoCol.mod = -1
  BY DEF NoCol
<1>2. \A col \in Collection : col.mod \in Nat
  BY DEF Collection
<1> QED  BY <1>1, <1>2

(* The counters only grow, and an id keeps the edit that created it.       *)
Monotone ==
    /\ edits <= edits' /\ clk <= clk'
    /\ \A o \in Objs : born'[o] = born[o] \/ (born[o] = 0 /\ born'[o] # 0)

(* Good still holds of a collection when time, edits and usns have gone on.*)
LEMMA StaysGood ==
    ASSUME TypeOK, TypeOK', Monotone, NEW col \in Collection, Good(col)
    PROVE  Good(col)'
<1>1. /\ edits \in Nat /\ edits' \in Nat /\ clk \in Nat /\ clk' \in Nat
      /\ col.mod \in Nat /\ col.scm \in Nat
  BY Bounds DEF TypeOK, Collection
<1>2. col.mod <= clk' /\ col.scm <= clk' /\ col.usn > 0
  BY <1>1 DEF Good, Monotone
<1>3. ASSUME NEW o \in Objs
      PROVE  GoodObj(col, o)'
  <2>1. GoodObj(col, o)
    BY DEF Good
  <2>2. col.row[o].ed \in Nat
    BY RowType DEF Collection
  <2>3. born'[o] = born[o] \/ (born[o] = 0 /\ born'[o] # 0)
    BY DEF Monotone
  <2>4. edits <= edits'
    BY DEF Monotone
  <2> QED  BY <1>1, <2>1, <2>2, <2>3, <2>4 DEF GoodObj
<1> QED  BY <1>2, <1>3 DEF Good

(* A step preserves the invariant when the collections it adds, N to the   *)
(* replicas and M to the servers, stand in it.                             *)
LEMMA StepPreserves ==
    ASSUME IInv, TypeOK', Monotone, BornOK', NEW N, NEW M,
           Replicas' \subseteq Replicas \cup N, Servers' \subseteq Servers \cup M,
           \A n \in N : Good(n)',
           \A m \in M : Good(m)' /\ Clean(m),
           \A n \in N : \A s \in Servers' : Pair(n, s),
           \A r \in Replicas : \A m \in M : Pair(r, m),
           SchemasApart', ModsAgree'
    PROVE  IInv'
<1>1. /\ TypeOK /\ Replicas \subseteq Collection /\ Servers \subseteq Collection
  BY SetsTyped DEF IInv
<1>2. ASSUME NEW r \in Replicas'
      PROVE  Good(r)'
  <2>1. CASE r \in N
    BY <2>1
  <2>2. CASE r \in Replicas
    BY <1>1, <2>2, StaysGood DEF IInv
  <2> QED  BY <2>1, <2>2
<1>3. ASSUME NEW s \in Servers'
      PROVE  Good(s)' /\ Clean(s)
  <2>1. CASE s \in M
    BY <2>1
  <2>2. CASE s \in Servers
    BY <1>1, <2>2, StaysGood DEF IInv
  <2> QED  BY <2>1, <2>2
<1>4. ASSUME NEW r \in Replicas', NEW s \in Servers'
      PROVE  Pair(r, s)
  <2>1. CASE r \in N
    BY <2>1
  <2>2. CASE r \in Replicas /\ s \in M
    BY <2>2
  <2>3. CASE r \in Replicas /\ s \in Servers
    BY <2>3 DEF IInv, Pairs
  <2> QED  BY <2>1, <2>2, <2>3
<1> QED
  BY <1>2, <1>3, <1>4 DEF IInv, Pairs

LEMMA InitialType ==
    /\ Initial \in Collection
    /\ \A o \in Objs :
         /\ Initial.row[o] = IF o \in Known THEN [ed |-> 1, usn |-> 0] ELSE Absent
         /\ Initial.grave[o] = NoGrave
    /\ Initial.mod = 0 /\ Initial.scm = 0 /\ Initial.usn = 1
<1>1. 1 \in 0..MaxEdits /\ NoGrave \in Int
  BY Bounds DEF NoGrave
<1>2. [ed |-> 1, usn |-> 0] \in Row
  BY <1>1 DEF Row
<1>3. Absent \in Row
  BY RowConstants
<1> QED
  BY <1>1, <1>2, <1>3 DEF Initial, Collection

LEMMA InitInvariant == Init => IInv
<1> SUFFICES ASSUME Init PROVE IInv
  OBVIOUS
<1> USE DEF Init
<1>1. /\ Initial \in Collection /\ Initial.usn = 1 /\ Initial.mod = 0 /\ Initial.scm = 0
      /\ \A o \in Objs : /\ Initial.row[o] = IF o \in Known THEN [ed |-> 1, usn |-> 0] ELSE Absent
                         /\ Initial.grave[o] = NoGrave
  BY InitialType
<1>2. 1 \in 0..MaxEdits /\ PendingUsn = -1 /\ NoGrave = -2
  BY Bounds DEF PendingUsn, NoGrave
<1>3. TypeOK
  <2>1. born \in [Objs -> 0..MaxEdits]
    BY <1>2, Bounds DEF KnownFrom
  <2>2. cli \in [Clients -> Collection] /\ ack \in [Clients -> Collection \cup {NoCol}]
    BY <1>1
  <2> QED  BY <1>1, <1>2, <2>1, <2>2 DEF TypeOK
<1>4. BornOK
  BY DEF BornOK, KnownFrom
<1>5. Replicas \subseteq {Initial} /\ Servers = {Initial}
  <2>1. \A c \in Clients : cli[c] = Initial /\ ack[c] = NoCol
    OBVIOUS
  <2> QED  BY <2>1 DEF Replicas, Servers
<1>6. ASSUME NEW o \in Objs
      PROVE  /\ GoodObj(Initial, o)
             /\ Initial.row[o].usn # PendingUsn /\ Initial.grave[o] # PendingUsn
  <2>1. CASE o \in Known
    <3>1. Initial.row[o].ed = 1 /\ Initial.row[o].usn = 0 /\ born[o] = 1 /\ edits = 1
      BY <1>1, <2>1 DEF KnownFrom
    <3> QED  BY <1>1, <1>2, <3>1 DEF GoodObj, Present
  <2>2. CASE o \notin Known
    BY <1>1, <1>2, <2>2, RowConstants DEF GoodObj
  <2> QED  BY <2>1, <2>2
<1>7. Good(Initial) /\ Clean(Initial)
  BY <1>1, <1>6 DEF Good, Clean
<1>8. Pair(Initial, Initial)
  BY <1>1, <1>6, PairSelf DEF Pair
<1>9. InSync(Initial, Initial)
  BY <1>1, <1>6, <1>2, PendingSets DEF InSync, Alike, SameRow, HasPending, Pending
<1> QED
  BY <1>3, <1>4, <1>5, <1>7, <1>8, <1>9 DEF IInv, Pairs, SchemasApart, ModsAgree

(* A collection without pending rows or graves.                            *)
LEMMA CleanNothingPending ==
    ASSUME NEW col \in Collection, Clean(col)
    PROVE  ~HasPending(col)
  BY PendingSets DEF HasPending, Clean, Pending, PendingUsn

-----------------------------------------------------------------------------
(* Changes made on a device.                                               *)

(* A local change gives the device a later mod or a schema of its own.     *)
LEMMA ChangeInvariant ==
    ASSUME IInv, NEW c \in Clients, NEW col \in Collection, Change(c, col),
           edits' \in 0..MaxEdits, born' \in [Objs -> 0..MaxEdits], Monotone, BornOK',
           Good(col)', \A s \in Servers : Pair(col, s),
           \/ col.mod = clk + 1
           \/ /\ col.mod = cli[c].mod
              /\ \A s \in Servers : InSync(cli[c], s) => InSync(col, s)
    PROVE  IInv'
<1> USE DEF Change
<1>1. TypeOK /\ Servers \subseteq Collection /\ srv \in Servers /\ uploads \subseteq Servers
  BY SetsTyped DEF IInv
<1>2. clk' = clk + 1 /\ clk \in Nat
  BY <1>1 DEF Tick, TypeOK
<1>3. TypeOK'
  BY <1>1, <1>2 DEF TypeOK
<1>4. cli' = [cli EXCEPT ![c] = col] /\ ack' = ack /\ offers' = offers
  OBVIOUS
<1>5. Replicas' \subseteq Replicas \cup {col} /\ Servers' \subseteq Servers \cup {}
  BY <1>1, <1>4 DEF Replicas, Servers, TypeOK
<1>6. Servers' = Servers
  BY DEF Servers
<1>7. SchemasApart'
  BY DEF SchemasApart, IInv
<1>8. \A s \in Servers : s.mod <= clk /\ s.mod \in Nat
  BY <1>1 DEF IInv, Good, Collection
<1>9. cli[c] \in Replicas
  BY <1>1, SetsTyped
<1>10. /\ ~torn /\ col.mod = srv.mod => InSync(col, srv)
       /\ \A u \in uploads : col.mod = u.mod => InSync(col, u)
  <2>1. ASSUME NEW s \in Servers, col.mod = s.mod
        PROVE  col.mod = cli[c].mod /\ (InSync(cli[c], s) => InSync(col, s))
    BY <1>2, <1>8, <2>1
  <2>2. ~torn /\ col.mod = srv.mod => InSync(cli[c], srv)
    BY <1>1, <1>9, <2>1 DEF IInv, ModsAgree
  <2>3. \A u \in uploads : col.mod = u.mod => InSync(cli[c], u)
    BY <1>1, <1>9, <2>1 DEF IInv, ModsAgree
  <2>4. ASSUME ~torn, col.mod = srv.mod
        PROVE  InSync(col, srv)
    BY <1>1, <2>1, <2>2, <2>4
  <2>5. ASSUME NEW u \in uploads, col.mod = u.mod
        PROVE  InSync(col, u)
    <3>1. u \in Servers
      BY <1>1
    <3> QED  BY <2>1, <2>3, <2>5, <3>1
  <2> QED  BY <2>4, <2>5
<1>11. ModsAgree'
  BY <1>5, <1>10 DEF ModsAgree, IInv
<1> DEFINE N == {col}   M == {}
<1>12. /\ \A n \in N : Good(n)'
       /\ \A m \in M : Good(m)' /\ Clean(m)
       /\ \A n \in N : \A s \in Servers' : Pair(n, s)
       /\ \A r \in Replicas : \A m \in M : Pair(r, m)
       /\ Replicas' \subseteq Replicas \cup N /\ Servers' \subseteq Servers \cup M
  BY <1>5, <1>6
<1> HIDE DEF N, M, Change
<1> QED
  BY <1>3, <1>7, <1>11, <1>12, StepPreserves

LEMMA WriteRowType ==
    ASSUME NEW col \in Collection, NEW o \in Objs, NEW ed, ed \in 0..MaxEdits,
           NEW now \in Nat
    PROVE  LET new == WriteRow(col, o, ed, now)
           IN  /\ new \in Collection /\ new.mod = now
               /\ new.scm = col.scm /\ new.usn = col.usn /\ new.grave = col.grave
               /\ \A p \in Objs : new.row[p] = IF p = o THEN [ed |-> ed, usn |-> PendingUsn]
                                              ELSE col.row[p]
<1> DEFINE f == [col.row EXCEPT ![o] = [ed |-> ed, usn |-> PendingUsn]]
           mid == [col EXCEPT !.row = f]
<1>1. col.row \in [Objs -> Row] /\ [ed |-> ed, usn |-> PendingUsn] \in Row
  BY DEF Collection, Row, PendingUsn
<1>2. f \in [Objs -> Row]
      /\ \A p \in Objs : f[p] = IF p = o THEN [ed |-> ed, usn |-> PendingUsn] ELSE col.row[p]
  BY <1>1
<1>3. mid \in Collection /\ mid.row = f /\ mid.scm = col.scm /\ mid.usn = col.usn
      /\ mid.grave = col.grave
  <2> HIDE DEF f
  <2> QED  BY <1>2, SetRow
<1>4. WriteRow(col, o, ed, now) = [mid EXCEPT !.mod = now]
  BY DEF WriteRow, Collection
<1>5. LET new == [mid EXCEPT !.mod = now]
      IN  /\ new \in Collection /\ new.mod = now
          /\ new.scm = col.scm /\ new.usn = col.usn /\ new.grave = col.grave
          /\ new.row = f
  <2> HIDE DEF f, mid
  <2> QED  BY <1>3, SetMod
<1> QED  BY <1>2, <1>4, <1>5

LEMMA RemoveRowType ==
    ASSUME NEW col \in Collection, NEW o \in Objs, NEW now \in Nat
    PROVE  LET new == RemoveRow(col, o, now)
           IN  /\ new \in Collection /\ new.mod = now
               /\ new.scm = col.scm /\ new.usn = col.usn
               /\ \A p \in Objs :
                    /\ new.row[p] = IF p = o THEN Absent ELSE col.row[p]
                    /\ new.grave[p] = IF p = o THEN AddGrave(col.grave[o], PendingUsn)
                                      ELSE col.grave[p]
<1> DEFINE f == [col.row EXCEPT ![o] = Absent]
           g == [col.grave EXCEPT ![o] = AddGrave(@, PendingUsn)]
           mid == [col EXCEPT !.row = f]
           end == [mid EXCEPT !.grave = g]
<1>1. col.row \in [Objs -> Row] /\ col.grave \in [Objs -> Int] /\ Absent \in Row
      /\ AddGrave(col.grave[o], PendingUsn) \in Int
  BY RowConstants DEF Collection, AddGrave, PendingUsn
<1>2. /\ f \in [Objs -> Row] /\ g \in [Objs -> Int]
      /\ \A p \in Objs :
            /\ f[p] = IF p = o THEN Absent ELSE col.row[p]
            /\ g[p] = IF p = o THEN AddGrave(col.grave[o], PendingUsn) ELSE col.grave[p]
  BY <1>1
<1>3. mid \in Collection /\ mid.row = f /\ mid.scm = col.scm /\ mid.usn = col.usn
  <2> HIDE DEF f
  <2> QED  BY <1>2, SetRow
<1>4. end \in Collection /\ end.row = f /\ end.grave = g
      /\ end.scm = col.scm /\ end.usn = col.usn
  <2> HIDE DEF f, g, mid
  <2> QED  BY <1>2, <1>3, SetGrave DEF end
<1>5. RemoveRow(col, o, now) = [end EXCEPT !.mod = now]
  BY DEF RemoveRow, Collection
<1>6. LET new == [end EXCEPT !.mod = now]
      IN  /\ new \in Collection /\ new.mod = now
          /\ new.scm = col.scm /\ new.usn = col.usn
          /\ new.row = f /\ new.grave = g
  <2> HIDE DEF f, g, mid, end
  <2> QED  BY <1>4, SetMod
<1> QED  BY <1>2, <1>5, <1>6

(* The relation to a server when one row of a replica is rewritten ...     *)
LEMMA WrittenPair ==
    ASSUME NEW r \in Collection, NEW n \in Collection, NEW s \in Collection,
           NEW o \in Objs, NEW ed \in Nat, ed > 0,
           Pair(r, s), n.scm = r.scm, n.usn = r.usn, n.grave = r.grave,
           \A p \in Objs : n.row[p] = IF p = o THEN [ed |-> ed, usn |-> PendingUsn]
                                      ELSE r.row[p],
           r.grave[o] = NoGrave,
           s.grave[o] # NoGrave => Present(r.row[o]),
           s.row[o].ed <= ed
    PROVE  Pair(n, s)
<1> SUFFICES ASSUME n.scm = s.scm, NEW p \in Objs
             PROVE  n.usn <= s.usn /\ PairObj(n, s, p)
  BY DEF Pair
<1>1. n.usn <= s.usn /\ PairObj(r, s, p)
  BY DEF Pair
<1>2. CASE p # o
  BY <1>1, <1>2 DEF PairObj, Alike, SameRow, WillSend, WillReceive
<1>3. CASE p = o
  <2>1. n.row[p].ed = ed /\ n.row[p].usn = PendingUsn /\ n.grave[p] = NoGrave
    BY <1>3
  <2> QED
    BY <1>1, <1>3, <2>1 DEF PairObj, Alike, WillSend, Present, PendingUsn, NoGrave
<1> QED  BY <1>1, <1>2, <1>3

(* ... or removed.                                                         *)
LEMMA RemovedPair ==
    ASSUME NEW r \in Collection, NEW n \in Collection, NEW s \in Collection,
           NEW o \in Objs, Pair(r, s), n.scm = r.scm, n.usn = r.usn,
           \A p \in Objs : /\ n.row[p] = IF p = o THEN Absent ELSE r.row[p]
                           /\ n.grave[p] = IF p = o THEN PendingUsn ELSE r.grave[p]
    PROVE  Pair(n, s)
<1> SUFFICES ASSUME n.scm = s.scm, NEW p \in Objs
             PROVE  n.usn <= s.usn /\ PairObj(n, s, p)
  BY DEF Pair
<1>1. n.usn <= s.usn /\ PairObj(r, s, p)
  BY DEF Pair
<1>2. CASE p # o
  BY <1>1, <1>2 DEF PairObj, Alike, SameRow, WillSend, WillReceive
<1>3. CASE p = o
  BY <1>1, <1>3, RowConstants DEF PairObj, Alike, WillSend, Present, PendingUsn, NoGrave
<1> QED  BY <1>1, <1>2, <1>3

(* What every local change starts from.                                    *)
LEMMA ChangeContext ==
    ASSUME IInv, NEW c \in Clients
    PROVE  /\ cli[c] \in Collection /\ Good(cli[c])
           /\ Servers \subseteq Collection
           /\ \A s \in Servers : Good(s) /\ Clean(s) /\ Pair(cli[c], s)
           /\ edits \in 0..MaxEdits /\ edits \in Nat /\ clk \in Nat
           /\ born \in [Objs -> 0..MaxEdits] /\ BornOK
<1>1. TypeOK /\ cli[c] \in Replicas /\ Servers \subseteq Collection
  BY SetsTyped DEF IInv
<1> QED  BY <1>1, Bounds DEF IInv, TypeOK, Pairs

(* Add and Edit: a row that no server has seen deleted gets a new edit.    *)
LEMMA WriteInvariant ==
    ASSUME IInv, NEW c \in Clients, NEW o \in Objs, NewEdit,
           Change(c, WriteRow(cli[c], o, edits + 1, clk + 1)),
           born' \in [Objs -> 0..MaxEdits], Monotone, BornOK',
           born'[o] # 0, o \in Revlog => born'[o] = edits + 1,
           cli[c].grave[o] = NoGrave,
           \A s \in Servers : s.grave[o] # NoGrave => Present(cli[c].row[o])
    PROVE  IInv'
<1>0. PICK new : new = WriteRow(cli[c], o, edits + 1, clk + 1)
  OBVIOUS
<1>1. /\ cli[c] \in Collection /\ Good(cli[c]) /\ Servers \subseteq Collection
      /\ \A s \in Servers : Good(s) /\ Clean(s) /\ Pair(cli[c], s)
      /\ edits \in Nat /\ clk \in Nat
  BY ChangeContext
<1>2. /\ edits' = edits + 1 /\ clk' = clk + 1 /\ edits + 1 \in 0..MaxEdits
      /\ clk + 1 \in Nat
  BY <1>1, Bounds DEF NewEdit, Change, Tick
<1>3. /\ new \in Collection /\ new.mod = clk + 1
      /\ new.scm = cli[c].scm /\ new.usn = cli[c].usn /\ new.grave = cli[c].grave
      /\ \A p \in Objs : new.row[p] = IF p = o THEN [ed |-> edits + 1, usn |-> PendingUsn]
                                      ELSE cli[c].row[p]
  <2>1. cli[c] \in Collection /\ edits + 1 \in 0..MaxEdits /\ clk + 1 \in Nat
    BY <1>1, <1>2
  <2>2. PICK ed \in 0..MaxEdits : ed = edits + 1
    BY <2>1
  <2>3. LET n == WriteRow(cli[c], o, ed, clk + 1)
        IN  /\ n \in Collection /\ n.mod = clk + 1
            /\ n.scm = cli[c].scm /\ n.usn = cli[c].usn /\ n.grave = cli[c].grave
            /\ \A p \in Objs : n.row[p] = IF p = o THEN [ed |-> ed, usn |-> PendingUsn]
                                          ELSE cli[c].row[p]
    <3>1. PICK r \in Collection : r = cli[c]
      BY <2>1
    <3>2. PICK now \in Nat : now = clk + 1
      BY <2>1
    <3>3. LET n == WriteRow(r, o, ed, now)
          IN  /\ n \in Collection /\ n.mod = now
              /\ n.scm = r.scm /\ n.usn = r.usn /\ n.grave = r.grave
              /\ \A p \in Objs : n.row[p] = IF p = o THEN [ed |-> ed, usn |-> PendingUsn]
                                            ELSE r.row[p]
      BY WriteRowType
    <3> QED  BY <3>1, <3>2, <3>3
  <2> QED  BY <1>0, <2>2, <2>3
<1>4. ASSUME NEW p \in Objs
      PROVE  GoodObj(new, p)'
  <2>1. Good(cli[c]) /\ GoodObj(cli[c], p) /\ cli[c].usn \in Nat
    BY <1>1 DEF Good, Collection
  <2>2. CASE p = o
    <3>1. new.row[p].ed = edits + 1 /\ new.row[p].usn = -1 /\ new.grave[p] = NoGrave
      BY <1>3, <2>2 DEF PendingUsn
    <3> QED
      BY <1>1, <1>2, <1>3, <2>1, <2>2, <3>1 DEF GoodObj, Present, PendingUsn, NoGrave
  <2>3. CASE p # o
    <3>1. new.row[p] = cli[c].row[p] /\ new.grave[p] = cli[c].grave[p]
      BY <1>3, <2>3
    <3>2. cli[c].row[p].ed \in Nat
      BY <1>1, RowType DEF Collection
    <3>3. born'[p] = born[p] \/ (born[p] = 0 /\ born'[p] # 0)
      BY DEF Monotone
    <3> QED  BY <1>1, <1>2, <1>3, <2>1, <3>1, <3>2, <3>3 DEF GoodObj
  <2> QED  BY <2>2, <2>3
<1>5. Good(new)'
  <2>1. cli[c].scm <= clk /\ cli[c].scm \in Nat /\ cli[c].usn > 0
    BY <1>1 DEF Good, Collection
  <2> QED  BY <1>1, <1>2, <1>3, <1>4, <2>1 DEF Good
<1>6. ASSUME NEW s \in Servers
      PROVE  Pair(new, s)
  <2>1. s.row[o].ed <= edits /\ s.row[o].ed \in Nat /\ s \in Collection /\ Pair(cli[c], s)
    BY <1>1, RowType DEF Good, GoodObj, Collection
  <2>2. edits + 1 \in Nat /\ edits + 1 > 0 /\ s.row[o].ed <= edits + 1
    BY <1>1, <2>1
  <2>3. s.grave[o] # NoGrave => Present(cli[c].row[o])
    OBVIOUS
  <2> QED  BY <1>1, <1>3, <2>1, <2>2, <2>3, WrittenPair
<1>7. Change(c, new)
  BY <1>0
<1> QED
  BY <1>2, <1>3, <1>5, <1>6, <1>7, ChangeInvariant

LEMMA AddInvariant ==
    ASSUME IInv, NEW c \in Clients, NEW o \in Objs, Add(c, o)
    PROVE  IInv'
<1>1. /\ cli[c] \in Collection /\ Good(cli[c])
      /\ \A s \in Servers : Good(s)
      /\ edits \in Nat /\ clk \in Nat /\ born \in [Objs -> 0..MaxEdits] /\ BornOK
  BY ChangeContext
<1>2. /\ born[o] = 0 /\ born' = [born EXCEPT ![o] = edits + 1]
      /\ NewEdit /\ Change(c, WriteRow(cli[c], o, edits + 1, clk + 1))
  BY DEF Add
<1>3. edits' = edits + 1 /\ clk' = clk + 1 /\ edits + 1 \in 0..MaxEdits
  BY <1>1, <1>2, Bounds DEF NewEdit, Change, Tick
<1>4. /\ born' \in [Objs -> 0..MaxEdits] /\ born'[o] = edits + 1 /\ born'[o] # 0
      /\ \A p \in Objs : p # o => born'[p] = born[p]
  BY <1>1, <1>2, <1>3
<1>5. Monotone /\ BornOK'
  BY <1>1, <1>2, <1>3, <1>4 DEF Monotone, BornOK
<1>6. /\ cli[c].grave[o] = NoGrave
      /\ \A s \in Servers : s.grave[o] = NoGrave
  BY <1>1, <1>2 DEF Good, GoodObj
<1> QED
  BY <1>2, <1>4, <1>5, <1>6, WriteInvariant

(* A row that a client has is not one that a server it can sync with has   *)
(* forgotten: its deletion would still be on the way.                      *)
LEMMA EditInvariant ==
    ASSUME IInv, NEW c \in Clients, NEW o \in Objs, Edit(c, o)
    PROVE  IInv'
<1>1. /\ cli[c] \in Collection /\ Good(cli[c])
      /\ edits \in Nat /\ clk \in Nat /\ born \in [Objs -> 0..MaxEdits] /\ BornOK
  BY ChangeContext
<1>2. /\ o \notin Revlog /\ Present(cli[c].row[o]) /\ born' = born
      /\ NewEdit /\ Change(c, WriteRow(cli[c], o, edits + 1, clk + 1))
  BY DEF Edit
<1>3. edits' = edits + 1 /\ clk' = clk + 1
  BY <1>2 DEF NewEdit, Change, Tick
<1>4. Monotone /\ BornOK'
  BY <1>1, <1>2, <1>3 DEF Monotone, BornOK
<1>5. cli[c].grave[o] = NoGrave /\ born'[o] # 0
  BY <1>1, <1>2 DEF Good, GoodObj
<1> QED
  BY <1>1, <1>2, <1>4, <1>5, WriteInvariant

LEMMA RemoveInvariant ==
    ASSUME IInv, NEW c \in Clients, NEW o \in Objs, Remove(c, o)
    PROVE  IInv'
<1>0. PICK new : new = RemoveRow(cli[c], o, clk + 1)
  OBVIOUS
<1>1. /\ cli[c] \in Collection /\ Good(cli[c]) /\ Servers \subseteq Collection
      /\ \A s \in Servers : Good(s) /\ Clean(s) /\ Pair(cli[c], s)
      /\ edits \in Nat /\ edits \in 0..MaxEdits /\ clk \in Nat
      /\ born \in [Objs -> 0..MaxEdits] /\ BornOK
  BY ChangeContext
<1>2. Present(cli[c].row[o]) /\ Change(c, new) /\ edits' = edits /\ born' = born
      /\ clk' = clk + 1 /\ clk + 1 \in Nat
  BY <1>0, <1>1 DEF Remove, Change, Tick
<1>3. cli[c].grave[o] = NoGrave /\ born[o] # 0
  BY <1>1, <1>2 DEF Good, GoodObj
<1>4. AddGrave(cli[c].grave[o], PendingUsn) = PendingUsn
  BY <1>3 DEF AddGrave
<1>5. /\ new \in Collection /\ new.mod = clk + 1
      /\ new.scm = cli[c].scm /\ new.usn = cli[c].usn
      /\ \A p \in Objs :
           /\ new.row[p] = IF p = o THEN Absent ELSE cli[c].row[p]
           /\ new.grave[p] = IF p = o THEN PendingUsn ELSE cli[c].grave[p]
  <2>1. cli[c] \in Collection /\ clk + 1 \in Nat
    BY <1>1, <1>2
  <2> QED  BY <1>0, <1>4, <2>1, RemoveRowType
<1>6. Monotone /\ BornOK'
  BY <1>1, <1>2 DEF Monotone, BornOK
<1>7. ASSUME NEW p \in Objs
      PROVE  GoodObj(new, p)'
  <2>1. GoodObj(cli[c], p) /\ cli[c].usn \in Nat
    BY <1>1 DEF Good, Collection
  <2>2. CASE p = o
    <3>1. /\ new.row[p] = Absent /\ new.grave[p] = -1 /\ new.usn = cli[c].usn
          /\ cli[c].usn > 0
      BY <1>1, <1>5, <2>2 DEF PendingUsn, Good
    <3>2. new.row[p].ed = 0 /\ new.row[p].usn = 0 /\ ~Present(new.row[p])
      BY <3>1, RowConstants
    <3> QED
      BY <1>1, <1>2, <1>3, <2>1, <2>2, <3>1, <3>2 DEF GoodObj, PendingUsn, NoGrave
  <2>3. CASE p # o
    BY <1>1, <1>2, <1>5, <2>1, <2>3 DEF GoodObj
  <2> QED  BY <2>2, <2>3
<1>8. Good(new)'
  <2>1. cli[c].scm <= clk /\ cli[c].scm \in Nat /\ cli[c].usn > 0
    BY <1>1 DEF Good, Collection
  <2> QED  BY <1>1, <1>2, <1>5, <1>7, <2>1 DEF Good
<1>9. \A s \in Servers : Pair(new, s)
  BY <1>1, <1>5, RemovedPair
<1> QED
  BY <1>1, <1>2, <1>5, <1>6, <1>8, <1>9, ChangeInvariant

(* Changes that leave the rows and graves alone.                           *)
SameContents(new, old) ==
    new.row = old.row /\ new.grave = old.grave /\ new.usn = old.usn

LEMMA SameContentsGood ==
    ASSUME IInv, NEW c \in Clients, NEW new \in Collection, SameContents(new, cli[c]),
           edits' \in Nat, edits <= edits', born' = born
    PROVE  \A o \in Objs : GoodObj(new, o)'
<1>1. cli[c] \in Collection /\ Good(cli[c]) /\ edits \in Nat
  BY ChangeContext
<1>2. \A o \in Objs : GoodObj(cli[c], o) /\ cli[c].row[o].ed \in Nat
  BY <1>1, RowType DEF Good, Collection
<1> QED  BY <1>1, <1>2 DEF GoodObj, SameContents

LEMMA SetConfigInvariant ==
    ASSUME IInv, NEW c \in Clients, SetConfig(c)
    PROVE  IInv'
<1> DEFINE mid == [cli[c] EXCEPT !.conf = edits + 1]
<1>0. PICK new : new = WriteConfig(cli[c], edits + 1, clk + 1)
  OBVIOUS
<1>1. /\ cli[c] \in Collection /\ Good(cli[c]) /\ Servers \subseteq Collection
      /\ \A s \in Servers : Pair(cli[c], s)
      /\ edits \in Nat /\ clk \in Nat /\ born \in [Objs -> 0..MaxEdits] /\ BornOK
  BY ChangeContext
<1>2. /\ Change(c, new) /\ born' = born /\ edits' = edits + 1
      /\ edits + 1 \in 0..MaxEdits /\ clk' = clk + 1 /\ clk + 1 \in Nat
  BY <1>0, <1>1, Bounds DEF SetConfig, Change, Tick, NewEdit
<1>3. /\ mid \in Collection /\ SameContents(mid, cli[c]) /\ mid.scm = cli[c].scm
  BY <1>1, <1>2, SetConf DEF SameContents
<1>4. new = [mid EXCEPT !.mod = clk + 1]
  BY <1>0, <1>1 DEF WriteConfig, Collection
<1>5. LET n == [mid EXCEPT !.mod = clk + 1]
      IN  n \in Collection /\ SameContents(n, cli[c]) /\ n.scm = cli[c].scm
          /\ n.mod = clk + 1
  <2> HIDE DEF mid
  <2> QED  BY <1>2, <1>3, SetMod DEF SameContents
<1>6. /\ new \in Collection /\ SameContents(new, cli[c]) /\ new.scm = cli[c].scm
      /\ new.mod = clk + 1
  BY <1>4, <1>5
<1> HIDE DEF mid
<1>7. Monotone /\ BornOK'
  BY <1>1, <1>2 DEF Monotone, BornOK
<1>8. Good(new)'
  <2>1. cli[c].scm <= clk /\ cli[c].scm \in Nat /\ cli[c].usn > 0
    BY <1>1 DEF Good, Collection
  <2>2. \A o \in Objs : GoodObj(new, o)'
    BY <1>1, <1>2, <1>6, SameContentsGood
  <2> QED  BY <1>1, <1>2, <1>6, <2>1, <2>2 DEF Good, SameContents
<1>9. \A s \in Servers : Pair(new, s)
  BY <1>1, <1>6
     DEF Pair, PairObj, Alike, SameContents, SameRow, WillSend, WillReceive
<1> QED
  BY <1>1, <1>2, <1>6, <1>7, <1>8, <1>9, ChangeInvariant

(* A schema of its own keeps a client from a normal sync.                  *)
LEMMA ModifySchemaInvariant ==
    ASSUME IInv, NEW c \in Clients, ModifySchema(c)
    PROVE  IInv'
<1>1. /\ cli[c] \in Collection /\ Good(cli[c]) /\ Servers \subseteq Collection
      /\ \A s \in Servers : Good(s) /\ Pair(cli[c], s)
      /\ edits \in Nat /\ edits \in 0..MaxEdits /\ clk \in Nat
      /\ born \in [Objs -> 0..MaxEdits] /\ BornOK
  BY ChangeContext
<1>2. PICK mod \in {cli[c].mod, clk + 1} :
        Change(c, [SetSchemaModified(cli[c], clk + 1) EXCEPT !.mod = mod])
  BY DEF ModifySchema
<1> DEFINE mid == [cli[c] EXCEPT !.scm = clk + 1]
<1>0. PICK new : new = [mid EXCEPT !.mod = mod]
  OBVIOUS
<1>3. edits' = edits /\ born' = born /\ Change(c, new) /\ clk' = clk + 1
      /\ clk + 1 \in Nat /\ mod \in Nat
  <2>1. edits' = edits /\ born' = born
    BY DEF ModifySchema
  <2>2. Change(c, new)
    BY <1>0, <1>2 DEF SetSchemaModified
  <2>3. clk' = clk + 1 /\ clk + 1 \in Nat
    BY <1>1, <2>2 DEF Change, Tick
  <2>4. cli[c].mod \in Nat
    BY <1>1 DEF Collection
  <2> QED  BY <2>1, <2>2, <2>3, <2>4
<1>4. /\ mid \in Collection /\ SameContents(mid, cli[c]) /\ mid.scm = clk + 1
      /\ mid.conf = cli[c].conf
  BY <1>1, <1>3, SetScm DEF SameContents
<1>5. /\ new \in Collection /\ SameContents(new, cli[c]) /\ new.scm = clk + 1
      /\ new.mod = mod /\ new.conf = cli[c].conf
  <2> HIDE DEF mid
  <2> QED  BY <1>0, <1>3, <1>4, SetMod DEF SameContents
<1> HIDE DEF mid
<1>6. Monotone /\ BornOK'
  BY <1>1, <1>3 DEF Monotone, BornOK
<1>7. Good(new)'
  <2>1. cli[c].mod <= clk /\ cli[c].mod \in Nat /\ cli[c].usn > 0
    BY <1>1 DEF Good, Collection
  <2>2. \A o \in Objs : GoodObj(new, o)'
    BY <1>1, <1>3, <1>5, SameContentsGood
  <2> QED  BY <1>1, <1>2, <1>3, <1>5, <2>1, <2>2 DEF Good, SameContents
<1>8. \A s \in Servers : Pair(new, s)
  <2>1. \A s \in Servers : s.scm <= clk /\ s.scm \in Nat
    BY <1>1 DEF Good, Collection
  <2> QED  BY <1>1, <1>5, <2>1 DEF Pair
<1>9. \A s \in Servers : InSync(cli[c], s) => InSync(new, s)
  BY <1>5
     DEF InSync, Alike, SameRow, SameContents, HasPending, PendingRows, PendingGraves
<1> QED
  BY <1>1, <1>2, <1>3, <1>5, <1>6, <1>7, <1>8, <1>9, ChangeInvariant

-----------------------------------------------------------------------------
(* Steps that only forget collections, or move them about.                 *)

LEMMA FewerInvariant ==
    ASSUME IInv, TypeOK', UNCHANGED <<srv, torn, clk, edits, born>>,
           Replicas' \subseteq Replicas, uploads' \subseteq uploads,
           \A c \in Clients : ack'[c] \in {ack[c], NoCol}
    PROVE  IInv'
<1>1. Servers' \subseteq Servers
  BY DEF Servers
<1>2. Monotone /\ BornOK'
  <2>1. edits \in Nat /\ clk \in Nat
    BY Bounds DEF IInv, TypeOK
  <2> QED  BY <2>1 DEF Monotone, BornOK, IInv
<1>3. SchemasApart'
  BY DEF SchemasApart, IInv
<1>4. ModsAgree'
  BY DEF ModsAgree, IInv
<1>5. PICK N : N = {}
  OBVIOUS
<1>6. /\ \A n \in N : Good(n)' /\ Good(n)' /\ Clean(n)
      /\ \A n \in N : \A s \in Servers' : Pair(n, s)
      /\ \A r \in Replicas : \A m \in N : Pair(r, m)
      /\ Replicas' \subseteq Replicas \cup N /\ Servers' \subseteq Servers \cup N
  BY <1>1, <1>5
<1> QED
  BY <1>2, <1>3, <1>4, <1>6, StepPreserves

LEMMA BeginSessionInvariant ==
    ASSUME IInv, NEW c \in Clients, BeginSession(c)
    PROVE  IInv'
<1>1. TypeOK /\ cli[c] \in Collection /\ cli[c] \in Replicas
  BY SetsTyped DEF IInv
<1>2. offers' = {[client |-> c, col |-> cli[c]]} /\ cli' = cli /\ ack' = ack
  BY DEF BeginSession
<1>3. TypeOK'
  BY <1>1, <1>2 DEF TypeOK, BeginSession
<1>4. Replicas' \subseteq Replicas
  BY <1>1, <1>2 DEF Replicas
<1> QED
  BY <1>2, <1>3, <1>4, FewerInvariant DEF BeginSession

LEMMA WithdrawInvariant ==
    ASSUME IInv, NEW x \in offers, Withdraw(x)
    PROVE  IInv'
<1>1. TypeOK'
  BY DEF IInv, TypeOK, Withdraw
<1>2. Replicas' \subseteq Replicas
  BY DEF Replicas, Withdraw
<1> QED
  BY <1>1, <1>2, FewerInvariant DEF Withdraw

LEMMA AdoptInvariant ==
    ASSUME IInv, NEW c \in Clients, Adopt(c)
    PROVE  IInv'
<1>1. TypeOK /\ ack[c] \in Collection /\ ack[c] \in Replicas
  BY DEF IInv, TypeOK, Adopt, Replicas
<1>2. /\ cli' = [cli EXCEPT ![c] = ack[c]] /\ ack' = [ack EXCEPT ![c] = NoCol]
      /\ offers' = offers
  BY DEF Adopt
<1>3. TypeOK'
  BY <1>1, <1>2 DEF TypeOK, Adopt
<1>4. /\ \A d \in Clients : cli'[d] = IF d = c THEN ack[c] ELSE cli[d]
      /\ \A d \in Clients : ack'[d] = IF d = c THEN NoCol ELSE ack[d]
  BY <1>1, <1>2 DEF TypeOK
<1>5. Replicas' \subseteq Replicas
  BY <1>1, <1>2, <1>4 DEF Replicas
<1> QED
  BY <1>3, <1>4, <1>5, FewerInvariant DEF Adopt

LEMMA LoseInvariant ==
    ASSUME IInv, NEW c \in Clients, Lose(c)
    PROVE  IInv'
<1>1. TypeOK /\ ack' = [ack EXCEPT ![c] = NoCol]
  BY DEF IInv, Lose
<1>2. TypeOK'
  BY <1>1 DEF TypeOK, Lose
<1>3. \A d \in Clients : ack'[d] = IF d = c THEN NoCol ELSE ack[d]
  BY <1>1 DEF TypeOK
<1>4. Replicas' \subseteq Replicas
  BY <1>1, <1>3 DEF Replicas, Lose
<1> QED
  BY <1>2, <1>3, <1>4, FewerInvariant DEF Lose

LEMMA DropUploadInvariant ==
    ASSUME IInv, NEW col \in uploads, DropUpload(col)
    PROVE  IInv'
<1>1. TypeOK'
  BY DEF IInv, TypeOK, DropUpload
<1>2. Replicas' \subseteq Replicas
  BY DEF Replicas, DropUpload
<1> QED
  BY <1>1, <1>2, FewerInvariant DEF DropUpload

-----------------------------------------------------------------------------
(* A full sync.                                                            *)

LEMMA BeforeUploadType ==
    ASSUME NEW col \in Collection, NEW now \in Nat
    PROVE  LET new == BeforeUpload(col, now)
           IN  /\ new \in Collection /\ new.mod = now /\ new.scm = now
               /\ new.usn = col.usn + 1
               /\ \A o \in Objs :
                    /\ new.row[o] = IF o \in Decks \/ col.row[o].usn = PendingUsn
                                    THEN Stamped(col.row[o], 0) ELSE col.row[o]
                    /\ new.grave[o] = NoGrave
<1> DEFINE f == [o \in Objs |-> IF o \in Decks \/ col.row[o].usn = PendingUsn
                                THEN StampRow(col.row[o], 0) ELSE col.row[o]]
           g == [o \in Objs |-> NoGrave]
           c1 == [col EXCEPT !.row = f]
           c2 == [c1 EXCEPT !.grave = g]
           c3 == [c2 EXCEPT !.usn = col.usn + 1]
           c4 == [c3 EXCEPT !.scm = now]
           new == [c4 EXCEPT !.mod = now]
<1>1. \A o \in Objs : col.row[o] \in Row
  BY DEF Collection
<1>2. f \in [Objs -> Row] /\ g \in [Objs -> Int]
  BY <1>1, RowConstants DEF NoGrave
<1>3. \A o \in Objs : f[o] = IF o \in Decks \/ col.row[o].usn = PendingUsn
                             THEN Stamped(col.row[o], 0) ELSE col.row[o]
  BY <1>1, RowConstants DEF Stamped
<1>4. BeforeUpload(col, now) = new
  BY DEF BeforeUpload
<1>5. new \in Collection /\ new.row = f /\ new.grave = g /\ new.mod = now
      /\ new.scm = now /\ new.usn = col.usn + 1
  <2>1. c1 \in Collection /\ c1.row = f /\ col.usn + 1 \in Nat
    <3> HIDE DEF f
    <3> QED  BY <1>2, SetRow DEF Collection
  <2>2. c2 \in Collection /\ c2.row = f /\ c2.grave = g
    <3> HIDE DEF f, g, c1
    <3> QED  BY <1>2, <2>1, SetGrave
  <2>3. c3 \in Collection /\ c3.row = f /\ c3.grave = g /\ c3.usn = col.usn + 1
    <3> HIDE DEF f, g, c1, c2
    <3> QED  BY <2>1, <2>2, SetUsn
  <2>4. c4 \in Collection /\ c4.row = f /\ c4.grave = g /\ c4.usn = col.usn + 1
        /\ c4.scm = now
    <3> HIDE DEF f, g, c1, c2, c3
    <3> QED  BY <2>3, SetScm
  <2> HIDE DEF f, g, c1, c2, c3, c4
  <2> QED  BY <2>4, SetMod
<1> HIDE DEF new, f, g
<1>6. \A o \in Objs : g[o] = NoGrave
  BY DEF g
<1> QED
  BY <1>3, <1>4, <1>5, <1>6

LEMMA BeforeUploadGood ==
    ASSUME NEW col \in Collection, NEW new \in Collection, NEW now \in Nat,
           Good(col), new = BeforeUpload(col, now), edits \in Nat
    PROVE  \A o \in Objs : GoodObj(new, o) /\ Clean(new)
<1>1. /\ new.usn = col.usn + 1 /\ col.usn \in Nat
      /\ \A o \in Objs :
           /\ new.row[o] = IF o \in Decks \/ col.row[o].usn = PendingUsn
                           THEN Stamped(col.row[o], 0) ELSE col.row[o]
           /\ new.grave[o] = NoGrave
  <2>1. LET n == BeforeUpload(col, now)
        IN  /\ n.usn = col.usn + 1
            /\ \A o \in Objs :
                 /\ n.row[o] = IF o \in Decks \/ col.row[o].usn = PendingUsn
                               THEN Stamped(col.row[o], 0) ELSE col.row[o]
                 /\ n.grave[o] = NoGrave
    BY BeforeUploadType
  <2> QED  BY <2>1 DEF Collection
<1>2. ASSUME NEW o \in Objs
      PROVE  /\ GoodObj(new, o)
             /\ new.row[o].usn # PendingUsn /\ new.grave[o] # PendingUsn
  <2>1. /\ col.row[o] \in Row /\ col.row[o].ed \in Nat /\ col.row[o].usn \in Int
        /\ PendingUsn = -1 /\ NoGrave = -2 /\ GoodObj(col, o)
    BY RowType DEF Collection, Good, PendingUsn, NoGrave
  <2>2. /\ new.row[o].ed = col.row[o].ed
        /\ new.row[o].usn = 0 \/ new.row[o] = col.row[o]
        /\ new.row[o].usn # -1 /\ new.grave[o] = -2
    <3>1. CASE o \in Decks \/ col.row[o].usn = PendingUsn
      <4>1. new.row[o] = [ed |-> col.row[o].ed, usn |-> 0]
        BY <1>1, <3>1 DEF Stamped
      <4> QED  BY <1>1, <2>1, <4>1
    <3>2. CASE ~(o \in Decks \/ col.row[o].usn = PendingUsn)
      BY <1>1, <2>1, <3>2
    <3> QED  BY <3>1, <3>2
  <2>3. ~Present(new.row[o]) => new.row[o] = Absent
    <3>1. CASE new.row[o] = col.row[o]
      BY <2>1, <3>1 DEF GoodObj
    <3>2. CASE new.row[o] = Stamped(col.row[o], 0)
      BY <2>1, <3>2 DEF GoodObj, Stamped, Present, Absent
    <3> QED  BY <1>1, <3>1, <3>2
  <2>4. new.row[o].usn >= -1 /\ new.row[o].usn < new.usn
    BY <1>1, <2>1, <2>2 DEF GoodObj
  <2> QED
    BY <1>1, <2>1, <2>2, <2>3, <2>4 DEF GoodObj, Present
<1> QED
  BY <1>2 DEF Clean

(* A row is what it is also after the server is told of it.                *)
LEMMA InSyncSelf ==
    ASSUME NEW s \in Collection, Clean(s)
    PROVE  InSync(s, s)
  BY CleanNothingPending DEF InSync, Alike, SameRow

LEMMA PrepareUploadInvariant ==
    ASSUME IInv, NEW c \in Clients, PrepareUpload(c)
    PROVE  IInv'
<1>0. PICK new : new = BeforeUpload(cli[c], clk + 1)
  OBVIOUS
<1>1. /\ cli[c] \in Collection /\ Good(cli[c]) /\ Servers \subseteq Collection
      /\ \A s \in Servers : Good(s)
      /\ edits \in Nat /\ clk \in Nat /\ born \in [Objs -> 0..MaxEdits] /\ BornOK
  BY ChangeContext
<1>2. /\ clk' = clk + 1 /\ clk + 1 \in Nat /\ edits' = edits /\ born' = born
      /\ cli' = [cli EXCEPT ![c] = new] /\ uploads' = uploads \cup {new}
      /\ srv' = srv /\ torn' = torn /\ ack' = ack /\ offers' = offers
  BY <1>0, <1>1 DEF PrepareUpload, Tick
<1>3. new \in Collection /\ new.mod = clk + 1 /\ new.scm = clk + 1 /\ new.usn > 0
  BY <1>0, <1>1, <1>2, BeforeUploadType, SMTT(40) DEF Collection
<1>4. Clean(new) /\ \A o \in Objs : GoodObj(new, o)
  <2>1. \A o \in Objs : GoodObj(new, o) /\ Clean(new)
    BY <1>0, <1>1, <1>2, <1>3, BeforeUploadGood
  <2>2. \A o \in Objs : new.row[o].usn # PendingUsn /\ new.grave[o] # PendingUsn
    BY <2>1 DEF Clean
  <2> QED  BY <2>1, <2>2 DEF Clean
<1>5. Good(new)'
  BY <1>1, <1>2, <1>3, <1>4 DEF Good, GoodObj
<1>6. TypeOK /\ TypeOK' /\ Replicas \subseteq Collection
  BY <1>2, <1>3, SetsTyped DEF IInv, TypeOK
<1>7. Monotone /\ BornOK'
  BY <1>1, <1>2 DEF Monotone, BornOK
<1>8. Replicas' \subseteq Replicas \cup {new} /\ Servers' = Servers \cup {new}
  BY <1>2, <1>6 DEF Replicas, Servers, TypeOK
<1>9. /\ \A r \in Replicas : r.scm <= clk /\ r.mod <= clk /\ r.scm \in Nat /\ r.mod \in Nat
      /\ \A s \in Servers : s.scm <= clk /\ s.mod <= clk /\ s.scm \in Nat /\ s.mod \in Nat
  BY <1>1, <1>6 DEF IInv, Good, Collection
<1>10. Pair(new, new)
  BY <1>3, <1>4, PairSelf DEF Pair, Clean, Collection
<1>11. \A s \in Servers' : Pair(new, s)
  BY <1>1, <1>3, <1>8, <1>9, <1>10 DEF Pair
<1>12. \A r \in Replicas : Pair(r, new)
  BY <1>1, <1>3, <1>9 DEF Pair
<1>13. SchemasApart'
  <2>1. srv \in Servers /\ uploads \subseteq Servers
    BY DEF Servers
  <2>2. \A d \in Clients : ack[d] # NoCol => ack[d] \in Replicas
    BY DEF Replicas
  <2> QED  BY <1>1, <1>2, <1>3, <1>9, <2>1, <2>2 DEF SchemasApart, IInv
<1>14. ModsAgree'
  <2>1. InSync(new, new)
    BY <1>3, <1>4, InSyncSelf
  <2>2. srv \in Servers /\ uploads \subseteq Servers
    BY DEF Servers
  <2> QED  BY <1>1, <1>2, <1>3, <1>8, <1>9, <2>1, <2>2 DEF ModsAgree, IInv
<1>15. PICK N : N = {new}
  OBVIOUS
<1>16. /\ \A n \in N : Good(n)'
       /\ \A m \in N : Good(m)' /\ Clean(m)
       /\ \A n \in N : \A s \in Servers' : Pair(n, s)
       /\ \A r \in Replicas : \A m \in N : Pair(r, m)
       /\ Replicas' \subseteq Replicas \cup N /\ Servers' \subseteq Servers \cup N
  BY <1>4, <1>5, <1>8, <1>11, <1>12, <1>15
<1> QED
  BY <1>6, <1>7, <1>13, <1>14, <1>16, StepPreserves

LEMMA StoreUploadInvariant ==
    ASSUME IInv, NEW col \in uploads, StoreUpload(col)
    PROVE  IInv'
<1>1. TypeOK /\ col \in Collection /\ edits \in Nat /\ clk \in Nat
  BY Bounds DEF IInv, TypeOK
<1>2. /\ srv' = col /\ torn' = FALSE /\ uploads' = uploads \ {col} /\ offers' = {}
      /\ cli' = cli /\ ack' = ack /\ clk' = clk /\ edits' = edits /\ born' = born
  BY DEF StoreUpload
<1>3. TypeOK'
  BY <1>1, <1>2 DEF TypeOK
<1>4. Monotone /\ BornOK'
  BY <1>1, <1>2 DEF Monotone, BornOK, IInv
<1>5. Replicas' \subseteq Replicas /\ Servers' \subseteq Servers
  BY <1>2 DEF Replicas, Servers
<1>6. SchemasApart'
  BY <1>2 DEF SchemasApart, IInv
<1>7. ModsAgree'
  BY <1>2, <1>5 DEF ModsAgree, IInv
<1>8. PICK N : N = {}
  OBVIOUS
<1>9. /\ \A n \in N : Good(n)' /\ Good(n)' /\ Clean(n)
      /\ \A n \in N : \A s \in Servers' : Pair(n, s)
      /\ \A r \in Replicas : \A m \in N : Pair(r, m)
      /\ Replicas' \subseteq Replicas \cup N /\ Servers' \subseteq Servers \cup N
  BY <1>5, <1>8
<1> QED
  BY <1>3, <1>4, <1>6, <1>7, <1>9, StepPreserves

LEMMA DownloadInvariant ==
    ASSUME IInv, NEW c \in Clients, NEW answered \in BOOLEAN, Download(c, answered)
    PROVE  IInv'
<1>0. PICK new : new = BeforeDownload(srv, clk + 1)
  OBVIOUS
<1>1. /\ TypeOK /\ srv \in Collection /\ srv \in Servers /\ uploads \subseteq Servers
      /\ Good(srv) /\ Clean(srv)
      /\ Replicas \subseteq Collection /\ Servers \subseteq Collection
      /\ edits \in Nat /\ clk \in Nat /\ BornOK
  BY SetsTyped, Bounds DEF IInv, TypeOK
<1>2. /\ clk' = clk + 1 /\ clk + 1 \in Nat /\ srv' = new /\ torn' = FALSE /\ offers' = {}
      /\ cli' = cli /\ uploads' = uploads /\ edits' = edits /\ born' = born
      /\ ack' = IF answered THEN [ack EXCEPT ![c] = new] ELSE ack
  BY <1>0, <1>1 DEF Download, Tick
<1>3. /\ new \in Collection /\ new.row = srv.row /\ new.grave = srv.grave
      /\ new.mod = clk + 1 /\ new.scm = srv.scm /\ new.usn = srv.usn + 1
      /\ srv.usn \in Nat /\ srv.usn > 0
  <2>1. srv.usn \in Nat /\ srv.usn + 1 \in Nat /\ srv.usn > 0
    BY <1>1 DEF Collection, Good
  <2>2. PICK mid : mid = [srv EXCEPT !.usn = srv.usn + 1]
    OBVIOUS
  <2>3. mid \in Collection /\ mid.row = srv.row /\ mid.grave = srv.grave
        /\ mid.scm = srv.scm /\ mid.usn = srv.usn + 1
    BY <1>1, <2>1, <2>2, SetUsn
  <2>4. new = [mid EXCEPT !.mod = clk + 1]
    BY <1>0, <1>1, <2>2 DEF BeforeDownload, Collection
  <2> QED  BY <1>2, <2>1, <2>3, <2>4, SetMod
<1>4. Clean(new)
  BY <1>1, <1>3 DEF Clean
<1>5. ASSUME NEW o \in Objs
      PROVE  GoodObj(new, o) /\ new.row[o].usn # PendingUsn
  <2>1. GoodObj(srv, o) /\ srv.row[o].usn \in Int /\ srv.grave[o] \in Int
    BY <1>1, RowType DEF Good, Collection
  <2> QED  BY <1>1, <1>3, <2>1 DEF GoodObj, Clean
<1>6. Good(new)'
  <2>1. srv.scm <= clk /\ srv.scm \in Nat
    BY <1>1 DEF Good, Collection
  <2> QED  BY <1>1, <1>2, <1>3, <1>5, <2>1 DEF Good, GoodObj
<1>7. TypeOK'
  BY <1>1, <1>2, <1>3 DEF TypeOK
<1>8. Monotone /\ BornOK'
  BY <1>1, <1>2 DEF Monotone, BornOK
<1>9. Replicas' \subseteq Replicas \cup {new} /\ Servers' \subseteq Servers \cup {new}
  BY <1>1, <1>2 DEF Replicas, Servers, TypeOK
<1>10. Servers' = {new} \cup uploads
  BY <1>2 DEF Servers
<1>11. Pair(new, new)
  BY <1>3, <1>5, PairSelf DEF Pair
<1>12. \A s \in Servers' : Pair(new, s)
  BY <1>3, <1>10, <1>11 DEF Pair, SchemasApart, IInv
<1>13. ASSUME NEW r \in Replicas
       PROVE  Pair(r, new)
  <2>1. Pair(r, srv) /\ r.usn \in Nat
    BY <1>1 DEF IInv, Pairs, Collection
  <2> QED
    BY <1>3, <2>1 DEF Pair, PairObj, Alike, SameRow, WillSend, WillReceive
<1>14. SchemasApart'
  BY <1>1, <1>2, <1>3 DEF SchemasApart, IInv, TypeOK
<1>15. ModsAgree'
  <2>1. InSync(new, new)
    BY <1>3, <1>4, InSyncSelf
  <2>2. /\ \A r \in Replicas : r.mod <= clk /\ r.mod \in Nat
        /\ \A s \in Servers : s.mod <= clk /\ s.mod \in Nat
    BY <1>1 DEF IInv, Good, Collection
  <2> QED  BY <1>1, <1>2, <1>3, <1>9, <2>1, <2>2 DEF ModsAgree, IInv
<1>16. PICK N : N = {new}
  OBVIOUS
<1>17. /\ \A n \in N : Good(n)'
       /\ \A m \in N : Good(m)' /\ Clean(m)
       /\ \A n \in N : \A s \in Servers' : Pair(n, s)
       /\ \A r \in Replicas : \A m \in N : Pair(r, m)
       /\ Replicas' \subseteq Replicas \cup N /\ Servers' \subseteq Servers \cup N
  BY <1>4, <1>6, <1>9, <1>12, <1>13, <1>16
<1> QED
  BY <1>7, <1>8, <1>14, <1>15, <1>17, StepPreserves

-----------------------------------------------------------------------------
(* A normal sync.                                                          *)

LEMMA FinishType ==
    ASSUME NEW col \in Collection, NEW usn \in Nat, NEW now \in Nat
    PROVE  LET new == Finish(col, usn, now)
           IN  /\ new \in Collection /\ new.mod = now /\ new.usn = usn
               /\ new.scm = col.scm /\ new.conf = col.conf
               /\ new.row = col.row /\ new.grave = col.grave
<1> DEFINE mid == [col EXCEPT !.usn = usn]
<1>1. /\ mid \in Collection /\ mid.usn = usn
      /\ mid.scm = col.scm /\ mid.conf = col.conf
      /\ mid.row = col.row /\ mid.grave = col.grave
  BY SetUsn
<1>2. Finish(col, usn, now) = [mid EXCEPT !.mod = now]
  BY DEF Finish
<1>3. LET new == [mid EXCEPT !.mod = now]
      IN  /\ new \in Collection /\ new.mod = now /\ new.usn = usn
          /\ new.scm = col.scm /\ new.conf = col.conf
          /\ new.row = col.row /\ new.grave = col.grave
  <2> HIDE DEF mid
  <2> QED  BY <1>1, SetMod
<1> QED  BY <1>2, <1>3

(* The collections that a session of a replica with the server gives.      *)
LEMMA MergeContext ==
    ASSUME IInv, NEW r \in Replicas, r.scm = srv.scm
    PROVE  /\ r \in Collection /\ srv \in Collection
           /\ ClientMerged(r, srv) \in Collection /\ ServerMerged(r, srv) \in Collection
           /\ ClientMerged(r, srv).scm = r.scm /\ ServerMerged(r, srv).scm = srv.scm
           /\ ClientMerged(r, srv).conf = ServerMerged(r, srv).conf
           /\ \A o \in Objs :
                /\ Sound(ClientMerged(r, srv), o, srv.usn)
                /\ Sound(ServerMerged(r, srv), o, srv.usn)
                /\ Advances(srv, ServerMerged(r, srv), o, srv.usn)
                /\ Alike(ClientMerged(r, srv), ServerMerged(r, srv), o)
                /\ ClientMerged(r, srv).grave[o] # NoGrave
                     => ServerMerged(r, srv).grave[o] # NoGrave
                /\ r.grave[o] = PendingUsn => ServerMerged(r, srv).grave[o] # NoGrave
                /\ ClocksAgree => ServerMerged(r, srv).row[o].ed =
                     IF \/ r.grave[o] = PendingUsn
                        \/ srv.grave[o] # NoGrave /\ srv.grave[o] >= r.usn
                     THEN 0 ELSE Later(r.row[o], srv.row[o])
<1>1. /\ r \in Collection /\ srv \in Collection /\ Good(r) /\ Good(srv) /\ Clean(srv)
      /\ Pair(r, srv) /\ edits \in Nat /\ born \in [Objs -> Nat]
  BY SetsTyped, Bounds DEF IInv, Pairs, TypeOK
<1>2. r.usn <= srv.usn /\ \A o \in Objs : PairObj(r, srv, o)
  BY <1>1 DEF Pair
<1>3. /\ ClientMerged(r, srv) \in Collection /\ ServerMerged(r, srv) \in Collection
      /\ ClientMerged(r, srv).scm = r.scm /\ ServerMerged(r, srv).scm = srv.scm
      /\ ClientMerged(r, srv).conf = ServerMerged(r, srv).conf
  BY <1>1, MergedByObject DEF SameHead
<1>4. ASSUME NEW o \in Objs
      PROVE  /\ GoodObj(r, o) /\ GoodObj(srv, o) /\ PairObj(r, srv, o)
             /\ srv.row[o].usn # PendingUsn /\ srv.grave[o] # PendingUsn
  BY <1>1, <1>2 DEF Good, Clean
<1> QED
  BY <1>1, <1>2, <1>3, <1>4, MergeObject

(* A session leaves nothing pending and passes the sanity check.           *)
LEMMA SessionAgrees ==
    ASSUME IInv, NEW r \in Replicas, r.scm = srv.scm
    PROVE  LET cm == ClientMerged(r, srv)
               sm == ServerMerged(r, srv)
           IN  /\ ~HasPending(cm) /\ ~HasPending(sm)
               /\ SanityCounts(cm) = SanityCounts(sm)
               /\ cm.conf = sm.conf
               /\ \A o \in Objs : Exact(o) => SameRow(cm, sm, o)
<1>1. PICK cm, sm : cm = ClientMerged(r, srv) /\ sm = ServerMerged(r, srv)
  OBVIOUS
<1>2. /\ cm \in Collection /\ sm \in Collection /\ cm.conf = sm.conf
      /\ \A o \in Objs : /\ Sound(cm, o, srv.usn) /\ Sound(sm, o, srv.usn)
                         /\ Alike(cm, sm, o)
  BY <1>1, MergeContext
<1>3. Clean(cm) /\ Clean(sm)
  BY <1>2 DEF Clean, Sound, PendingUsn, NoGrave
<1>4. ASSUME NEW ids \in SUBSET Objs
      PROVE  CountOf(cm, ids) = CountOf(sm, ids)
  <2>1. {o \in ids : Present(cm.row[o])} = {o \in ids : Present(sm.row[o])}
    BY <1>2 DEF Alike
  <2> QED  BY <2>1 DEF CountOf
<1>5. SanityCounts(cm) = SanityCounts(sm)
  BY <1>4 DEF SanityCounts, Objs, Chunked
<1> QED
  BY <1>1, <1>2, <1>3, <1>5, CleanNothingPending DEF Alike

LEMMA SoundGood ==
    ASSUME NEW col \in Collection, NEW o \in Objs, NEW u \in Nat,
           Sound(col, o, u), col.usn = u + 1
    PROVE  GoodObj(col, o) /\ col.row[o].usn # PendingUsn /\ col.grave[o] # PendingUsn
<1>1. col.row[o].usn \in Int /\ col.grave[o] \in Int
  BY RowType DEF Collection
<1> QED  BY <1>1 DEF Sound, GoodObj, PendingUsn, NoGrave

LEMMA CommitSessionInvariant ==
    ASSUME IInv, NEW x \in offers, NEW answered \in BOOLEAN,
           NEW crash \in BOOLEAN, CommitSession(x, answered, crash)
    PROVE  IInv'
<1>0. PICK cm, sm, cn, sn, N :
        /\ cm = ClientMerged(x.col, srv) /\ sm = ServerMerged(x.col, srv)
        /\ cn = Finish(cm, srv.usn + 1, clk + 1)
        /\ sn = Finish(sm, srv.usn + 1, IF crash THEN srv.mod ELSE clk + 1)
        /\ N = IF answered THEN {cn} ELSE {}
  OBVIOUS
<1>1. /\ TypeOK /\ srv \in Collection /\ srv \in Servers /\ uploads \subseteq Servers
      /\ Good(srv) /\ Servers \subseteq Collection /\ Replicas \subseteq Collection
      /\ edits \in Nat /\ clk \in Nat /\ BornOK
      /\ x.col \in Replicas /\ x.client \in Clients
  <2>1. x.col \in Replicas /\ x.client \in Clients
    BY DEF Replicas, IInv, TypeOK
  <2> QED  BY <2>1, SetsTyped, Bounds DEF IInv, TypeOK
<1>2. /\ clk' = clk + 1 /\ clk + 1 \in Nat /\ x.col.scm = srv.scm
      /\ answered => ~crash
      /\ srv' = sn /\ torn' = crash /\ offers' = offers \ {x}
      /\ ack' = IF answered THEN [ack EXCEPT ![x.client] = cn] ELSE ack
      /\ cli' = cli /\ uploads' = uploads /\ edits' = edits /\ born' = born
  BY <1>0, <1>1 DEF CommitSession, Tick, NormalSyncRequired
<1>3. /\ cm \in Collection /\ sm \in Collection
      /\ cm.scm = srv.scm /\ sm.scm = srv.scm /\ cm.conf = sm.conf
      /\ \A o \in Objs :
           /\ Sound(cm, o, srv.usn) /\ Sound(sm, o, srv.usn)
           /\ Advances(srv, sm, o, srv.usn) /\ Alike(cm, sm, o)
           /\ cm.grave[o] # NoGrave => sm.grave[o] # NoGrave
  BY <1>0, <1>1, <1>2, MergeContext
<1>4. /\ srv.usn \in Nat /\ srv.usn + 1 \in Nat /\ srv.mod \in Nat
      /\ srv.mod <= clk /\ srv.scm <= clk /\ srv.scm \in Nat
  BY <1>1 DEF Collection, Good
<1>5. /\ cn \in Collection /\ cn.usn = srv.usn + 1 /\ cn.scm = srv.scm
      /\ cn.mod = clk + 1 /\ cn.conf = cm.conf /\ cn.row = cm.row /\ cn.grave = cm.grave
  <2>1. PICK usn \in Nat, now \in Nat : usn = srv.usn + 1 /\ now = clk + 1
    BY <1>2, <1>4
  <2>2. LET new == Finish(cm, usn, now)
        IN  /\ new \in Collection /\ new.mod = now /\ new.usn = usn
            /\ new.scm = cm.scm /\ new.conf = cm.conf
            /\ new.row = cm.row /\ new.grave = cm.grave
    BY <1>3, FinishType
  <2> QED  BY <1>0, <1>3, <2>1, <2>2
<1>6. /\ sn \in Collection /\ sn.usn = srv.usn + 1 /\ sn.scm = srv.scm
      /\ sn.mod = IF crash THEN srv.mod ELSE clk + 1
      /\ sn.conf = sm.conf /\ sn.row = sm.row /\ sn.grave = sm.grave
  <2>1. PICK usn \in Nat, now \in Nat :
          usn = srv.usn + 1 /\ now = IF crash THEN srv.mod ELSE clk + 1
    BY <1>2, <1>4
  <2>2. LET new == Finish(sm, usn, now)
        IN  /\ new \in Collection /\ new.mod = now /\ new.usn = usn
            /\ new.scm = sm.scm /\ new.conf = sm.conf
            /\ new.row = sm.row /\ new.grave = sm.grave
    BY <1>3, FinishType
  <2> QED  BY <1>0, <1>3, <2>1, <2>2
<1>7. ASSUME NEW o \in Objs
      PROVE  /\ Sound(cn, o, srv.usn) /\ Sound(sn, o, srv.usn)
             /\ Advances(srv, sn, o, srv.usn) /\ Alike(cn, sn, o)
             /\ cn.grave[o] # NoGrave => sn.grave[o] # NoGrave
  BY <1>3, <1>5, <1>6 DEF Sound, Advances, Alike, SameRow
<1>8. /\ Clean(cn) /\ Clean(sn)
      /\ \A o \in Objs : GoodObj(cn, o) /\ GoodObj(sn, o)
  BY <1>4, <1>5, <1>6, <1>7, SoundGood DEF Clean
<1>9. Good(cn)' /\ Good(sn)'
  BY <1>1, <1>2, <1>4, <1>5, <1>6, <1>8 DEF Good, GoodObj
<1>10. TypeOK'
  BY <1>1, <1>2, <1>5, <1>6 DEF TypeOK
<1>11. Monotone /\ BornOK'
  BY <1>1, <1>2 DEF Monotone, BornOK
<1>12. Replicas' \subseteq Replicas \cup N
  <2>1. \A d \in Clients : ack'[d] = IF answered /\ d = x.client THEN cn ELSE ack[d]
    BY <1>1, <1>2 DEF TypeOK
  <2> QED  BY <1>0, <1>2, <2>1 DEF Replicas
<1>13. Servers' = {sn} \cup uploads
  BY <1>2 DEF Servers
<1>14. Pair(cn, sn)
  BY <1>4, <1>5, <1>6, <1>7, PairMerged DEF Pair
<1>15. \A n \in N : \A s \in Servers' : Pair(n, s)
  <2>1. \A u \in uploads : Pair(cn, u)
    BY <1>5 DEF Pair, SchemasApart, IInv
  <2> QED  BY <1>0, <1>13, <1>14, <2>1
<1>16. ASSUME NEW r \in Replicas
       PROVE  Pair(r, sn)
  <2> SUFFICES ASSUME r.scm = sn.scm
               PROVE  r.usn <= sn.usn /\ \A o \in Objs : PairObj(r, sn, o)
    BY DEF Pair
  <2>1. /\ Pair(r, srv) /\ r \in Collection /\ r.usn \in Nat /\ Good(r)
    BY <1>1 DEF IInv, Pairs, Collection
  <2>2. r.usn <= srv.usn /\ \A o \in Objs : PairObj(r, srv, o)
    BY <1>6, <2>1 DEF Pair
  <2>3. ASSUME NEW o \in Objs
        PROVE  PairObj(r, sn, o)
    <3>1. GoodObj(r, o) /\ GoodObj(srv, o)
      BY <1>1, <2>1 DEF Good
    <3> QED  BY <1>1, <1>6, <1>7, <2>1, <2>2, <3>1, PairAdvances
  <2> QED  BY <1>4, <1>6, <2>1, <2>2, <2>3
<1>17. SchemasApart'
  BY <1>1, <1>2, <1>5, <1>6 DEF SchemasApart, IInv, TypeOK
<1>18. ModsAgree'
  <2>1. InSync(cn, sn)
    BY <1>3, <1>5, <1>6, <1>7, <1>8, CleanNothingPending DEF InSync, Alike
  <2>2. /\ \A r \in Replicas : r.mod <= clk /\ r.mod \in Nat
        /\ \A s \in Servers : s.mod <= clk /\ s.mod \in Nat
    BY <1>1 DEF IInv, Good, Collection
  <2>3. ASSUME NEW r \in Replicas', ~crash, r.mod = sn.mod
        PROVE  InSync(r, sn)
    BY <1>0, <1>1, <1>6, <1>12, <2>1, <2>2, <2>3
  <2>4. ASSUME NEW r \in Replicas', NEW u \in uploads, r.mod = u.mod
        PROVE  InSync(r, u)
    <3>1. u.mod <= clk /\ u.mod \in Nat
      BY <1>1, <2>2
    <3>2. r \notin N
      BY <1>0, <1>1, <1>5, <2>4, <3>1
    <3> QED  BY <1>12, <2>4, <3>2 DEF ModsAgree, IInv
  <2> QED  BY <1>2, <2>3, <2>4 DEF ModsAgree
<1>19. PICK M : M = {sn}
  OBVIOUS
<1>20. /\ \A n \in N : Good(n)'
       /\ \A m \in M : Good(m)' /\ Clean(m)
       /\ \A r \in Replicas : \A m \in M : Pair(r, m)
       /\ Servers' \subseteq Servers \cup M
  BY <1>0, <1>8, <1>9, <1>13, <1>16, <1>19 DEF Servers
<1> QED
  BY <1>10, <1>11, <1>12, <1>15, <1>17, <1>18, <1>20, StepPreserves

-----------------------------------------------------------------------------
(* The theorems.                                                           *)

LEMMA StutterInvariant ==
    ASSUME IInv, UNCHANGED vars
    PROVE  IInv'
<1> USE DEF vars
<1>1. /\ TypeOK' /\ Replicas' \subseteq Replicas /\ uploads' \subseteq uploads
      /\ \A c \in Clients : ack'[c] \in {ack[c], NoCol}
  BY DEF IInv, TypeOK, Replicas
<1> QED  BY <1>1, FewerInvariant

LEMMA NextInvariant ==
    ASSUME IInv, [Next]_vars
    PROVE  IInv'
<1>1. CASE UNCHANGED vars
  BY <1>1, StutterInvariant
<1>2. ASSUME NEW c \in Clients, LocalChange(c)
      PROVE  IInv'
  BY <1>2, AddInvariant, EditInvariant, RemoveInvariant, SetConfigInvariant,
     ModifySchemaInvariant DEF LocalChange
<1>3. ASSUME NEW c \in Clients, BeginSession(c) \/ Adopt(c) \/ Lose(c)
      PROVE  IInv'
  BY <1>3, BeginSessionInvariant, AdoptInvariant, LoseInvariant
<1>4. ASSUME NEW c \in Clients,
             PrepareUpload(c) \/ (\E answered \in BOOLEAN : Download(c, answered))
      PROVE  IInv'
  BY <1>4, PrepareUploadInvariant, DownloadInvariant
<1>5. ASSUME NEW x \in offers,
             \/ Withdraw(x)
             \/ \E answered, crash \in BOOLEAN : CommitSession(x, answered, crash)
      PROVE  IInv'
  BY <1>5, WithdrawInvariant, CommitSessionInvariant
<1>6. ASSUME NEW col \in uploads, StoreUpload(col) \/ DropUpload(col)
      PROVE  IInv'
  BY <1>6, StoreUploadInvariant, DropUploadInvariant
<1> QED
  BY <1>1, <1>2, <1>3, <1>4, <1>5, <1>6 DEF Next

(* The inductive invariant: every replica that shares the server's schema  *)
(* is tied to it object by object, the more closely the better the clocks  *)
(* tell edits apart.                                                       *)
THEOREM Inductive == Spec => []IInv
<1>1. Init => IInv
  BY InitInvariant
<1>2. IInv /\ [Next]_vars => IInv'
  BY NextInvariant
<1> QED
  BY <1>1, <1>2, PTL DEF Spec

(* Every variable keeps its type: usns, timestamps and edits never become  *)
(* negative, whatever a session merges.                                    *)
THEOREM TypeCorrect == Spec => []TypeOK
<1>1. IInv => TypeOK
  BY DEF IInv
<1> QED
  BY <1>1, Inductive, PTL

(* The usn bookkeeping of a sync is complete: whatever a client and the    *)
(* server disagree on is marked to be sent by one of them, after any       *)
(* sequence of changes, sessions, lost answers, crashes and full syncs.    *)
THEOREM UpdatesAreNotMissed ==
    ASSUME ClocksAgree
    PROVE  Spec => []NoMissedUpdate
<1>1. IInv => NoMissedUpdate
  BY SetsTyped DEF IInv, Pairs, Pair, PairObj, Alike, Exact, NoMissedUpdate, Scheduled
<1> QED
  BY <1>1, Inductive, PTL

(* A client that skips the sync because the modification times are equal   *)
(* has what the server has.                                                *)
THEOREM EqualTimesMeanInSync ==
    ASSUME ClocksAgree
    PROVE  Spec => []NoChangesMeansInSync
<1>1. IInv => NoChangesMeansInSync
  BY SetsTyped DEF IInv, ModsAgree, InSync, Alike, Exact, SameData, NoChangesMeansInSync
<1> QED
  BY <1>1, Inductive, PTL

(* A session leaves the later edit of each row on both sides, unless one   *)
(* of them deleted the row.                                                *)
THEOREM SessionsKeepLaterEdits ==
    ASSUME ClocksAgree
    PROVE  Spec => []LaterEditSurvives
<1>1. IInv => LaterEditSurvives
  <2> SUFFICES ASSUME IInv, NEW c \in Clients, NEW o \in Objs,
                      NormalSyncRequired(cli[c], srv.mod, srv.scm)
               PROVE  LET dead == PendingGraves(cli[c], PendingUsn)
                                    \cup PendingGraves(srv, cli[c].usn)
                          kept == IF o \in dead THEN 0
                                  ELSE Later(cli[c].row[o], srv.row[o])
                      IN  /\ ClientMerged(cli[c], srv).row[o].ed = kept
                          /\ ServerMerged(cli[c], srv).row[o].ed = kept
    BY DEF LaterEditSurvives
  <2>1. /\ cli[c] \in Replicas /\ cli[c].scm = srv.scm
        /\ cli[c] \in Collection /\ srv \in Collection /\ cli[c].usn \in Nat
    BY SetsTyped DEF NormalSyncRequired, IInv, Collection
  <2>2. /\ SameRow(ClientMerged(cli[c], srv), ServerMerged(cli[c], srv), o)
        /\ ServerMerged(cli[c], srv).row[o].ed =
             IF \/ cli[c].grave[o] = PendingUsn
                \/ srv.grave[o] # NoGrave /\ srv.grave[o] >= cli[c].usn
             THEN 0 ELSE Later(cli[c].row[o], srv.row[o])
    BY <2>1, MergeContext DEF Alike, Exact
  <2>3. o \in PendingGraves(cli[c], PendingUsn) \cup PendingGraves(srv, cli[c].usn) <=>
          \/ cli[c].grave[o] = PendingUsn
          \/ srv.grave[o] # NoGrave /\ srv.grave[o] >= cli[c].usn
    BY <2>1, PendingSets
  <2> QED  BY <2>2, <2>3 DEF SameRow
<1> QED
  BY <1>1, Inductive, PTL
=============================================================================
