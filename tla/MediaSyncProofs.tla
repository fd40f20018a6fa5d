--------------------------- MODULE MediaSyncProofs ---------------------------
(***************************************************************************)
(* Proofs about MediaSync, for any devices, files, contents and limits.    *)
(*                                                                         *)
(* First, under Spec, where anything may happen at any time: the server's  *)
(* books (ServerTidy), the types, and that a sync removes a file only when *)
(* the server has confirmed its deletion.  The inductive invariant is      *)
(* MediaInv: besides the types it says that a known row has a usn, which   *)
(* is what keeps usns apart when the server forgets a file and is sent it  *)
(* again, and that a row without a file has been confirmed.                *)
(*                                                                         *)
(* Then, under SerialSpec, what a device has learnt at each point of a     *)
(* sync (SerialInv), which gives CleanMeansSynced and SanityPasses.  That  *)
(* needs Plain: a device drops the row of a content that cannot be synced, *)
(* and a file written over with its mtime kept is uploaded as something    *)
(* that its row does not say.                                              *)
(***************************************************************************)
EXTENDS MediaSync, FiniteSetTheorems, SequenceTheorems, TLAPS

Processing == INSTANCE FoldFacts WITH op <- RegisterChange

-----------------------------------------------------------------------------
(* Lists of names.                                                         *)

Injective(seq) == \A i, j \in 1..Len(seq) : seq[i] = seq[j] => i = j

(* A list of names has each of them once.                                  *)
LEMMA NameListsAre ==
    ASSUME NEW seq
    PROVE  seq \in NameLists <=> seq \in Seq(Files) /\ Injective(seq)
<1>1. ASSUME seq \in NameLists
      PROVE  seq \in Seq(Files) /\ Injective(seq)
    <2>1. PICK S \in SUBSET Files : seq \in SetToSeqs(S)
        BY <1>1 DEF NameLists
    <2>2. IsFiniteSet(S)
        BY MediaParameters, FS_Subset
    <2>3. Cardinality(S) \in Nat
        BY <2>2, FS_CardinalityType
    <2>4. /\ seq \in [1..Cardinality(S) -> S]
          /\ \A i, j \in 1..Cardinality(S) : i # j => seq[i] # seq[j]
        BY <2>1 DEF SetToSeqs
    <2>5. seq \in Seq(Files) /\ Len(seq) = Cardinality(S)
        BY <2>3, <2>4
    <2>6. QED
        BY <2>4, <2>5 DEF Injective
<1>2. ASSUME seq \in Seq(Files), Injective(seq)
      PROVE  seq \in NameLists
    <2> DEFINE n == Len(seq)
               S == {seq[i] : i \in 1..n}
    <2>1. n \in Nat /\ seq \in [1..n -> Files] /\ DOMAIN seq = 1..n
        BY <1>2, LenProperties
    <2>2. seq \in [1..n -> S] /\ S \in SUBSET Files
        BY <2>1
    <2>3. seq \in Bijection(1..n, S)
        BY <1>2, <2>2 DEF Injective, Bijection, Injection, Surjection, IsInjective
    <2>4. Cardinality(S) = n
        <3>1. ExistsBijection(1..n, S)
            BY <2>3 DEF ExistsBijection
        <3> HIDE DEF S, n
        <3>2. QED
            BY <3>1, <2>1, FS_CountingElements
    <2>5. \A i, j \in 1..n : i # j => seq[i] # seq[j]
        BY <1>2 DEF Injective
    <2>6. seq \in SetToSeqs(S)
        <3> HIDE DEF S, n
        <3>1. QED
            BY <2>2, <2>4, <2>5 DEF SetToSeqs
    <2>7. QED
        BY <2>2, <2>6 DEF NameLists
<1>3. QED
    BY <1>1, <1>2

(* The intermediate results of Only.                                       *)
LEMMA OnlyTrace ==
    ASSUME NEW X, NEW seq \in Seq(X), NEW S
    PROVE  \E t : /\ t[0] = <<>>
                  /\ \A k \in 1..Len(seq) :
                       t[k] = IF seq[k] \in S THEN Append(t[k - 1], seq[k]) ELSE t[k - 1]
                  /\ t[Len(seq)] = Only(seq, S)
<1> DEFINE n == Len(seq)
           F(t, m) == t = [i \in 0..m |-> IF i = 0 THEN <<>>
                             ELSE IF seq[i] \in S THEN Append(t[i - 1], seq[i]) ELSE t[i - 1]]
           H == {m \in 0..n : \E t : F(t, m)}
<1>0. n \in Nat
    BY LenProperties
<1>1. 0 \in H
    <2>1. F([i \in 0..0 |-> <<>>], 0)
        OBVIOUS
    <2>2. 0 \in 0..n
        BY <1>0
    <2>3. QED
        BY <2>1, <2>2
<1>2. \A m \in 0..(n-1) : m \in H => m + 1 \in H
    <2> SUFFICES ASSUME NEW m \in 0..(n-1), NEW t, F(t, m)
                 PROVE  m + 1 \in H
        OBVIOUS
    <2> DEFINE u == [i \in 0..(m+1) |-> IF i = m + 1
                       THEN IF seq[i] \in S THEN Append(t[i - 1], seq[i]) ELSE t[i - 1]
                       ELSE t[i]]
    <2>1. \A i \in 0..m : u[i] = t[i]
        BY <1>0
    <2>2. \A i \in 0..(m+1) : u[i] = IF i = 0 THEN <<>>
                             ELSE IF seq[i] \in S THEN Append(u[i - 1], seq[i]) ELSE u[i - 1]
        <3>1. CASE m + 1 = 0
            BY <1>0, <3>1
        <3> SUFFICES ASSUME NEW i \in 0..(m+1)
                     PROVE  u[i] = IF i = 0 THEN <<>>
                             ELSE IF seq[i] \in S THEN Append(u[i - 1], seq[i]) ELSE u[i - 1]
            OBVIOUS
        <3>2. CASE i = m + 1
            <4>1. i # 0 /\ i - 1 \in 0..m
                BY <1>0, <3>2
            <4>2. u[i - 1] = t[i - 1]
                BY <2>1, <4>1
            <4>3. QED
                BY <3>2, <4>1, <4>2
        <3>3. CASE i \in 0..m
            <4>1. t[i] = IF i = 0 THEN <<>>
                         ELSE IF seq[i] \in S THEN Append(t[i - 1], seq[i]) ELSE t[i - 1]
                BY <3>3
            <4>2. i # 0 => i - 1 \in 0..m
                BY <1>0, <3>3
            <4> HIDE DEF u, F
            <4>3. QED
                BY <2>1, <3>3, <4>1, <4>2
        <3>4. QED
            BY <1>0, <3>2, <3>3
    <2>3. F(u, m + 1)
        BY <2>2
    <2>4. m + 1 \in 0..n
        BY <1>0
    <2>5. QED
        BY <2>3, <2>4
<1>3. H = 0..n
    <2> HIDE DEF H
    <2>1. H \in SUBSET (0..n)
        BY DEF H
    <2>2. QED
        BY <1>0, <1>1, <1>2, <2>1, Processing!Induct
<1>4. \E t : F(t, n)
    <2>1. n \in H
        <3> HIDE DEF H, n
        <3>1. QED
            BY <1>0, <1>3
    <2>2. QED
        BY <2>1
<1> DEFINE t == CHOOSE t : F(t, n)
<1>5. F(t, n)
    BY <1>4
<1>6. Only(seq, S) = t[n]
    BY Zenon DEF Only
<1> HIDE DEF t
<1>7. t[0] = <<>>
    BY <1>0, <1>5
<1>8. \A k \in 1..n : t[k] = IF seq[k] \in S THEN Append(t[k - 1], seq[k]) ELSE t[k - 1]
    <2> SUFFICES ASSUME NEW k \in 1..n
                 PROVE  t[k] = IF seq[k] \in S THEN Append(t[k - 1], seq[k]) ELSE t[k - 1]
        OBVIOUS
    <2>1. k \in 0..n /\ k # 0
        BY <1>0
    <2>2. t[k] = [i \in 0..n |-> IF i = 0 THEN <<>>
                    ELSE IF seq[i] \in S THEN Append(t[i - 1], seq[i]) ELSE t[i - 1]][k]
        BY <1>5
    <2> HIDE DEF n
    <2>3. QED
        BY <2>1, <2>2
<1>9. QED
    BY <1>6, <1>7, <1>8


LEMMA InRange ==
    ASSUME NEW X, NEW seq \in Seq(X), NEW x
    PROVE  x \in Range(seq) <=> \E i \in 1..Len(seq) : x = seq[i]
BY LenProperties DEF Range

(* Only keeps the elements of S, each as often as before.                  *)
LEMMA OnlySelects ==
    ASSUME NEW X, NEW seq \in Seq(X), NEW S
    PROVE  /\ Only(seq, S) \in Seq(X)
           /\ Range(Only(seq, S)) = Range(seq) \cap S
           /\ Injective(seq) => Injective(Only(seq, S))
<1> DEFINE n == Len(seq)
<1>0. n \in Nat /\ \A k \in 1..n : seq[k] \in X
    BY LenProperties, ElementOfSeq
<1>1. PICK t : /\ t[0] = <<>>
               /\ \A k \in 1..n :
                    t[k] = IF seq[k] \in S THEN Append(t[k - 1], seq[k]) ELSE t[k - 1]
               /\ t[n] = Only(seq, S)
    BY OnlyTrace
<1> DEFINE Good(k) == /\ t[k] \in Seq(X)
                      /\ \A i \in 1..Len(t[k]) :
                           \E j \in 1..k : seq[j] \in S /\ t[k][i] = seq[j]
                      /\ \A j \in 1..k : seq[j] \in S => \E i \in 1..Len(t[k]) : t[k][i] = seq[j]
                      /\ Injective(seq) => Injective(t[k])
           H == {k \in 0..n : Good(k)}
<1>2. 0 \in H
    <2>1. Good(0)
        <3>1. Len(<<>>) = 0 /\ <<>> \in Seq(X)
            BY EmptySeq
        <3>2. 1..0 = {}
            OBVIOUS
        <3>3. QED
            BY <1>1, <3>1, <3>2 DEF Injective
    <2> HIDE DEF Good
    <2>2. QED
        BY <1>0, <2>1
<1>3. ASSUME NEW k \in 0..(n-1), Good(k)
      PROVE  Good(k + 1)
    <2> DEFINE s == t[k]
               x == seq[k + 1]
    <2>1. k \in Nat /\ k + 1 \in 1..n /\ (k + 1) - 1 = k
        BY <1>0
    <2>2. t[k + 1] = IF x \in S THEN Append(s, x) ELSE s
        BY <1>1, <2>1
    <2>3. x \in X
        BY <1>0, <2>1
    <2>4. 1..(k + 1) = (1..k) \cup {k + 1}
        BY <2>1
    <2>5. CASE x \notin S
        <3>1. t[k + 1] = s
            BY <2>2, <2>5
        <3>2. \A j \in 1..(k+1) : seq[j] \in S => j \in 1..k
            BY <2>4, <2>5
        <3> HIDE DEF s, x
        <3>3. QED
            BY <1>3, <2>4, <3>1, <3>2 DEF s
    <2>6. CASE x \in S
        <3>0. t[k + 1] = Append(s, x)
            BY <2>2, <2>6
        <3>1. s \in Seq(X) /\ Len(s) \in Nat
            BY <1>3, LenProperties
        <3> DEFINE l == Len(s)
                   u == Append(s, x)
        <3>2. /\ u \in Seq(X) /\ Len(u) = l + 1
              /\ \A i \in 1..l : u[i] = s[i]
              /\ u[l + 1] = x
            <4> HIDE DEF x
            <4>1. QED
                BY <2>3, <3>1, AppendProperties
        <3>3. 1..(l + 1) = (1..l) \cup {l + 1}
            BY <3>1
        <3>4. /\ \A i \in 1..l : \E j \in 1..k : seq[j] \in S /\ s[i] = seq[j]
              /\ \A j \in 1..k : seq[j] \in S => \E i \in 1..l : s[i] = seq[j]
            BY <1>3
        <3>5. Injective(seq) => Injective(u)
            <4> SUFFICES ASSUME Injective(seq), NEW i \in 1..Len(u), NEW j \in 1..Len(u), u[i] = u[j]
                         PROVE  i = j
                BY DEF Injective
            <4>1. \A a, b \in 1..l : s[a] = s[b] => a = b
                BY <1>3 DEF Injective
            <4>2. \A a \in 1..l : s[a] # x
                <5> SUFFICES ASSUME NEW a \in 1..l, s[a] = x PROVE FALSE
                    OBVIOUS
                <5>1. PICK b \in 1..k : s[a] = seq[b]
                    BY <3>4
                <5>2. b \in 1..n /\ b # k + 1
                    BY <2>1
                <5>3. QED
                    BY <2>1, <5>1, <5>2 DEF Injective
            <4> HIDE DEF l, u, x, s
            <4>3. QED
                BY <3>2, <3>3, <4>1, <4>2
        <3> HIDE DEF l, u, s
        <3>6. \A i \in 1..Len(u) : \E j \in 1..(k+1) : seq[j] \in S /\ u[i] = seq[j]
            BY <2>4, <2>6, <3>2, <3>3, <3>4, SMTT(40)
        <3>7. \A j \in 1..(k+1) : seq[j] \in S => \E i \in 1..Len(u) : u[i] = seq[j]
            BY <2>4, <3>2, <3>3, <3>4
        <3>8. t[k + 1] = u
            BY <3>0 DEF u
        <3>9. QED
            BY <3>2, <3>5, <3>6, <3>7, <3>8
    <2>7. QED
        BY <2>5, <2>6
<1>4. H = 0..n
    <2>1. \A k \in 0..(n-1) : k \in H => k + 1 \in H
        <3> SUFFICES ASSUME NEW k \in 0..(n-1), k \in H PROVE k + 1 \in H
            OBVIOUS
        <3>1. Good(k + 1)
            BY <1>3
        <3>2. k + 1 \in 0..n
            BY <1>0
        <3> HIDE DEF Good
        <3>3. QED
            BY <3>1, <3>2
    <2> HIDE DEF H
    <2>2. H \in SUBSET (0..n)
        BY DEF H
    <2>3. QED
        BY <1>0, <1>2, <2>1, <2>2, Processing!Induct
<1>5. Good(n)
    <2>1. n \in H
        <3> HIDE DEF H, n
        <3>1. QED
            BY <1>0, <1>4
    <2>2. QED
        BY <2>1
<1> DEFINE o == Only(seq, S)
<1>6. /\ o \in Seq(X)
      /\ \A i \in 1..Len(o) : \E j \in 1..n : seq[j] \in S /\ o[i] = seq[j]
      /\ \A j \in 1..n : seq[j] \in S => \E i \in 1..Len(o) : o[i] = seq[j]
      /\ Injective(seq) => Injective(o)
    BY <1>1, <1>5
<1> HIDE DEF o, n
<1>7. Range(o) = Range(seq) \cap S
    <2>1. \A x : x \in Range(o) <=> \E i \in 1..Len(o) : x = o[i]
        BY <1>6, InRange
    <2>2. \A x : x \in Range(seq) <=> \E i \in 1..n : x = seq[i]
        BY InRange DEF n
    <2>3. QED
        BY <1>6, <2>1, <2>2
<1>8. QED
    BY <1>6, <1>7 DEF o

-----------------------------------------------------------------------------
(* The order of a page of changes.                                         *)

Rank(files, f) == Cardinality({g \in files : server.entry[g].usn <= server.entry[f].usn})

(* Different changes have usns of their own.                               *)
Ordered(files) ==
    /\ files \subseteq Files
    /\ \A f \in files : server.entry[f].usn \in Nat
    /\ \A f, g \in files : server.entry[f].usn = server.entry[g].usn => f = g

LEMMA RankOrders ==
    ASSUME NEW files, Ordered(files)
    PROVE  /\ IsFiniteSet(files) /\ Cardinality(files) \in Nat
           /\ \A f \in files : Rank(files, f) \in 1..Cardinality(files)
           /\ \A f, g \in files : server.entry[f].usn < server.entry[g].usn
                                    => Rank(files, f) < Rank(files, g)
<1> DEFINE upTo(f) == {g \in files : server.entry[g].usn <= server.entry[f].usn}
<1>1. IsFiniteSet(files) /\ Cardinality(files) \in Nat
    BY MediaParameters, FS_Subset, FS_CardinalityType DEF Ordered
<1>2. \A f \in files : /\ IsFiniteSet(upTo(f)) /\ Cardinality(upTo(f)) \in Nat
                       /\ Cardinality(upTo(f)) <= Cardinality(files)
    <2> SUFFICES ASSUME NEW f \in files
                 PROVE  /\ IsFiniteSet(upTo(f)) /\ Cardinality(upTo(f)) \in Nat
                        /\ Cardinality(upTo(f)) <= Cardinality(files)
        OBVIOUS
    <2>1. upTo(f) \in SUBSET files
        OBVIOUS
    <2> HIDE DEF upTo
    <2>2. QED
        BY <1>1, <2>1, FS_Subset, FS_CardinalityType
<1>3. \A f \in files : Cardinality(upTo(f)) # 0
    <2> SUFFICES ASSUME NEW f \in files PROVE Cardinality(upTo(f)) # 0
        OBVIOUS
    <2>1. f \in upTo(f)
        BY DEF Ordered
    <2> HIDE DEF upTo
    <2>2. QED
        BY <1>2, <2>1, FS_EmptySet
<1>4. ASSUME NEW f \in files, NEW g \in files, server.entry[f].usn < server.entry[g].usn
      PROVE  Cardinality(upTo(f)) < Cardinality(upTo(g))
    <2>1. upTo(f) \in SUBSET upTo(g) /\ g \in upTo(g) /\ g \notin upTo(f)
        BY <1>4 DEF Ordered
    <2> HIDE DEF upTo
    <2>2. Cardinality(upTo(f)) <= Cardinality(upTo(g))
        BY <1>2, <2>1, FS_Subset
    <2>3. Cardinality(upTo(f)) # Cardinality(upTo(g))
        BY <1>2, <2>1, FS_Subset
    <2>4. QED
        BY <1>2, <2>2, <2>3
<1>5. \A f \in files : Rank(files, f) = Cardinality(upTo(f))
    BY DEF Rank
<1> HIDE DEF upTo
<1>6. QED
    BY <1>1, <1>2, <1>3, <1>4, <1>5

(* InOrder lists each file once, in the order of the usns.                 *)
LEMMA InOrderSorts ==
    ASSUME NEW files, Ordered(files)
    PROVE  LET order == InOrder(files)
           IN  /\ order \in [1..Cardinality(files) -> files]
               /\ Cardinality(files) \in Nat
               /\ \A f \in files : \E i \in 1..Cardinality(files) : order[i] = f
               /\ \A i, j \in 1..Cardinality(files) :
                    i < j => server.entry[order[i]].usn < server.entry[order[j]].usn
<1> DEFINE n == Cardinality(files)
           order == InOrder(files)
           R == [f \in files |-> Rank(files, f)]
<1>0. /\ IsFiniteSet(files) /\ n \in Nat
      /\ \A f \in files : Rank(files, f) \in 1..n
      /\ \A f, g \in files : server.entry[f].usn < server.entry[g].usn
                               => Rank(files, f) < Rank(files, g)
    BY RankOrders
<1>1. \A f, g \in files : Rank(files, f) = Rank(files, g) => f = g
    <2> SUFFICES ASSUME NEW f \in files, NEW g \in files, Rank(files, f) = Rank(files, g)
                 PROVE  f = g
        OBVIOUS
    <2>1. /\ ~(server.entry[f].usn < server.entry[g].usn)
          /\ ~(server.entry[g].usn < server.entry[f].usn)
        BY <1>0
    <2>2. server.entry[f].usn \in Nat /\ server.entry[g].usn \in Nat
        BY DEF Ordered
    <2>3. QED
        BY <2>1, <2>2 DEF Ordered
<1>2. R \in Injection(files, 1..n)
    <2> HIDE DEF n
    <2>1. QED
        BY <1>0, <1>1 DEF Injection, IsInjective
<1>3. \A i \in 1..n : \E f \in files : Rank(files, f) = i
    <2>1. IsFiniteSet(1..n) /\ Cardinality(1..n) = n
        <3> HIDE DEF n
        <3>1. QED
            BY <1>0, FS_Interval
    <2>2. R \in Surjection(files, 1..n)
        <3> HIDE DEF R
        <3>1. QED
            BY <1>2, <2>1, FS_Injection
    <2>3. QED
        BY <2>2 DEF Surjection
<1>4. \A i \in 1..n : order[i] = CHOOSE f \in files : i = Rank(files, f)
    BY DEF InOrder, Rank
<1>5. \A i \in 1..n : order[i] \in files /\ Rank(files, order[i]) = i
    <2> HIDE DEF n, order
    <2>1. QED
        BY <1>3, <1>4
<1>6. order \in [1..n -> files]
    BY <1>5 DEF InOrder
<1> HIDE DEF order, n
<1>7. \A f \in files : \E i \in 1..n : order[i] = f
    BY <1>0, <1>1, <1>5
<1>8. ASSUME NEW i \in 1..n, NEW j \in 1..n, i < j
      PROVE  server.entry[order[i]].usn < server.entry[order[j]].usn
    <2>1. order[i] \in files /\ order[j] \in files
        BY <1>5
    <2>2. server.entry[order[i]].usn \in Nat /\ server.entry[order[j]].usn \in Nat
        BY <2>1 DEF Ordered
    <2>3. ~(server.entry[order[j]].usn < server.entry[order[i]].usn)
        BY <1>0, <1>5, <1>8, <2>1
    <2>4. server.entry[order[j]].usn # server.entry[order[i]].usn
        <3>1. order[i] # order[j]
            BY <1>5, <1>8
        <3>2. QED
            BY <2>1, <3>1 DEF Ordered
    <2>5. QED
        BY <2>2, <2>3, <2>4
<1>9. QED
    BY <1>0, <1>6, <1>7, <1>8 DEF n, order

-----------------------------------------------------------------------------
(* The server.                                                             *)

Servers == [folder : [Files -> Shas], last_usn : Nat, count : Nat,
            entry : [Files -> [known : BOOLEAN, sha : Shas, usn : Nat]]]
Changed == [file : Files, data : Shas \ Unsyncable]

(* ServerTidy of any state of the server.                                  *)
Tidy(s) ==
    /\ s.count = Cardinality({f \in Files : s.entry[f].sha # Absent})
    /\ \A f \in Files : s.entry[f].usn <= s.last_usn
    /\ \A f, g \in Files : s.entry[f].known /\ s.entry[f].usn = s.entry[g].usn => f = g

LEMMA ServerFields ==
    ASSUME NEW s \in Servers
    PROVE  /\ s.last_usn \in Nat /\ s.count \in Nat
           /\ s.folder \in [Files -> Shas]
           /\ s.entry \in [Files -> [known : BOOLEAN, sha : Shas, usn : Nat]]
           /\ \A f \in Files : /\ s.entry[f].known \in BOOLEAN
                               /\ s.entry[f].sha \in Shas
                               /\ s.entry[f].usn \in Nat
                               /\ s.folder[f] \in Shas
BY DEF Servers

(* What a change that is not there yet makes of the server.                *)
LEMMA Registering ==
    ASSUME NEW s \in Servers, NEW change \in Changed,
           s.entry[change.file].sha # change.data
    PROVE  LET r == RegisterChange(s, change)
           IN  /\ r.folder = [s.folder EXCEPT ![change.file] = change.data]
               /\ r.entry = [s.entry EXCEPT ![change.file] =
                                [known |-> TRUE, sha |-> change.data, usn |-> s.last_usn + 1]]
               /\ r.last_usn = s.last_usn + 1
               /\ r.count = IF change.data = Absent THEN Decrement(s.count)
                            ELSE IF s.entry[change.file].sha = Absent THEN s.count + 1
                            ELSE s.count
               /\ r = [folder |-> r.folder, last_usn |-> r.last_usn, count |-> r.count,
                       entry |-> r.entry]
BY DEF RegisterChange, Servers

LEMMA RegisterKeeps ==
    ASSUME NEW s \in Servers, NEW change \in Changed, Tidy(s)
    PROVE  LET r == RegisterChange(s, change)
           IN  /\ r \in Servers /\ Tidy(r)
               /\ r.last_usn >= s.last_usn
               /\ \A f \in Files \ {change.file} :
                    r.entry[f] = s.entry[f] /\ r.folder[f] = s.folder[f]
               /\ r.entry[change.file].sha = change.data
               /\ \/ r.entry[change.file] = s.entry[change.file]
                     /\ r.folder[change.file] = s.folder[change.file]
                  \/ /\ r.entry[change.file].known
                     /\ r.entry[change.file].usn > s.last_usn
                     /\ r.folder[change.file] = change.data
<1> DEFINE r == RegisterChange(s, change)
           f == change.file
           sha == change.data
           there == {g \in Files : s.entry[g].sha # Absent}
<1>1. f \in Files /\ sha \in Shas
    BY DEF Changed
<1>2. CASE s.entry[f].sha = sha
    <2>1. r = s
        BY <1>2 DEF RegisterChange
    <2>2. s.last_usn \in Nat
        BY ServerFields
    <2> HIDE DEF r
    <2>3. QED
        BY <1>2, <2>1, <2>2 DEF r
<1>3. CASE s.entry[f].sha # sha
    <2>1. /\ r.folder = [s.folder EXCEPT ![f] = sha]
          /\ r.entry = [s.entry EXCEPT ![f] =
                                [known |-> TRUE, sha |-> sha, usn |-> s.last_usn + 1]]
          /\ r.last_usn = s.last_usn + 1
          /\ r.count = IF sha = Absent THEN Decrement(s.count)
                       ELSE IF s.entry[f].sha = Absent THEN s.count + 1 ELSE s.count
          /\ r = [folder |-> r.folder, last_usn |-> r.last_usn, count |-> r.count,
                  entry |-> r.entry]
        BY <1>3, Registering
    <2> HIDE DEF r
    <2>2. /\ s.last_usn \in Nat /\ s.count \in Nat
          /\ s.folder \in [Files -> Shas]
          /\ s.entry \in [Files -> [known : BOOLEAN, sha : Shas, usn : Nat]]
        BY ServerFields
    <2>3. \A g \in Files \ {f} : r.entry[g] = s.entry[g] /\ r.folder[g] = s.folder[g]
        BY <2>1, <2>2
    <2>4. r.entry[f] = [known |-> TRUE, sha |-> sha, usn |-> s.last_usn + 1]
          /\ r.folder[f] = sha
        BY <1>1, <2>1, <2>2
    <2>5. r.count \in Nat
        BY <2>1, <2>2 DEF Decrement
    <2>6. r.folder \in [Files -> Shas]
        BY <1>1, <2>1, <2>2
    <2>7. r.entry \in [Files -> [known : BOOLEAN, sha : Shas, usn : Nat]]
        <3>1. [known |-> TRUE, sha |-> sha, usn |-> s.last_usn + 1]
                 \in [known : BOOLEAN, sha : Shas, usn : Nat]
            BY <1>1, <2>2
        <3>2. QED
            BY <1>1, <2>1, <2>2, <3>1
    <2>8. r \in Servers
        <3>1. r.last_usn \in Nat
            BY <2>1, <2>2
        <3>2. [folder |-> r.folder, last_usn |-> r.last_usn, count |-> r.count,
               entry |-> r.entry] \in Servers
            BY <2>5, <2>6, <2>7, <3>1 DEF Servers
        <3>3. r = [folder |-> r.folder, last_usn |-> r.last_usn, count |-> r.count,
                   entry |-> r.entry]
            BY <2>1
        <3>4. QED
            BY Zenon, <3>2, <3>3
    <2>9. \A g \in Files : s.entry[g].usn \in Nat /\ s.entry[g].usn <= s.last_usn
        BY ServerFields DEF Tidy
    <2>10. r.count = Cardinality({g \in Files : r.entry[g].sha # Absent})
        <3> DEFINE now == {g \in Files : r.entry[g].sha # Absent}
        <3>1. IsFiniteSet(there) /\ s.count = Cardinality(there)
            BY MediaParameters, FS_Subset DEF Tidy
        <3>2. r.entry[f].sha = sha /\ f \in there <=> s.entry[f].sha # Absent
            BY <1>1, <2>4
        <3>3. r.entry[f].sha = sha
            BY <2>4
        <3>4. CASE sha = Absent
            <4>1. now = there \ {f} /\ f \in there
                BY <1>1, <1>3, <2>3, <3>3, <3>4
            <4> HIDE DEF there, now
            <4>2. Cardinality(now) = Cardinality(there) - 1
                BY <3>1, <4>1, FS_RemoveElement
            <4>3. Cardinality(now) \in Nat
                BY <3>1, <4>1, FS_RemoveElement, FS_CardinalityType
            <4>4. QED
                BY <2>1, <2>2, <3>1, <3>4, <4>2, <4>3 DEF Decrement, now
        <3>5. CASE sha # Absent
            <4>1. now = there \cup {f}
                BY <1>1, <1>3, <2>3, <3>3, <3>5
            <4>2. f \in there <=> s.entry[f].sha # Absent
                BY <1>1
            <4> HIDE DEF there, now
            <4>3. Cardinality(now) = IF f \in there THEN Cardinality(there)
                                     ELSE Cardinality(there) + 1
                BY <3>1, <4>1, FS_AddElement
            <4>4. QED
                BY <2>1, <2>2, <3>1, <3>5, <4>2, <4>3 DEF now
        <3>6. QED
            BY <3>4, <3>5
    <2>11. \A g \in Files : r.entry[g].usn <= r.last_usn
        <3>1. \A g \in Files \ {f} : r.entry[g].usn = s.entry[g].usn
            BY <2>3
        <3>2. r.entry[f].usn = s.last_usn + 1
            BY <2>4
        <3>3. QED
            BY <2>1, <2>2, <2>9, <3>1, <3>2
    <2>12. \A g, h \in Files : r.entry[g].known /\ r.entry[g].usn = r.entry[h].usn => g = h
        <3>1. \A g \in Files \ {f} : /\ r.entry[g].usn = s.entry[g].usn
                                     /\ r.entry[g].known = s.entry[g].known
                                     /\ r.entry[g].usn # s.last_usn + 1
            BY <2>2, <2>3, <2>9
        <3>2. r.entry[f].usn = s.last_usn + 1
            BY <2>4
        <3>3. \A g, h \in Files : s.entry[g].known /\ s.entry[g].usn = s.entry[h].usn => g = h
            BY DEF Tidy
        <3>4. QED
            BY <3>1, <3>2, <3>3
    <2>13. Tidy(r)
        BY <2>10, <2>11, <2>12 DEF Tidy
    <2>14. r.last_usn >= s.last_usn /\ r.entry[f].usn > s.last_usn
        BY <2>1, <2>2, <2>4
    <2>15. QED
        BY <2>3, <2>4, <2>8, <2>13, <2>14 DEF r
<1>4. QED
    BY <1>2, <1>3

(* What a file is after the changes of an upload have been processed: what *)
(* it was, or one of the changes, under a usn of its own.                  *)
SameOrChanged(r, s, changes, k, f) ==
    \/ r.entry[f] = s.entry[f] /\ r.folder[f] = s.folder[f]
    \/ /\ r.entry[f].known /\ r.entry[f].usn > s.last_usn
       /\ r.folder[f] = r.entry[f].sha
       /\ \E i \in 1..k : changes[i].file = f /\ changes[i].data = r.entry[f].sha

Processed(s, changes) == FoldLeft(RegisterChange, s, changes)

LEMMA ProcessedTrace ==
    ASSUME NEW s, NEW changes, NEW n \in Nat, DOMAIN changes = 1..n
    PROVE  \E v : /\ v[0] = s
                  /\ \A k \in 1..n : v[k] = RegisterChange(v[k - 1], changes[k])
                  /\ v[n] = Processed(s, changes)
<1>1. Processing!Fold(s, changes) = Processed(s, changes)
    BY Zenon DEF Processed, Processing!Fold, FoldLeft, Processing!FoldLeft, MapThenFoldSet,
                 Processing!MapThenFoldSet, Max, Processing!Max
<1>2. QED
    BY <1>1, Processing!FoldTrace

LEMMA ProcessedKeeps ==
    ASSUME NEW s \in Servers, Tidy(s), NEW changes \in Seq(Changed)
    PROVE  LET r == Processed(s, changes)
           IN  /\ r \in Servers /\ Tidy(r)
               /\ r.last_usn >= s.last_usn
               /\ \A f \in Files : SameOrChanged(r, s, changes, Len(changes), f)
               /\ \A i \in 1..Len(changes) : \E j \in 1..Len(changes) :
                    /\ changes[j].file = changes[i].file
                    /\ changes[j].data = r.entry[changes[i].file].sha
<1> DEFINE n == Len(changes)
<1>0. n \in Nat /\ DOMAIN changes = 1..n /\ \A k \in 1..n : changes[k] \in Changed
    BY LenProperties, ElementOfSeq
<1>1. PICK v : /\ v[0] = s
               /\ \A k \in 1..n : v[k] = RegisterChange(v[k - 1], changes[k])
               /\ v[n] = Processed(s, changes)
    <2> HIDE DEF n
    <2>1. QED
        BY <1>0, ProcessedTrace
<1> DEFINE Good(k) ==
             /\ v[k] \in Servers /\ Tidy(v[k])
             /\ v[k].last_usn >= s.last_usn
             /\ \A f \in Files : SameOrChanged(v[k], s, changes, k, f)
             /\ \A i \in 1..k : \E j \in 1..k :
                  /\ changes[j].file = changes[i].file
                  /\ changes[j].data = v[k].entry[changes[i].file].sha
           H == {k \in 0..n : Good(k)}
<1>2. 0 \in H
    <2>1. s.last_usn \in Nat
        BY ServerFields
    <2>2. 1..0 = {}
        OBVIOUS
    <2>3. Good(0)
        BY <1>1, <2>1, <2>2 DEF SameOrChanged
    <2> HIDE DEF Good
    <2>4. QED
        BY <1>0, <2>3
<1>3. ASSUME NEW k \in 0..(n-1), Good(k)
      PROVE  Good(k + 1)
    <2> DEFINE u == v[k]
               w == v[k + 1]
               c == changes[k + 1]
    <2>1. k \in Nat /\ k + 1 \in 1..n /\ (k + 1) - 1 = k
        BY <1>0
    <2>2. w = RegisterChange(u, c) /\ c \in Changed
        BY <1>0, <1>1, <2>1
    <2>3. u \in Servers /\ Tidy(u) /\ u.last_usn >= s.last_usn
        BY <1>3
    <2>4. /\ w \in Servers /\ Tidy(w)
          /\ w.last_usn >= u.last_usn
          /\ \A f \in Files \ {c.file} : w.entry[f] = u.entry[f] /\ w.folder[f] = u.folder[f]
          /\ w.entry[c.file].sha = c.data
          /\ \/ w.entry[c.file] = u.entry[c.file] /\ w.folder[c.file] = u.folder[c.file]
             \/ /\ w.entry[c.file].known
                /\ w.entry[c.file].usn > u.last_usn
                /\ w.folder[c.file] = c.data
        <3> HIDE DEF u, w, c
        <3>1. QED
            BY <2>2, <2>3, RegisterKeeps
    <2>5. \A f \in Files : SameOrChanged(u, s, changes, k, f)
        BY <1>3
    <2>6. \A i \in 1..k : \E j \in 1..k : /\ changes[j].file = changes[i].file
                                          /\ changes[j].data = u.entry[changes[i].file].sha
        BY <1>3
    <2>7. 1..(k + 1) = (1..k) \cup {k + 1}
        BY <2>1
    <2>8. c = changes[k + 1]
        OBVIOUS
    <2> HIDE DEF u, w, c
    <2>9. s.last_usn \in Nat /\ u.last_usn \in Nat /\ w.last_usn \in Nat
          /\ \A f \in Files : w.entry[f].usn \in Nat
        BY <2>3, <2>4, ServerFields
    <2>10. w.last_usn >= s.last_usn
        BY <2>3, <2>4, <2>9
    <2>11. ASSUME NEW f \in Files
           PROVE  SameOrChanged(w, s, changes, k + 1, f)
        <3>1. CASE w.entry[f] = u.entry[f] /\ w.folder[f] = u.folder[f]
            BY <2>5, <2>7, <3>1 DEF SameOrChanged
        <3>2. CASE f = c.file /\ w.entry[f].known /\ w.entry[f].usn > u.last_usn
                     /\ w.folder[f] = c.data
            <4>1. w.entry[f].usn > s.last_usn
                BY <2>3, <2>9, <3>2
            <4>2. \E i \in 1..(k + 1) : changes[i].file = f /\ changes[i].data = w.entry[f].sha
                BY <2>4, <2>7, <2>8, <3>2
            <4>3. QED
                BY <2>4, <3>2, <4>1, <4>2 DEF SameOrChanged
        <3>3. QED
            BY <2>4, <3>1, <3>2
    <2>12. ASSUME NEW i \in 1..(k + 1)
           PROVE  \E j \in 1..(k + 1) : /\ changes[j].file = changes[i].file
                                        /\ changes[j].data = w.entry[changes[i].file].sha
        <3>1. CASE changes[i].file = c.file
            BY <2>4, <2>7, <2>8, <3>1
        <3>2. CASE changes[i].file # c.file
            <4>1. i \in 1..k /\ changes[i].file \in Files
                <5>1. changes[i] \in Changed
                    BY <1>0, <2>1
                <5>2. QED
                    BY <2>7, <2>8, <3>2, <5>1 DEF Changed
            <4>2. PICK j \in 1..k : /\ changes[j].file = changes[i].file
                                    /\ changes[j].data = u.entry[changes[i].file].sha
                BY <2>6, <4>1
            <4>3. QED
                BY <2>4, <2>7, <3>2, <4>1, <4>2
        <3>3. QED
            BY <3>1, <3>2
    <2>13. QED
        BY <2>4, <2>10, <2>11, <2>12 DEF w
<1>4. H = 0..n
    <2>1. \A k \in 0..(n-1) : k \in H => k + 1 \in H
        <3> SUFFICES ASSUME NEW k \in 0..(n-1), k \in H PROVE k + 1 \in H
            OBVIOUS
        <3>1. Good(k + 1)
            BY <1>3
        <3>2. k + 1 \in 0..n
            BY <1>0
        <3> HIDE DEF Good
        <3>3. QED
            BY <3>1, <3>2
    <2> HIDE DEF H
    <2>2. H \in SUBSET (0..n)
        BY DEF H
    <2>3. QED
        BY <1>0, <1>2, <2>1, <2>2, Processing!Induct
<1>5. Good(n)
    <2>1. n \in H
        <3> HIDE DEF H, n
        <3>1. QED
            BY <1>0, <1>4
    <2>2. QED
        BY <2>1
<1>6. QED
    BY <1>1, <1>5

-----------------------------------------------------------------------------
(* What the database queries give.                                         *)

LEMMA FileOrder ==
    ASSUME NEW S, IsFiniteSet(S)
    PROVE  /\ SetToSeq(S) \in Seq(S) /\ Injective(SetToSeq(S))
           /\ Len(SetToSeq(S)) = Cardinality(S)
           /\ Range(SetToSeq(S)) = S
<1> DEFINE n == Cardinality(S)
           s == SetToSeq(S)
<1>1. n \in Nat /\ ExistsBijection(1..n, S)
    BY FS_CardinalityType
<1>2. \E f \in [1..n -> S] : IsInjective(f)
    BY <1>1 DEF ExistsBijection, Bijection, Injection
<1>3. s \in [1..n -> S] /\ IsInjective(s)
    BY <1>2 DEF SetToSeq
<1>4. s \in Injection(1..n, S)
    BY <1>3 DEF Injection
<1>5. IsFiniteSet(1..n) /\ Cardinality(1..n) = n
    <2> HIDE DEF n
    <2>1. QED
        BY <1>1, FS_Interval
<1>6. s \in Surjection(1..n, S)
    <2> HIDE DEF s
    <2>1. QED
        BY <1>4, <1>5, FS_Injection
<1> HIDE DEF n, s
<1>7. s \in Seq(S) /\ Len(s) = n
    BY <1>1, <1>3
<1>8. Injective(s)
    BY <1>1, <1>3, <1>7 DEF Injective, IsInjective
<1>9. Range(s) = S
    BY <1>3, <1>6 DEF Range, Surjection
<1>10. QED
    BY <1>7, <1>8, <1>9 DEF s, n

(* A page of changes has the files whose usn is after, up to that of its   *)
(* last one.                                                               *)
LEMMA PageFacts ==
    ASSUME server \in Servers, Tidy(server), NEW after \in Nat
    PROVE  LET page == Changes(after)
           IN  /\ page \in Seq(Files) /\ Injective(page)
               /\ \A f \in Range(page) :
                    f \in Files /\ server.entry[f].known /\ server.entry[f].usn > after
               /\ page # <<>> =>
                    /\ Last(page) \in Range(page)
                    /\ \A f \in Range(page) :
                         server.entry[f].usn <= server.entry[Last(page)].usn
                    /\ \A f \in Files :
                         /\ server.entry[f].known /\ server.entry[f].usn > after
                         /\ server.entry[f].usn <= server.entry[Last(page)].usn
                         => f \in Range(page)
               /\ page = <<>> =>
                    \A f \in Files : server.entry[f].known => server.entry[f].usn <= after
<1> DEFINE page == Changes(after)
           later == {f \in Files : server.entry[f].known /\ server.entry[f].usn > after}
           order == InOrder(later)
           n == Cardinality(later)
           m == IF n < ChunkLimit THEN n ELSE ChunkLimit
           U(f) == server.entry[f].usn
<1>1. \A f \in Files : server.entry[f].known \in BOOLEAN /\ U(f) \in Nat
    BY ServerFields
<1>2. Ordered(later)
    BY <1>1 DEF Ordered, Tidy
<1>3. /\ order \in [1..n -> later] /\ n \in Nat
      /\ \A f \in later : \E i \in 1..n : order[i] = f
      /\ \A i, j \in 1..n : i < j => U(order[i]) < U(order[j])
    <2> HIDE DEF later
    <2>1. QED
        BY <1>2, InOrderSorts
<1>4. Len(order) = n
    <2> HIDE DEF order, n
    <2>1. QED
        BY <1>3
<1>5. page = SubSeq(order, 1, m)
    BY <1>4 DEF Changes
<1>6. m \in Nat /\ m <= n /\ (n # 0 => m # 0)
    <2> HIDE DEF n
    <2>1. QED
        BY <1>3, MediaParameters
<1>7. later \subseteq Files
    OBVIOUS
<1>8. \A f \in Files : f \in later <=> server.entry[f].known /\ U(f) > after
    OBVIOUS
<1> HIDE DEF order, m, later, n
<1>9. \A i \in 1..m : order[i] \in later
    BY <1>3, <1>6
<1>10. /\ page \in Seq(later)
       /\ Len(page) = IF 1 <= m THEN m - 1 + 1 ELSE 0
       /\ \A i \in 1..(m - 1 + 1) : page[i] = order[1 + i - 1]
    BY <1>5, <1>6, <1>9, SubSeqProperties
<1>11. Len(page) = m /\ \A i \in 1..m : page[i] = order[i]
    BY <1>6, <1>10
<1> HIDE DEF page
<1>12. page \in Seq(Files)
    BY <1>7, <1>10, SeqMonotonic
<1>13. \A f : f \in Range(page) <=> \E i \in 1..m : f = order[i]
    BY <1>10, <1>11, InRange
<1>14. \A f \in Range(page) : f \in later
    BY <1>9, <1>13
<1>15. \A i \in 1..n : U(order[i]) \in Nat
    BY <1>1, <1>3, <1>7
<1>16. \A i, j \in 1..n : order[i] = order[j] => i = j
    <2> SUFFICES ASSUME NEW i \in 1..n, NEW j \in 1..n, order[i] = order[j] PROVE i = j
        OBVIOUS
    <2>1. ~(U(order[i]) < U(order[j])) /\ ~(U(order[j]) < U(order[i]))
        BY <1>15
    <2>2. QED
        BY <1>3, <2>1
<1>17. Injective(page)
    <2>1. \A i \in 1..m : i \in 1..n
        BY <1>3, <1>6
    <2>2. QED
        BY <1>11, <1>16, <2>1 DEF Injective
<1>18. ASSUME page # <<>>
       PROVE  /\ Last(page) \in Range(page)
              /\ \A f \in Range(page) : U(f) <= U(Last(page))
              /\ \A f \in Files : server.entry[f].known /\ U(f) > after /\ U(f) <= U(Last(page))
                                    => f \in Range(page)
    <2>1. m # 0
        BY <1>10, <1>11, <1>18, EmptySeq
    <2>2. m \in 1..m /\ m \in 1..n
        BY <1>3, <1>6, <2>1
    <2>3. Last(page) = order[m]
        BY <1>11, <2>2 DEF Last
    <2>4. Last(page) \in Range(page)
        BY <1>13, <2>2, <2>3
    <2>5. ASSUME NEW f \in Range(page) PROVE U(f) <= U(Last(page))
        <3>1. PICK i \in 1..m : f = order[i]
            BY <1>13
        <3>2. i \in 1..n /\ (i = m \/ i < m)
            BY <1>3, <1>6
        <3>3. U(order[i]) \in Nat /\ U(order[m]) \in Nat
            BY <1>15, <2>2, <3>2
        <3>4. i < m => U(order[i]) < U(order[m])
            BY <1>3, <2>2, <3>2
        <3>5. QED
            BY <2>3, <3>1, <3>2, <3>3, <3>4
    <2>6. ASSUME NEW f \in Files, server.entry[f].known, U(f) > after, U(f) <= U(Last(page))
          PROVE  f \in Range(page)
        <3>1. PICK i \in 1..n : order[i] = f
            BY <1>3, <1>8, <2>6
        <3>2. ~(m < i)
            <4>1. m < i => U(order[m]) < U(order[i])
                BY <1>3, <2>2
            <4>2. U(order[i]) \in Nat /\ U(order[m]) \in Nat
                BY <1>15, <2>2
            <4>3. QED
                BY <2>3, <2>6, <3>1, <4>1, <4>2
        <3>3. i \in 1..m
            BY <1>3, <1>6, <3>2
        <3>4. QED
            BY <1>13, <3>1, <3>3
    <2>7. QED
        BY <2>4, <2>5, <2>6
<1>19. ASSUME page = <<>>, NEW f \in Files, server.entry[f].known
       PROVE  U(f) <= after
    <2>1. n = 0
        BY <1>3, <1>6, <1>11, <1>19, EmptySeq
    <2>2. f \notin later
        BY <1>3, <2>1
    <2>3. QED
        BY <1>1, <1>8, <1>19, <2>2
<1>20. QED
    BY <1>8, <1>12, <1>14, <1>17, <1>18, <1>19, <1>7 DEF page

-----------------------------------------------------------------------------
(* Types.                                                                  *)

Rows == [known : BOOLEAN, sha : Shas, dirty : BOOLEAN]
Clients == [folder : [Files -> Shas], seen : BOOLEAN, last_usn : Nat, db : [Files -> Rows]]
Gots == [file : Files, sha : Shas]

Downloads == [at : {"download"}, todo : NameLists, got : Seq(Gots), delete : NameLists,
              clean : NameLists, last : Nat]

Sessions ==
    {Idle, [at |-> "resync"]}
    \cup [at : {"begin"}, usn : Nat]
    \cup [at : {"fetch", "send"}, acted : BOOLEAN]
    \cup Downloads
    \cup [at : {"sent"}, files : NameLists]
    \cup [at : {"answered"}, files : NameLists, usn : Nat]

Typed ==
    /\ client \in [Devices -> Clients]
    /\ session \in [Devices -> Sessions]
    /\ wire \in [Devices -> Seq(Changed)]
    /\ server \in Servers
    /\ acknowledged \in SUBSET Files /\ torn \in SUBSET Files
    /\ edits \in 0..MaxEdits /\ faults \in 0..MaxFaults

(* The server's books, and which of its deletions it has confirmed.        *)
ServerGood ==
    /\ Tidy(server)
    /\ \A f \in Files : server.entry[f].known => server.entry[f].usn # 0
    /\ \A f \in Files : server.entry[f].known /\ server.entry[f].sha = Absent
                          => f \in acknowledged

MediaInv == Typed /\ ServerGood

LEMMA ClientFields ==
    ASSUME NEW c \in Clients
    PROVE  /\ c.folder \in [Files -> Shas] /\ c.seen \in BOOLEAN /\ c.last_usn \in Nat
           /\ c.db \in [Files -> Rows]
           /\ \A f \in Files : /\ c.folder[f] \in Shas
                               /\ c.db[f] \in Rows
                               /\ c.db[f].known \in BOOLEAN
                               /\ c.db[f].sha \in Shas
                               /\ c.db[f].dirty \in BOOLEAN
BY DEF Clients, Rows

(* A session says what it is at, and has what it needs there.              *)
LEMMA SessionFields ==
    ASSUME NEW s \in Sessions
    PROVE  /\ s.at \in {"idle", "begin", "fetch", "download", "send", "sent", "answered",
                        "resync"}
           /\ s.at = "idle" => s = Idle
           /\ s.at = "begin" => s.usn \in Nat
           /\ s.at = "download" =>
                /\ s.todo \in NameLists /\ s.delete \in NameLists /\ s.clean \in NameLists
                /\ s.got \in Seq(Gots) /\ s.last \in Nat
                /\ s \in Downloads
           /\ s.at \in {"sent", "answered"} => s.files \in NameLists
           /\ s.at = "answered" => s.usn \in Nat
<1>1. CASE s \in {Idle, [at |-> "resync"]}
    BY <1>1 DEF Idle
<1>2. CASE s \in [at : {"begin"}, usn : Nat]
    BY <1>2
<1>3. CASE s \in [at : {"fetch", "send"}, acted : BOOLEAN]
    BY <1>3
<1>4. CASE s \in Downloads
    BY <1>4 DEF Downloads
<1>5. CASE s \in [at : {"sent"}, files : NameLists]
    BY <1>5
<1>6. CASE s \in [at : {"answered"}, files : NameLists, usn : Nat]
    BY <1>6
<1>7. QED
    BY <1>1, <1>2, <1>3, <1>4, <1>5, <1>6 DEF Sessions

(* What is done to a client's folder and database.                         *)
LEMMA RowsAre ==
    /\ Unknown \in Rows
    /\ \A sha \in Shas, dirty \in BOOLEAN : Row(sha, dirty) \in Rows
    /\ \A row \in Rows : [row EXCEPT !.dirty = FALSE] \in Rows
BY DEF Unknown, Row, Rows, Shas

LEMMA ForgottenKeeps ==
    ASSUME NEW c \in Clients, NEW names
    PROVE  /\ Forgotten(c, names) \in Clients
           /\ Forgotten(c, names).seen = c.seen
           /\ Forgotten(c, names).last_usn = c.last_usn
           /\ Forgotten(c, names).folder = Trashed(c.folder, names)
           /\ \A f \in Files : Forgotten(c, names).db[f] =
                IF f \in Range(names) /\ c.db[f].known THEN Row(Absent, TRUE) ELSE c.db[f]
<1> DEFINE db == [f \in Files |-> IF f \in Range(names) /\ c.db[f].known
                                  THEN Row(Absent, TRUE) ELSE c.db[f]]
           folder == Trashed(c.folder, names)
<1>1. Absent \in Shas
    BY DEF Shas
<1>2. db \in [Files -> Rows]
    BY <1>1, ClientFields, RowsAre
<1>3. folder \in [Files -> Shas]
    BY <1>1, ClientFields DEF Trashed
<1>4. Forgotten(c, names) = [c EXCEPT !.folder = folder, !.db = db]
    BY DEF Forgotten
<1>5. \A f \in Files : db[f] = IF f \in Range(names) /\ c.db[f].known
                               THEN Row(Absent, TRUE) ELSE c.db[f]
    OBVIOUS
<1> HIDE DEF db, folder
<1>6. [c EXCEPT !.folder = folder, !.db = db] \in Clients
    BY <1>2, <1>3 DEF Clients
<1>7. QED
    BY <1>4, <1>5, <1>6 DEF Clients, folder

LEMMA RegisteredKeeps ==
    ASSUME NEW c \in Clients
    PROVE  LET r == Registered(c)
           IN  /\ r \in Clients
               /\ r.folder = c.folder /\ r.last_usn = c.last_usn /\ r.seen
               /\ c.seen => r = c
               /\ ~c.seen => \A f \in Files :
                    r.db[f] = IF Found(c.folder, f) = c.db[f].sha THEN c.db[f]
                              ELSE Row(Found(c.folder, f), TRUE)
<1>1. CASE c.seen
    BY <1>1 DEF Registered
<1>2. CASE ~c.seen
    <2> DEFINE db == [f \in Files |->
                        IF Found(c.folder, f) = c.db[f].sha THEN c.db[f]
                        ELSE Row(Found(c.folder, f), TRUE)]
    <2>1. \A f \in Files : Found(c.folder, f) \in Shas
        BY ClientFields DEF Found, Shas
    <2>2. db \in [Files -> Rows]
        BY <2>1, ClientFields, RowsAre
    <2>3. Registered(c) = [c EXCEPT !.seen = TRUE, !.db = db]
        BY <1>2 DEF Registered
    <2>4. \A f \in Files : db[f] = IF Found(c.folder, f) = c.db[f].sha THEN c.db[f]
                                   ELSE Row(Found(c.folder, f), TRUE)
        OBVIOUS
    <2> HIDE DEF db
    <2>5. [c EXCEPT !.seen = TRUE, !.db = db] \in Clients
        BY <2>2 DEF Clients
    <2>6. QED
        BY <1>2, <2>3, <2>4, <2>5 DEF Clients
<1>3. QED
    BY <1>1, <1>2, ClientFields

LEMMA RecordedKeeps ==
    ASSUME NEW c \in Clients, NEW s \in Sessions, s.at = "download"
    PROVE  LET r == Recorded(c, s)
           IN  /\ r \in Clients
               /\ r.folder = c.folder /\ r.last_usn = s.last /\ r.seen
               /\ \A f \in Files :
                    IF \E i \in DOMAIN s.got : s.got[i].file = f
                    THEN \E i \in DOMAIN s.got :
                           s.got[i].file = f /\ r.db[f] = Row(s.got[i].sha, FALSE)
                    ELSE IF f \in Range(s.delete) THEN r.db[f] = Unknown
                    ELSE IF f \in Range(s.clean) THEN r.db[f] = [c.db[f] EXCEPT !.dirty = FALSE]
                    ELSE r.db[f] = c.db[f]
<1> DEFINE New(f) ==
             IF \E i \in DOMAIN s.got : s.got[i].file = f
             THEN Row((CHOOSE g \in Range(s.got) : g.file = f).sha, FALSE)
             ELSE IF f \in Range(s.delete) THEN Unknown
             ELSE IF f \in Range(s.clean) THEN [c.db[f] EXCEPT !.dirty = FALSE]
             ELSE c.db[f]
           db == [f \in Files |-> New(f)]
<1>0. s.got \in Seq(Gots) /\ s.last \in Nat
    BY SessionFields
<1>1. \A i \in DOMAIN s.got : s.got[i] \in Gots
    BY <1>0, LenProperties, ElementOfSeq
<1>2. ASSUME NEW f \in Files
      PROVE  /\ New(f) \in Rows
             /\ IF \E i \in DOMAIN s.got : s.got[i].file = f
                THEN \E i \in DOMAIN s.got :
                       s.got[i].file = f /\ New(f) = Row(s.got[i].sha, FALSE)
                ELSE IF f \in Range(s.delete) THEN New(f) = Unknown
                ELSE IF f \in Range(s.clean) THEN New(f) = [c.db[f] EXCEPT !.dirty = FALSE]
                ELSE New(f) = c.db[f]
    <2>1. CASE \E i \in DOMAIN s.got : s.got[i].file = f
        <3>1. \E g \in Range(s.got) : g.file = f
            BY <2>1 DEF Range
        <3> DEFINE g == CHOOSE g \in Range(s.got) : g.file = f
        <3>2. g \in Range(s.got) /\ g.file = f
            BY <3>1
        <3>3. New(f) = Row(g.sha, FALSE)
            BY <2>1
        <3> HIDE DEF g, New
        <3>4. PICK i \in DOMAIN s.got : g = s.got[i]
            BY <3>2 DEF Range
        <3>5. g.sha \in Shas
            BY <1>1, <3>4 DEF Gots
        <3>6. New(f) \in Rows
            BY <3>3, <3>5, RowsAre
        <3>7. QED
            BY <2>1, <3>2, <3>3, <3>4, <3>6
    <2>2. CASE ~\E i \in DOMAIN s.got : s.got[i].file = f
        <3>1. New(f) = IF f \in Range(s.delete) THEN Unknown
                       ELSE IF f \in Range(s.clean) THEN [c.db[f] EXCEPT !.dirty = FALSE]
                       ELSE c.db[f]
            BY <2>2
        <3> HIDE DEF New
        <3>2. QED
            BY <2>2, <3>1, ClientFields, RowsAre
    <2>3. QED
        BY <2>1, <2>2
<1>3. Recorded(c, s) = [c EXCEPT !.seen = TRUE, !.last_usn = s.last, !.db = db]
    BY DEF Recorded
<1> HIDE DEF New
<1>4. db \in [Files -> Rows] /\ \A f \in Files : db[f] = New(f)
    BY <1>2
<1> HIDE DEF db
<1>5. LET r == [c EXCEPT !.seen = TRUE, !.last_usn = s.last, !.db = db]
      IN  /\ r \in Clients
          /\ r.folder = c.folder /\ r.last_usn = s.last /\ r.seen /\ r.db = db
    BY <1>0, <1>4 DEF Clients
<1> DEFINE r == Recorded(c, s)
<1>6. /\ r \in Clients
      /\ r.folder = c.folder /\ r.last_usn = s.last /\ r.seen /\ r.db = db
    BY <1>3, <1>5
<1>7. \A f \in Files : r.db[f] = New(f)
    BY <1>4, <1>6
<1> HIDE DEF r
<1>8. \A f \in Files :
        IF \E i \in DOMAIN s.got : s.got[i].file = f
        THEN \E i \in DOMAIN s.got : s.got[i].file = f /\ r.db[f] = Row(s.got[i].sha, FALSE)
        ELSE IF f \in Range(s.delete) THEN r.db[f] = Unknown
        ELSE IF f \in Range(s.clean) THEN r.db[f] = [c.db[f] EXCEPT !.dirty = FALSE]
        ELSE r.db[f] = c.db[f]
    BY <1>2, <1>7
<1>9. QED
    BY <1>6, <1>8 DEF r

LEMMA AnsweredKeeps ==
    ASSUME NEW c \in Clients, NEW s \in Sessions, s.at = "answered"
    PROVE  LET r == Answered(c, s)
           IN  /\ r \in Clients
               /\ r.folder = c.folder /\ r.seen = c.seen
               /\ r.last_usn \in {c.last_usn, s.usn}
               /\ \A f \in Files : r.db[f] = IF f \in Range(s.files)
                                             THEN [c.db[f] EXCEPT !.dirty = FALSE]
                                             ELSE c.db[f]
<1> DEFINE db == [f \in Files |-> IF f \in Range(s.files)
                                  THEN [c.db[f] EXCEPT !.dirty = FALSE] ELSE c.db[f]]
           usn == IF c.last_usn + Len(s.files) = s.usn THEN s.usn ELSE c.last_usn
<1>1. db \in [Files -> Rows]
    BY ClientFields, RowsAre
<1>2. c.last_usn \in Nat /\ s.usn \in Nat
    BY ClientFields, SessionFields
<1>3. Answered(c, s) = [c EXCEPT !.db = db, !.last_usn = usn]
    BY DEF Answered, Clients
<1>4. usn \in {c.last_usn, s.usn}
    OBVIOUS
<1>5. \A f \in Files : db[f] = IF f \in Range(s.files)
                               THEN [c.db[f] EXCEPT !.dirty = FALSE] ELSE c.db[f]
    OBVIOUS
<1> HIDE DEF db, usn
<1>6. LET r == [c EXCEPT !.db = db, !.last_usn = usn]
      IN  /\ r \in Clients
          /\ r.folder = c.folder /\ r.seen = c.seen /\ r.last_usn = usn /\ r.db = db
    BY <1>1, <1>2, <1>4 DEF Clients
<1>7. QED
    BY <1>3, <1>4, <1>5, <1>6

-----------------------------------------------------------------------------
(* The invariant's steps.                                                  *)

LEMMA ServerLeft ==
    ASSUME MediaInv, Typed', UNCHANGED server, acknowledged \subseteq acknowledged'
    PROVE  MediaInv'
BY DEF MediaInv, ServerGood, Tidy

LEMMA InitTyped == Init => Typed
<1> SUFFICES ASSUME Init PROVE Typed
    OBVIOUS
<1>1. Shared \in [Files -> Shas] /\ Absent \in Shas
    BY MediaParameters DEF Shas
<1>2. IsFiniteSet(SharedFiles)
    BY MediaParameters, FS_Subset DEF SharedFiles
<1>3. /\ SharedOrder \in Seq(SharedFiles) /\ Range(SharedOrder) = SharedFiles
      /\ Len(SharedOrder) \in Nat /\ DOMAIN SharedOrder = 1..Len(SharedOrder)
    BY <1>2, FileOrder, LenProperties DEF SharedOrder
<1>4. \A f \in SharedFiles : FirstUsn(f) \in 1..Len(SharedOrder)
    <2> SUFFICES ASSUME NEW f \in SharedFiles PROVE FirstUsn(f) \in 1..Len(SharedOrder)
        OBVIOUS
    <2>1. \E i \in DOMAIN SharedOrder : SharedOrder[i] = f
        BY <1>3, InRange
    <2>2. FirstUsn(f) \in DOMAIN SharedOrder
        BY <2>1 DEF FirstUsn
    <2>3. QED
        BY <1>3, <2>2
<1> DEFINE rows == [f \in Files |-> IF f \in SharedFiles THEN Row(Shared[f], FALSE) ELSE Unknown]
           entries == [f \in Files |->
                   IF f \in SharedFiles
                   THEN [known |-> TRUE, sha |-> Shared[f], usn |-> FirstUsn(f)]
                   ELSE NoEntry]
<1>5. rows \in [Files -> Rows]
    BY <1>1, RowsAre
<1>6. entries \in [Files -> [known : BOOLEAN, sha : Shas, usn : Nat]]
    <2> SUFFICES ASSUME NEW f \in Files
                 PROVE  entries[f] \in [known : BOOLEAN, sha : Shas, usn : Nat]
        OBVIOUS
    <2>1. CASE f \in SharedFiles
        <3>1. FirstUsn(f) \in Nat
            BY <1>3, <1>4, <2>1
        <3>2. QED
            BY <1>1, <2>1, <3>1
    <2>2. CASE f \notin SharedFiles
        BY <1>1, <2>2 DEF NoEntry
    <2>3. QED
        BY <2>1, <2>2
<1>7. client = [d \in Devices |-> [folder |-> Shared, seen |-> TRUE,
                                   last_usn |-> Len(SharedOrder), db |-> rows]]
    BY DEF Init
<1>8. server = [folder |-> Shared, last_usn |-> Len(SharedOrder), count |-> Len(SharedOrder),
                entry |-> entries]
    BY DEF Init
<1> HIDE DEF rows, entries
<1>9. client \in [Devices -> Clients]
    BY <1>1, <1>3, <1>5, <1>7 DEF Clients
<1>10. server \in Servers
    BY <1>1, <1>3, <1>6, <1>8 DEF Servers
<1>11. session \in [Devices -> Sessions]
    BY DEF Init, Sessions
<1>12. wire \in [Devices -> Seq(Changed)]
    BY EmptySeq DEF Init, NoUpload
<1>13. edits \in 0..MaxEdits /\ faults \in 0..MaxFaults
    BY MediaParameters DEF Init
<1>14. QED
    BY <1>9, <1>10, <1>11, <1>12, <1>13 DEF Init, Typed

LEMMA InitGood == Init => MediaInv
<1> SUFFICES ASSUME Init PROVE MediaInv
    OBVIOUS
<1>2. IsFiniteSet(SharedFiles)
    BY MediaParameters, FS_Subset DEF SharedFiles
<1>3. /\ SharedOrder \in Seq(SharedFiles) /\ Range(SharedOrder) = SharedFiles
      /\ Len(SharedOrder) = Cardinality(SharedFiles)
      /\ Len(SharedOrder) \in Nat /\ DOMAIN SharedOrder = 1..Len(SharedOrder)
    BY <1>2, FileOrder, LenProperties DEF SharedOrder
<1>4. \A f \in SharedFiles : /\ FirstUsn(f) \in 1..Len(SharedOrder)
                             /\ SharedOrder[FirstUsn(f)] = f
    <2> SUFFICES ASSUME NEW f \in SharedFiles
                 PROVE  FirstUsn(f) \in 1..Len(SharedOrder) /\ SharedOrder[FirstUsn(f)] = f
        OBVIOUS
    <2>1. \E i \in DOMAIN SharedOrder : SharedOrder[i] = f
        BY <1>3, InRange
    <2>2. FirstUsn(f) \in DOMAIN SharedOrder /\ SharedOrder[FirstUsn(f)] = f
        BY <2>1 DEF FirstUsn
    <2>3. QED
        BY <1>3, <2>2
<1>5. /\ server.count = Len(SharedOrder) /\ server.last_usn = Len(SharedOrder)
      /\ \A f \in SharedFiles : server.entry[f] =
           [known |-> TRUE, sha |-> Shared[f], usn |-> FirstUsn(f)]
      /\ \A f \in Files \ SharedFiles : server.entry[f] = NoEntry
    BY DEF Init, SharedFiles
<1>6. \A f \in Files : f \in SharedFiles <=> Shared[f] # Absent
    BY DEF SharedFiles
<1>7. \A f \in Files : IF f \in SharedFiles
                       THEN server.entry[f].known /\ server.entry[f].usn = FirstUsn(f)
                            /\ server.entry[f].sha # Absent
                       ELSE ~server.entry[f].known /\ server.entry[f].usn = 0
                            /\ server.entry[f].sha = Absent
    <2> SUFFICES ASSUME NEW f \in Files
                 PROVE  IF f \in SharedFiles
                        THEN server.entry[f].known /\ server.entry[f].usn = FirstUsn(f)
                             /\ server.entry[f].sha # Absent
                        ELSE ~server.entry[f].known /\ server.entry[f].usn = 0
                             /\ server.entry[f].sha = Absent
        OBVIOUS
    <2>1. CASE f \in SharedFiles
        <3>1. server.entry[f] = [known |-> TRUE, sha |-> Shared[f], usn |-> FirstUsn(f)]
            BY <1>5, <2>1
        <3>2. QED
            BY <1>6, <2>1, <3>1
    <2>2. CASE f \notin SharedFiles
        BY <1>5, <2>2 DEF NoEntry
    <2>3. QED
        BY <2>1, <2>2
<1>12. {f \in Files : server.entry[f].sha # Absent} = SharedFiles
    <2>1. SharedFiles \subseteq Files
        BY DEF SharedFiles
    <2>2. QED
        BY <1>7, <2>1
<1>8. \A f \in Files : server.entry[f].usn <= server.last_usn
    BY <1>3, <1>4, <1>5, <1>7
<1>9. \A f, g \in Files : server.entry[f].known /\ server.entry[f].usn = server.entry[g].usn
                            => f = g
    <2> SUFFICES ASSUME NEW f \in Files, NEW g \in Files, server.entry[f].known,
                        server.entry[f].usn = server.entry[g].usn
                 PROVE  f = g
        OBVIOUS
    <2>1. f \in SharedFiles /\ server.entry[f].usn = FirstUsn(f)
        BY <1>7
    <2>2. FirstUsn(f) # 0
        BY <1>3, <1>4, <2>1
    <2>3. g \in SharedFiles /\ server.entry[g].usn = FirstUsn(g)
        BY <1>7, <2>1, <2>2
    <2>4. SharedOrder[FirstUsn(f)] = f /\ SharedOrder[FirstUsn(g)] = g
        BY <1>4, <2>1, <2>3
    <2>5. QED
        BY <2>1, <2>3, <2>4
<1>13. \A f \in Files : server.entry[f].known => server.entry[f].usn # 0
    BY <1>3, <1>4, <1>7
<1>10. ServerGood
    BY <1>3, <1>5, <1>7, <1>8, <1>9, <1>12, <1>13 DEF ServerGood, Tidy
<1>11. QED
    BY <1>10, InitTyped DEF MediaInv

LEMMA UserKeeps ==
    ASSUME MediaInv, NEW d \in Devices, User(d)
    PROVE  MediaInv' /\ edits' # edits
<1>0. client \in [Devices -> Clients] /\ client[d] \in Clients /\ edits \in 0..MaxEdits
    BY DEF MediaInv, Typed
<1>1. /\ edits < MaxEdits /\ edits' = edits + 1
      /\ UNCHANGED <<session, wire, server, acknowledged, torn, faults>>
    BY DEF User, ExternalWrite, ExternalRemove, AddFile, RemoveFiles, Edit
<1>2. Contents \subseteq Shas /\ Absent \in Shas
    BY DEF Shas
<1>3. \E c \in Clients : client' = [client EXCEPT ![d] = c]
    <2>1. ASSUME NEW f \in Files, NEW c \in Contents, ExternalWrite(d, f, c)
          PROVE  \E r \in Clients : client' = [client EXCEPT ![d] = r]
        <3>1. PICK seen \in {FALSE, client[d].seen} :
                client' = [client EXCEPT ![d].folder[f] = c, ![d].seen = seen]
            BY <2>1 DEF ExternalWrite
        <3>2. [client[d] EXCEPT !.folder[f] = c, !.seen = seen] \in Clients
            BY <1>0, <1>2 DEF Clients
        <3>3. client' = [client EXCEPT ![d] = [client[d] EXCEPT !.folder[f] = c, !.seen = seen]]
            BY <1>0, <3>1 DEF Clients
        <3>4. QED
            BY <3>2, <3>3
    <2>2. ASSUME NEW f \in Files, NEW c \in Contents, AddFile(d, f, c)
          PROVE  \E r \in Clients : client' = [client EXCEPT ![d] = r]
        <3> DEFINE row == IF client[d].db[f].known /\ client[d].db[f].sha = c
                          THEN client[d].db[f] ELSE Row(c, TRUE)
        <3>1. client' = [client EXCEPT ![d].folder[f] = c, ![d].db[f] = row]
            BY <2>2 DEF AddFile
        <3>2. row \in Rows
            BY <1>0, <1>2, ClientFields, RowsAre
        <3> HIDE DEF row
        <3>3. [client[d] EXCEPT !.folder[f] = c, !.db[f] = row] \in Clients
            BY <1>0, <1>2, <3>2 DEF Clients
        <3>4. client' = [client EXCEPT ![d] = [client[d] EXCEPT !.folder[f] = c, !.db[f] = row]]
            BY <1>0, <3>1 DEF Clients
        <3>5. QED
            BY <3>3, <3>4
    <2>3. ASSUME NEW f \in Files, ExternalRemove(d, f)
          PROVE  \E r \in Clients : client' = [client EXCEPT ![d] = r]
        <3>1. client' = [client EXCEPT ![d].folder[f] = Absent, ![d].seen = FALSE]
            BY <2>3 DEF ExternalRemove
        <3>2. [client[d] EXCEPT !.folder[f] = Absent, !.seen = FALSE] \in Clients
            BY <1>0, <1>2 DEF Clients
        <3>3. client' = [client EXCEPT ![d] = [client[d] EXCEPT !.folder[f] = Absent, !.seen = FALSE]]
            BY <1>0, <3>1 DEF Clients
        <3>4. QED
            BY <3>2, <3>3
    <2>4. ASSUME NEW names, RemoveFiles(d, names)
          PROVE  \E r \in Clients : client' = [client EXCEPT ![d] = r]
        <3>1. client' = [client EXCEPT ![d] = Forgotten(client[d], names)]
            BY <2>4 DEF RemoveFiles
        <3>2. QED
            BY <1>0, <3>1, ForgottenKeeps
    <2>5. QED
        BY <2>1, <2>2, <2>3, <2>4 DEF User
<1>4. client' \in [Devices -> Clients]
    BY <1>0, <1>3
<1>5. edits' \in 0..MaxEdits /\ edits' # edits
    BY <1>0, <1>1, MediaParameters
<1>6. Typed'
    BY <1>1, <1>4, <1>5 DEF MediaInv, Typed
<1>7. QED
    BY <1>1, <1>5, <1>6, ServerLeft

(* What fetching does: nothing is left to fetch, or a batch of changes is  *)
(* divided into downloads, deletions, and rows that have become clean.     *)
Need(d, f) == determine_required_change(client[d].db[f], server.entry[f].sha)

LEMMA FetchDoes ==
    ASSUME MediaInv, NEW d \in Devices, Fetch(d)
    PROVE  LET batch == Changes(client[d].last_usn)
           IN  \/ /\ batch = <<>> /\ UNCHANGED client
                  /\ Goto(d, [at |-> "send", acted |-> TRUE])
               \/ /\ batch # <<>>
                  /\ \E todo, delete, clean \in NameLists :
                       /\ Range(todo) = {f \in Range(batch) : Need(d, f) = "Download"}
                       /\ Range(delete) = {f \in Range(batch) : Need(d, f) = "Delete"}
                       /\ Range(clean) = {f \in Range(batch) : Need(d, f) = "RemovePending"}
                       /\ client' = [client EXCEPT ![d] = Forgotten(client[d], delete)]
                       /\ Goto(d, [at |-> "download", todo |-> todo, got |-> <<>>,
                                   delete |-> delete, clean |-> clean,
                                   last |-> server.entry[Last(batch)].usn])
<1> DEFINE batch == Changes(client[d].last_usn)
           Those(change) == {f \in Files :
             determine_required_change(client[d].db[f], server.entry[f].sha) = change}
<1>1. CASE batch = <<>>
    BY <1>1 DEF Fetch
<1>2. CASE batch # <<>>
    <2>1. /\ client' = [client EXCEPT ![d] = Forgotten(client[d], Only(batch, Those("Delete")))]
          /\ Goto(d, [at |-> "download", todo |-> Only(batch, Those("Download")), got |-> <<>>,
                      delete |-> Only(batch, Those("Delete")),
                      clean |-> Only(batch, Those("RemovePending")),
                      last |-> server.entry[Last(batch)].usn])
        BY <1>2 DEF Fetch, BatchUsn
    <2>2. batch \in Seq(Files) /\ Injective(batch)
        <3>1. client[d].last_usn \in Nat /\ server \in Servers /\ Tidy(server)
            BY ClientFields DEF MediaInv, Typed, ServerGood
        <3>2. QED
            BY <3>1, PageFacts
    <2>3. \A change : {f \in Range(batch) : Need(d, f) = change} = Range(batch) \cap Those(change)
        BY <2>2, RangeOfSeq DEF Need
    <2> HIDE DEF batch, Those
    <2>4. \A change : /\ Only(batch, Those(change)) \in NameLists
                      /\ Range(Only(batch, Those(change))) = Range(batch) \cap Those(change)
        BY <2>2, OnlySelects, NameListsAre
    <2>5. QED
        BY <1>2, <2>1, <2>3, <2>4 DEF batch
<1>3. QED
    BY <1>1, <1>2

(* What downloading does: some of the files arrive, or the server has to   *)
(* say that it has none of them.                                           *)
LEMMA DownloadDoes ==
    ASSUME MediaInv, NEW d \in Devices, Download(d)
    PROVE  LET s == session[d]
           IN  /\ s.at = "download"
               /\ \/ /\ Goto(d, Idle) /\ torn' = torn \cup Unrecorded(s)
                     /\ UNCHANGED <<client, server>>
                     /\ \E f \in Range(s.todo) : server.entry[f].sha = Absent
                  \/ /\ Goto(d, Idle) /\ torn' = torn \cup Unrecorded(s)
                     /\ UNCHANGED client
                     /\ \E f \in Files : /\ server.entry[f].sha # Absent
                                         /\ server.folder[f] = Absent
                                         /\ server' = ForgetMissing(server, f)
                  \/ \E n \in 1..Len(s.todo) :
                       /\ UNCHANGED <<server, torn>>
                       /\ \A i \in 1..n : server.folder[s.todo[i]] # Absent
                       /\ \E seen \in BOOLEAN :
                            /\ seen => client[d].seen
                            /\ client' = [client EXCEPT ![d] = [client[d] EXCEPT
                                 !.folder = [f \in Files |->
                                    IF \E i \in 1..n : s.todo[i] = f
                                    THEN server.folder[f] ELSE client[d].folder[f]],
                                 !.seen = seen]]
                       /\ Goto(d, [s EXCEPT
                            !.todo = SubSeq(s.todo, n + 1, Len(s.todo)),
                            !.got = s.got \o [i \in 1..n |->
                                      [file |-> s.todo[i], sha |-> server.folder[s.todo[i]]]]])
<1> DEFINE s == session[d]
           limit == IF Len(s.todo) < ZipLimit THEN Len(s.todo) ELSE ZipLimit
<1>1. s.at = "download" /\ s \in Sessions
    BY DEF Download, MediaInv, Typed
<1>2. s.todo \in Seq(Files) /\ Len(s.todo) \in Nat
    BY <1>1, SessionFields, NameListsAre, LenProperties
<1>3. PICK n \in 1..limit :
             LET asked == SubSeq(s.todo, 1, n)
                 empty == \E f \in Range(asked) : server.entry[f].sha = Absent
                 missing == SelectInSeq(asked, LAMBDA f : server.folder[f] = Absent)
             IN  \/ /\ empty
                    /\ Goto(d, Idle) /\ torn' = torn \cup Unrecorded(s)
                    /\ UNCHANGED <<client, server>>
                 \/ /\ ~empty /\ missing # 0
                    /\ server' = ForgetMissing(server, asked[missing])
                    /\ Goto(d, Idle) /\ torn' = torn \cup Unrecorded(s)
                    /\ UNCHANGED client
                 \/ /\ ~empty /\ missing = 0
                    /\ client' = [client EXCEPT
                         ![d].folder = [f \in Files |-> IF f \in Range(asked)
                                                        THEN server.folder[f] ELSE @[f]],
                         ![d].seen = @ /\ \A f \in Range(asked) : client[d].folder[f] # Absent]
                    /\ Goto(d, [s EXCEPT !.todo = SubSeq(@, n + 1, Len(@)),
                         !.got = @ \o [i \in 1..n |-> [file |-> asked[i],
                                                       sha |-> server.folder[asked[i]]]]])
                    /\ UNCHANGED <<server, torn>>
    BY DEF Download
<1> DEFINE asked == SubSeq(s.todo, 1, n)
           I == {i \in 1..Len(asked) : server.folder[asked[i]] = Absent}
           missing == SelectInSeq(asked, LAMBDA f : server.folder[f] = Absent)
<1>4. n \in 1..Len(s.todo)
    <2> DEFINE l == Len(s.todo)
    <2>1. l \in Nat
        BY <1>2
    <2>2. n \in 1..(IF l < ZipLimit THEN l ELSE ZipLimit)
        BY <1>3
    <2> HIDE DEF l
    <2>3. n \in 1..l
        BY <2>1, <2>2, MediaParameters
    <2>4. QED
        BY <2>3 DEF l
<1>5. /\ asked \in Seq(Files) /\ Len(asked) = n
      /\ \A i \in 1..n : asked[i] = s.todo[i] /\ asked[i] \in Files
    <2> DEFINE l == Len(s.todo)
    <2>1. \A i \in 1..n : s.todo[i] \in Files
        BY <1>2, <1>4, ElementOfSeq
    <2>2. n \in Nat /\ n # 0
        BY <1>2, <1>4
    <2> HIDE DEF s
    <2>3. /\ asked \in Seq(Files)
          /\ Len(asked) = IF 1 <= n THEN n - 1 + 1 ELSE 0
          /\ \A i \in 1..(n - 1 + 1) : asked[i] = s.todo[1 + i - 1]
        BY <2>1, <2>2, SubSeqProperties
    <2> HIDE DEF asked
    <2>4. QED
        BY <2>1, <2>2, <2>3
<1>6. \A f : f \in Range(asked) <=> \E i \in 1..n : s.todo[i] = f
    <2> HIDE DEF asked
    <2>1. QED
        BY <1>5, InRange
<1>7. missing = IF I # {} THEN Min(I) ELSE 0
    BY DEF SelectInSeq
<1>8. I # {} => Min(I) \in I
    <2>1. I \in SUBSET Nat
        OBVIOUS
    <2> HIDE DEF I
    <2>2. I # {} => \E x \in I : \A y \in I : ~(y < x)
        BY <2>1, Processing!LeastElement
    <2>3. I # {} => \E x \in I : \A y \in I : x <= y
        BY <2>1, <2>2
    <2>4. QED
        BY <2>3 DEF Min
<1>9. missing # 0 => missing \in I
    BY <1>7, <1>8
<1>10. missing = 0 => I = {}
    <2>1. 0 \notin I
        BY <1>5
    <2> HIDE DEF I, missing
    <2>2. QED
        BY <1>7, <1>8, <2>1
<1> DEFINE empty == \E f \in Range(asked) : server.entry[f].sha = Absent
<1>11. CASE empty
    <2>1. PICK f \in Range(asked) : server.entry[f].sha = Absent
        BY <1>11
    <2>2. PICK i \in 1..n : s.todo[i] = f
        BY <1>6
    <2>3. f \in Range(s.todo)
        <3>1. i \in 1..Len(s.todo)
            BY <1>2, <1>4
        <3> HIDE DEF s
        <3>2. QED
            BY <1>2, <2>2, <3>1, InRange
    <2>4. Goto(d, Idle) /\ torn' = torn \cup Unrecorded(s) /\ UNCHANGED <<client, server>>
        BY <1>3, <1>11
    <2>5. QED
        BY <1>1, <2>1, <2>3, <2>4
<1>12. CASE ~empty /\ missing # 0
    <2>1. /\ server' = ForgetMissing(server, asked[missing])
          /\ Goto(d, Idle) /\ torn' = torn \cup Unrecorded(s)
          /\ UNCHANGED client
        BY <1>3, <1>12
    <2>2. missing \in 1..n /\ server.folder[asked[missing]] = Absent
        BY <1>5, <1>9, <1>12
    <2> HIDE DEF missing, s
    <2>3. asked[missing] \in Files /\ asked[missing] \in Range(asked)
        BY <1>5, <1>6, <2>2
    <2>4. server.entry[asked[missing]].sha # Absent
        BY <1>12, <2>3
    <2> HIDE DEF asked, empty
    <2>5. QED
        BY <1>1, <2>1, <2>2, <2>3, <2>4 DEF s
<1>13. CASE ~empty /\ missing = 0
    <2> DEFINE seen == client[d].seen /\ \A f \in Range(asked) : client[d].folder[f] # Absent
               folder == [f \in Files |-> IF f \in Range(asked) THEN server.folder[f]
                                          ELSE client[d].folder[f]]
    <2>1. /\ client' = [client EXCEPT ![d].folder = folder, ![d].seen = seen]
          /\ Goto(d, [s EXCEPT !.todo = SubSeq(s.todo, n + 1, Len(s.todo)),
                         !.got = s.got \o [i \in 1..n |-> [file |-> asked[i],
                                                       sha |-> server.folder[asked[i]]]]])
          /\ UNCHANGED <<server, torn>>
        <3>1. LET r == [s EXCEPT !.todo = SubSeq(@, n + 1, Len(@)),
                         !.got = @ \o [i \in 1..n |-> [file |-> asked[i],
                                                       sha |-> server.folder[asked[i]]]]]
              IN  r = [s EXCEPT !.todo = SubSeq(s.todo, n + 1, Len(s.todo)),
                         !.got = s.got \o [i \in 1..n |-> [file |-> asked[i],
                                                       sha |-> server.folder[asked[i]]]]]
            BY <1>1, SessionFields
        <3>2. client \in [Devices -> Clients]
            BY DEF MediaInv, Typed
        <3>3. [client EXCEPT
                         ![d].folder = [f \in Files |-> IF f \in Range(asked)
                                                        THEN server.folder[f] ELSE @[f]],
                         ![d].seen = @ /\ \A f \in Range(asked) : client[d].folder[f] # Absent]
              = [client EXCEPT ![d].folder = folder, ![d].seen = seen]
            BY <3>2 DEF Clients
        <3>4. QED
            BY <1>3, <1>13, <3>1, <3>3
    <2>2. [i \in 1..n |-> [file |-> asked[i], sha |-> server.folder[asked[i]]]]
          = [i \in 1..n |-> [file |-> s.todo[i], sha |-> server.folder[s.todo[i]]]]
        BY <1>5
    <2>3. client[d].seen \in BOOLEAN /\ client \in [Devices -> Clients] /\ client[d] \in Clients
        BY ClientFields DEF MediaInv, Typed
    <2>4. seen \in BOOLEAN /\ (seen => client[d].seen)
        OBVIOUS
    <2>5. folder = [f \in Files |-> IF \E i \in 1..n : s.todo[i] = f
                                    THEN server.folder[f] ELSE client[d].folder[f]]
        BY <1>6
    <2>6. \A i \in 1..n : server.folder[s.todo[i]] # Absent
        BY <1>5, <1>10, <1>13
    <2> HIDE DEF seen, folder, asked, missing, empty, I
    <2>7. client' = [client EXCEPT ![d] = [client[d] EXCEPT !.folder = folder, !.seen = seen]]
        BY <2>1, <2>3 DEF Clients
    <2>8. QED
        BY <1>1, <1>4, <2>1, <2>2, <2>4, <2>5, <2>6, <2>7
<1>14. QED
    BY <1>11, <1>12, <1>13

(* What sending does: the rows of files that cannot be synced are dropped, *)
(* or an upload of the first pending files goes out.                       *)
LEMMA UploadDoes ==
    ASSUME MediaInv, NEW d \in Devices, Upload(d)
    PROVE  /\ session[d].at = "send" /\ wire[d] = NoUpload
           /\ \/ /\ UNCHANGED wire
                 /\ Goto(d, [at |-> "send", acted |-> TRUE])
                 /\ \E invalid \in SUBSET Files :
                      /\ invalid # {}
                      /\ \A f \in invalid : /\ DataFor(client[d], f) \in Unsyncable
                                            /\ client[d].db[f].dirty
                      /\ client' = [client EXCEPT ![d].db =
                            [f \in Files |-> IF f \in invalid THEN Unknown ELSE client[d].db[f]]]
              \/ /\ UNCHANGED client
                 /\ \E files \in NameLists :
                      /\ files # <<>>
                      /\ \A f \in Range(files) : /\ f \in Files /\ client[d].db[f].dirty
                                                 /\ DataFor(client[d], f) \notin Unsyncable
                      /\ wire' = [wire EXCEPT ![d] =
                            [i \in 1..Len(files) |-> [file |-> files[i],
                                                      data |-> DataFor(client[d], files[i])]]]
                      /\ Goto(d, [at |-> "sent", files |-> files])
<1> DEFINE all == SetToSeq(Files)
           dirty == {f \in Files : client[d].db[f].dirty}
           pending == Pending(d)
<1>1. pending \in Seq(Files) /\ Injective(pending) /\ Range(pending) = Range(all) \cap dirty
    BY MediaParameters, FileOrder, OnlySelects DEF Pending
<1>2. PICK n \in 1..(IF Len(pending) < ZipLimit THEN Len(pending) ELSE ZipLimit) :
        LET files == SubSeq(pending, 1, n)
            invalid == Invalid(client[d], Range(files))
        IN  IF invalid # {}
            THEN /\ client' = [client EXCEPT ![d].db =
                            [f \in Files |-> IF f \in invalid THEN Unknown ELSE @[f]]]
                 /\ Goto(d, [at |-> "send", acted |-> TRUE])
                 /\ UNCHANGED wire
            ELSE /\ wire' = [wire EXCEPT ![d] =
                            [i \in 1..n |-> [file |-> files[i],
                                             data |-> DataFor(client[d], files[i])]]]
                 /\ Goto(d, [at |-> "sent", files |-> files])
                 /\ UNCHANGED client
    <2> DEFINE Sends(n, files) ==
                 LET invalid == Invalid(client[d], Range(files))
                 IN  IF invalid # {}
                     THEN /\ client' = [client EXCEPT ![d].db =
                            [f \in Files |-> IF f \in invalid THEN Unknown ELSE @[f]]]
                          /\ Goto(d, [at |-> "send", acted |-> TRUE])
                          /\ UNCHANGED wire
                     ELSE /\ wire' = [wire EXCEPT ![d] =
                            [i \in 1..n |-> [file |-> files[i],
                                             data |-> DataFor(client[d], files[i])]]]
                          /\ Goto(d, [at |-> "sent", files |-> files])
                          /\ UNCHANGED client
    <2>1. \E p \in {pending} : \E n \in 1..(IF Len(p) < ZipLimit THEN Len(p) ELSE ZipLimit) :
            \E files \in {SubSeq(p, 1, n)} : Sends(n, files)
        BY DEF Upload
    <2> HIDE DEF Sends
    <2>2. \E n \in 1..(IF Len(pending) < ZipLimit THEN Len(pending) ELSE ZipLimit) :
            Sends(n, SubSeq(pending, 1, n))
        BY <2>1
    <2>3. QED
        BY <2>2 DEF Sends
<1>3. session[d].at = "send" /\ wire[d] = NoUpload
    BY DEF Upload
<1>4. n \in 1..Len(pending)
    <2> DEFINE l == Len(pending)
    <2>1. l \in Nat
        BY <1>1, LenProperties
    <2>2. n \in 1..(IF l < ZipLimit THEN l ELSE ZipLimit)
        BY <1>2
    <2> HIDE DEF l
    <2>3. n \in 1..l
        BY <2>1, <2>2, MediaParameters
    <2>4. QED
        BY <2>3 DEF l
<1> DEFINE files == SubSeq(pending, 1, n)
           invalid == Invalid(client[d], Range(files))
<1>5. /\ files \in Seq(Files) /\ Len(files) = n /\ n \in Nat /\ n # 0
      /\ \A i \in 1..n : files[i] = pending[i] /\ files[i] \in dirty
    <2>1. \A i \in 1..n : pending[i] \in Files /\ pending[i] \in Range(pending)
        <3>1. Len(pending) \in Nat
            BY <1>1, LenProperties
        <3>2. \A i \in 1..n : i \in 1..Len(pending)
            BY <1>4, <3>1
        <3> HIDE DEF pending
        <3>3. QED
            BY <1>1, <3>2, ElementOfSeq, InRange
    <2>2. n \in Nat /\ n # 0
        BY <1>1, <1>4, LenProperties
    <2> HIDE DEF pending
    <2>3. /\ files \in Seq(Files)
          /\ Len(files) = IF 1 <= n THEN n - 1 + 1 ELSE 0
          /\ \A i \in 1..(n - 1 + 1) : files[i] = pending[1 + i - 1]
        BY <2>1, <2>2, SubSeqProperties
    <2> HIDE DEF files, all, dirty
    <2>4. QED
        BY <1>1, <2>1, <2>2, <2>3
<1>6. Injective(files)
    <2>1. Len(pending) \in Nat
        BY <1>1, LenProperties
    <2>2. \A i \in 1..n : i \in 1..Len(pending)
        BY <1>4, <2>1
    <2> HIDE DEF pending, files
    <2>3. QED
        BY <1>1, <1>5, <2>2 DEF Injective
<1>7. files \in NameLists
    BY <1>5, <1>6, NameListsAre
<1>8. \A f \in Range(files) : f \in dirty
    <2> HIDE DEF files, dirty
    <2>1. QED
        BY <1>5, InRange
<1>9. files # <<>>
    BY <1>5
<1> HIDE DEF pending, files
<1>10. CASE invalid # {}
    <2>1. /\ client' = [client EXCEPT ![d].db =
                            [f \in Files |-> IF f \in invalid THEN Unknown ELSE client[d].db[f]]]
          /\ Goto(d, [at |-> "send", acted |-> TRUE])
          /\ UNCHANGED wire
        <3>1. client \in [Devices -> Clients]
            BY DEF MediaInv, Typed
        <3>2. [client EXCEPT ![d].db = [f \in Files |-> IF f \in invalid THEN Unknown ELSE @[f]]]
              = [client EXCEPT ![d].db =
                            [f \in Files |-> IF f \in invalid THEN Unknown ELSE client[d].db[f]]]
            BY <3>1 DEF Clients
        <3>3. QED
            BY <1>2, <1>10, <3>2 DEF files
    <2>2. \A f \in invalid : f \in Files /\ DataFor(client[d], f) \in Unsyncable /\ client[d].db[f].dirty
        BY <1>8 DEF Invalid
    <2> HIDE DEF invalid
    <2>3. QED
        BY <1>3, <1>10, <2>1, <2>2
<1>11. CASE invalid = {}
    <2>1. /\ wire' = [wire EXCEPT ![d] =
                            [i \in 1..n |-> [file |-> files[i],
                                             data |-> DataFor(client[d], files[i])]]]
          /\ Goto(d, [at |-> "sent", files |-> files])
          /\ UNCHANGED client
        BY <1>2, <1>11 DEF files
    <2>2. \A f \in Range(files) : DataFor(client[d], f) \notin Unsyncable
        BY <1>11 DEF Invalid
    <2>3. QED
        BY <1>3, <1>5, <1>7, <1>8, <1>9, <2>1, <2>2
<1>12. QED
    BY <1>10, <1>11

LEMMA ForgetKeeps ==
    ASSUME NEW s \in Servers, Tidy(s), NEW f \in Files, s.entry[f].sha # Absent,
           \A g \in Files : s.entry[g].known => s.entry[g].usn # 0
    PROVE  LET r == ForgetMissing(s, f)
           IN  /\ r \in Servers /\ Tidy(r)
               /\ r.folder = s.folder /\ r.last_usn = s.last_usn
               /\ r.entry[f] = NoEntry
               /\ \A g \in Files \ {f} : r.entry[g] = s.entry[g]
<1> DEFINE r == ForgetMissing(s, f)
           there == {g \in Files : s.entry[g].sha # Absent}
           now == {g \in Files : r.entry[g].sha # Absent}
<1>1. /\ r = [s EXCEPT !.count = Decrement(s.count), !.entry[f] = NoEntry]
      /\ r.folder = s.folder /\ r.last_usn = s.last_usn
      /\ r.count = Decrement(s.count)
      /\ r.entry = [s.entry EXCEPT ![f] = NoEntry]
    BY DEF ForgetMissing, Servers
<1>2. Decrement(s.count) \in Nat
    BY ServerFields DEF Decrement
<1>3. NoEntry \in [known : BOOLEAN, sha : Shas, usn : Nat]
    BY DEF NoEntry, Shas
<1>4. r \in Servers
    <2> DEFINE entry == [s.entry EXCEPT ![f] = NoEntry]
    <2>1. entry \in [Files -> [known : BOOLEAN, sha : Shas, usn : Nat]]
        BY <1>3, ServerFields
    <2>2. r = [s EXCEPT !.count = Decrement(s.count), !.entry = entry]
        BY <1>1 DEF Servers
    <2> HIDE DEF entry, r
    <2>3. [s EXCEPT !.count = Decrement(s.count), !.entry = entry] \in Servers
        BY <1>2, <2>1 DEF Servers
    <2>4. QED
        BY <2>2, <2>3
<1>5. r.entry[f] = NoEntry /\ \A g \in Files \ {f} : r.entry[g] = s.entry[g]
    BY <1>1, ServerFields
<1> HIDE DEF r
<1>6. /\ r.entry[f].known = FALSE /\ r.entry[f].sha = Absent /\ r.entry[f].usn = 0
    BY <1>5 DEF NoEntry
<1>7. now = there \ {f} /\ f \in there
    BY <1>5, <1>6
<1>8. IsFiniteSet(there) /\ s.count = Cardinality(there)
    BY MediaParameters, FS_Subset DEF Tidy
<1>9. s.count \in Nat /\ s.last_usn \in Nat
    BY ServerFields
<1>10. r.count = Cardinality(now)
    <2> HIDE DEF there, now
    <2>1. Cardinality(now) = Cardinality(there) - 1
        BY <1>7, <1>8, FS_RemoveElement
    <2>2. Cardinality(now) \in Nat
        BY <1>7, <1>8, FS_RemoveElement, FS_CardinalityType
    <2>3. QED
        BY <1>1, <1>8, <1>9, <2>1, <2>2 DEF Decrement
<1>11. \A g \in Files : r.entry[g].usn <= r.last_usn
    BY <1>1, <1>5, <1>6, <1>9 DEF Tidy
<1>12. \A g, h \in Files : r.entry[g].known /\ r.entry[g].usn = r.entry[h].usn => g = h
    BY <1>5, <1>6 DEF Tidy
<1>13. QED
    BY <1>1, <1>4, <1>5, <1>10, <1>11, <1>12 DEF Tidy, r

LEMMA SessionGoes ==
    ASSUME MediaInv, NEW d \in Devices, NEW s \in Sessions, Goto(d, s)
    PROVE  session' \in [Devices -> Sessions]
BY DEF MediaInv, Typed, Goto

LEMMA FetchKeeps ==
    ASSUME MediaInv, NEW d \in Devices, Fetch(d)
    PROVE  MediaInv'
<1>0. /\ client \in [Devices -> Clients] /\ client[d] \in Clients
      /\ server \in Servers /\ Tidy(server) /\ client[d].last_usn \in Nat
    BY ClientFields DEF MediaInv, Typed, ServerGood
<1>1. UNCHANGED <<wire, server, acknowledged, torn, edits, faults>>
    BY DEF Fetch
<1> DEFINE batch == Changes(client[d].last_usn)
<1>2. CASE UNCHANGED client /\ Goto(d, [at |-> "send", acted |-> TRUE])
    <2>1. [at |-> "send", acted |-> TRUE] \in Sessions
        BY DEF Sessions
    <2>2. session' \in [Devices -> Sessions]
        BY <1>2, <2>1, SessionGoes
    <2>3. Typed'
        BY <1>1, <1>2, <2>2 DEF MediaInv, Typed
    <2>4. QED
        BY <1>1, <2>3, ServerLeft
<1>3. ASSUME batch # <<>>, NEW todo \in NameLists, NEW delete \in NameLists,
             NEW clean \in NameLists,
             client' = [client EXCEPT ![d] = Forgotten(client[d], delete)],
             Goto(d, [at |-> "download", todo |-> todo, got |-> <<>>,
                                   delete |-> delete, clean |-> clean,
                                   last |-> server.entry[Last(batch)].usn])
      PROVE  MediaInv'
    <2>1. Last(batch) \in Files
        BY <1>0, <1>3, PageFacts
    <2>2. server.entry[Last(batch)].usn \in Nat
        <3> HIDE DEF batch
        <3>1. QED
            BY <1>0, <2>1, ServerFields
    <2> DEFINE last == server.entry[Last(batch)].usn
               s == [at |-> "download", todo |-> todo, got |-> <<>>, delete |-> delete,
                     clean |-> clean, last |-> last]
    <2>3. s \in Sessions
        <3> HIDE DEF last
        <3>1. <<>> \in Seq(Gots)
            BY EmptySeq
        <3>2. last \in Nat
            BY <2>2 DEF last
        <3>3. s \in Downloads
            BY <3>1, <3>2 DEF Downloads
        <3>4. QED
            BY <3>3 DEF Sessions
    <2>4. Goto(d, s)
        BY <1>3
    <2> HIDE DEF s
    <2>5. session' \in [Devices -> Sessions]
        BY <2>3, <2>4, SessionGoes
    <2>6. client' \in [Devices -> Clients]
        BY <1>0, <1>3, ForgottenKeeps
    <2>7. Typed'
        BY <1>1, <2>5, <2>6 DEF MediaInv, Typed
    <2>8. QED
        BY <1>1, <2>7, ServerLeft
<1>4. QED
    BY <1>2, <1>3, FetchDoes

LEMMA DownloadKeeps ==
    ASSUME MediaInv, NEW d \in Devices, Download(d)
    PROVE  MediaInv'
<1> DEFINE s == session[d]
<1>0. /\ client \in [Devices -> Clients] /\ client[d] \in Clients /\ s \in Sessions
      /\ server \in Servers /\ Tidy(server)
      /\ \A g \in Files : server.entry[g].known => server.entry[g].usn # 0
    BY DEF MediaInv, Typed, ServerGood
<1>1. UNCHANGED <<wire, acknowledged, edits, faults>> /\ s.at = "download"
    BY DEF Download
<1>2. Idle \in Sessions
    BY DEF Sessions
<1>3. /\ s.todo \in NameLists /\ s.delete \in NameLists /\ s.clean \in NameLists
      /\ s.got \in Seq(Gots) /\ s.last \in Nat
      /\ s \in Downloads
    BY <1>0, <1>1, SessionFields
<1>4. Unrecorded(s) \subseteq Files
    <2>1. \A g \in Range(s.got) : g \in Gots
        BY <1>3, RangeOfSeq
    <2>2. QED
        BY <1>1, <2>1 DEF Unrecorded, Gots
<1>5. ASSUME Goto(d, Idle), torn' = torn \cup Unrecorded(s), UNCHANGED <<client, server>>
      PROVE  MediaInv'
    <2>1. session' \in [Devices -> Sessions]
        BY <1>2, <1>5, SessionGoes
    <2>2. Typed'
        BY <1>1, <1>4, <1>5, <2>1 DEF MediaInv, Typed
    <2>3. QED
        BY <1>1, <1>5, <2>2, ServerLeft
<1>6. ASSUME Goto(d, Idle), torn' = torn \cup Unrecorded(s), UNCHANGED client,
             NEW f \in Files, server.entry[f].sha # Absent,
             server' = ForgetMissing(server, f)
      PROVE  MediaInv'
    <2>1. session' \in [Devices -> Sessions]
        BY <1>2, <1>6, SessionGoes
    <2>2. /\ server' \in Servers /\ Tidy(server')
          /\ server'.entry[f] = NoEntry
          /\ \A g \in Files \ {f} : server'.entry[g] = server.entry[g]
        BY <1>0, <1>6, ForgetKeeps
    <2>3. Typed'
        BY <1>1, <1>4, <1>6, <2>1, <2>2 DEF MediaInv, Typed
    <2>4. ~server'.entry[f].known
        BY <2>2 DEF NoEntry
    <2>5. ASSUME NEW g \in Files, server'.entry[g].known
          PROVE  /\ server'.entry[g].usn # 0
                 /\ server'.entry[g].sha = Absent => g \in acknowledged'
        <3>1. server'.entry[g] = server.entry[g]
            BY <2>2, <2>4, <2>5
        <3>2. QED
            BY <1>1, <2>5, <3>1 DEF MediaInv, ServerGood
    <2>6. ServerGood'
        BY <2>2, <2>5 DEF ServerGood, Tidy
    <2>7. QED
        BY <2>3, <2>6 DEF MediaInv
<1>7. ASSUME NEW n \in 1..Len(s.todo), UNCHANGED <<server, torn>>,
             NEW seen \in BOOLEAN,
             client' = [client EXCEPT ![d] = [client[d] EXCEPT
                                 !.folder = [f \in Files |->
                                    IF \E i \in 1..n : s.todo[i] = f
                                    THEN server.folder[f] ELSE client[d].folder[f]],
                                 !.seen = seen]],
             Goto(d, [s EXCEPT
                            !.todo = SubSeq(s.todo, n + 1, Len(s.todo)),
                            !.got = s.got \o [i \in 1..n |->
                                      [file |-> s.todo[i], sha |-> server.folder[s.todo[i]]]]])
      PROVE  MediaInv'
    <2> DEFINE todo == SubSeq(s.todo, n + 1, Len(s.todo))
               more == [i \in 1..n |-> [file |-> s.todo[i], sha |-> server.folder[s.todo[i]]]]
               new == [s EXCEPT !.todo = todo, !.got = s.got \o more]
               folder == [f \in Files |-> IF \E i \in 1..n : s.todo[i] = f
                                          THEN server.folder[f] ELSE client[d].folder[f]]
    <2>1. todo \in NameLists
        <3>1. s.todo \in Seq(Files) /\ Injective(s.todo) /\ Len(s.todo) \in Nat
            BY <1>3, NameListsAre, LenProperties
        <3> DEFINE l == Len(s.todo)
        <3>2. \A i \in (n + 1)..l : s.todo[i] \in Files
            BY <3>1, ElementOfSeq
        <3>3. n + 1 \in Int /\ l \in Int /\ n \in Nat /\ n <= l
            BY <3>1
        <3> HIDE DEF l
        <3>4. /\ SubSeq(s.todo, n + 1, l) \in Seq(Files)
              /\ Len(SubSeq(s.todo, n + 1, l)) = IF n + 1 <= l THEN l - (n + 1) + 1 ELSE 0
              /\ \A i \in 1..(l - (n + 1) + 1) : SubSeq(s.todo, n + 1, l)[i] = s.todo[(n + 1) + i - 1]
            BY <3>2, <3>3, SubSeqProperties
        <3>5. Len(SubSeq(s.todo, n + 1, l)) = l - n
            BY <3>3, <3>4
        <3>6. \A i \in 1..(l - n) : SubSeq(s.todo, n + 1, l)[i] = s.todo[n + i] /\ n + i \in 1..l
            BY <3>3, <3>4
        <3>7. Injective(SubSeq(s.todo, n + 1, l))
            <4> DEFINE u == SubSeq(s.todo, n + 1, l)
            <4> HIDE DEF u
            <4>1. SUFFICES ASSUME NEW i \in 1..(l - n), NEW j \in 1..(l - n), u[i] = u[j]
                           PROVE  i = j
                BY <3>5 DEF Injective, u
            <4>2. s.todo[n + i] = s.todo[n + j] /\ n + i \in 1..l /\ n + j \in 1..l
                BY <3>6, <4>1 DEF u
            <4>3. n + i = n + j
                BY <3>1, <4>2 DEF Injective, l
            <4>4. QED
                BY <3>3, <4>3
        <3>8. QED
            BY <3>4, <3>7, NameListsAre DEF l
    <2>2. \A i \in 1..n : s.todo[i] \in Files /\ server.folder[s.todo[i]] \in Shas
        <3>1. s.todo \in Seq(Files) /\ Len(s.todo) \in Nat
            BY <1>3, NameListsAre, LenProperties
        <3>2. \A i \in 1..n : s.todo[i] \in Files
            BY <3>1, ElementOfSeq
        <3>3. QED
            BY <1>0, <3>2, ServerFields
    <2>3. more \in Seq(Gots)
        <3>1. n \in Nat
            BY <1>3, NameListsAre, LenProperties
        <3>2. more \in [1..n -> Gots]
            BY <2>2 DEF Gots
        <3> HIDE DEF more
        <3>3. QED
            BY <3>1, <3>2
    <2>4. s.got \o more \in Seq(Gots)
        <3> HIDE DEF more
        <3>1. QED
            BY <1>3, <2>3, ConcatProperties
    <2>5. Goto(d, new)
        BY <1>7
    <2>6. new \in Sessions
        <3> DEFINE got == s.got \o more
        <3> HIDE DEF todo, got, s
        <3>1. got \in Seq(Gots)
            BY <2>4 DEF got
        <3>2. [s EXCEPT !.todo = todo, !.got = got] \in Downloads
            BY <1>3, <2>1, <3>1 DEF Downloads
        <3>3. QED
            BY <3>2 DEF Sessions, got
    <2>7. session' \in [Devices -> Sessions]
        <3> HIDE DEF new
        <3>1. QED
            BY <2>5, <2>6, SessionGoes
    <2>8. folder \in [Files -> Shas]
        BY <1>0, ClientFields, ServerFields
    <2>9. client' \in [Devices -> Clients]
        <3> HIDE DEF folder
        <3>1. client' = [client EXCEPT ![d] = [client[d] EXCEPT !.folder = folder, !.seen = seen]]
            BY <1>7 DEF folder
        <3>2. [client[d] EXCEPT !.folder = folder, !.seen = seen] \in Clients
            BY <1>0, <2>8 DEF Clients
        <3>3. QED
            BY <1>0, <3>1, <3>2
    <2>10. Typed'
        BY <1>1, <1>7, <2>7, <2>9 DEF MediaInv, Typed
    <2>11. QED
        BY <1>1, <1>7, <2>10, ServerLeft
<1>8. CASE \E n \in 1..Len(s.todo) :
               /\ UNCHANGED <<server, torn>>
               /\ \A i \in 1..n : server.folder[s.todo[i]] # Absent
               /\ \E seen \in BOOLEAN :
                    /\ seen => client[d].seen
                    /\ client' = [client EXCEPT ![d] = [client[d] EXCEPT
                         !.folder = [f \in Files |->
                            IF \E i \in 1..n : s.todo[i] = f
                            THEN server.folder[f] ELSE client[d].folder[f]],
                         !.seen = seen]]
               /\ Goto(d, [s EXCEPT
                    !.todo = SubSeq(s.todo, n + 1, Len(s.todo)),
                    !.got = s.got \o [i \in 1..n |->
                              [file |-> s.todo[i], sha |-> server.folder[s.todo[i]]]]])
    BY <1>7, <1>8
<1>9. QED
    BY <1>5, <1>6, <1>8, DownloadDoes

LEMMA UploadKeeps ==
    ASSUME MediaInv, NEW d \in Devices, Upload(d)
    PROVE  MediaInv'
<1>0. client \in [Devices -> Clients] /\ client[d] \in Clients
    BY DEF MediaInv, Typed
<1>1. UNCHANGED <<server, acknowledged, torn, edits, faults>>
    BY DEF Upload
<1>2. ASSUME UNCHANGED wire, Goto(d, [at |-> "send", acted |-> TRUE]), NEW invalid,
             client' = [client EXCEPT ![d].db =
                            [f \in Files |-> IF f \in invalid THEN Unknown ELSE client[d].db[f]]]
      PROVE  MediaInv'
    <2> DEFINE db == [f \in Files |-> IF f \in invalid THEN Unknown ELSE client[d].db[f]]
    <2>1. db \in [Files -> Rows]
        BY <1>0, ClientFields, RowsAre
    <2>2. client' = [client EXCEPT ![d].db = db]
        BY <1>2
    <2> HIDE DEF db
    <2>3. client' = [client EXCEPT ![d] = [client[d] EXCEPT !.db = db]]
        BY <1>0, <2>2 DEF Clients
    <2>4. [client[d] EXCEPT !.db = db] \in Clients
        BY <1>0, <2>1 DEF Clients
    <2>5. client' \in [Devices -> Clients]
        BY <1>0, <2>3, <2>4
    <2>6. [at |-> "send", acted |-> TRUE] \in Sessions
        BY DEF Sessions
    <2>7. session' \in [Devices -> Sessions]
        BY <1>2, <2>6, SessionGoes
    <2>8. Typed'
        BY <1>1, <1>2, <2>5, <2>7 DEF MediaInv, Typed
    <2>9. QED
        BY <1>1, <2>8, ServerLeft
<1>3. ASSUME UNCHANGED client, NEW files \in NameLists,
             \A f \in Range(files) : f \in Files /\ DataFor(client[d], f) \notin Unsyncable,
             wire' = [wire EXCEPT ![d] = [i \in 1..Len(files) |->
                        [file |-> files[i], data |-> DataFor(client[d], files[i])]]],
             Goto(d, [at |-> "sent", files |-> files])
      PROVE  MediaInv'
    <2> DEFINE n == Len(files)
               sent == [i \in 1..n |-> [file |-> files[i], data |-> DataFor(client[d], files[i])]]
    <2>1. files \in Seq(Files) /\ n \in Nat
        BY NameListsAre, LenProperties
    <2>2. \A f \in Files : DataFor(client[d], f) \in Shas
        BY <1>0, ClientFields DEF DataFor, Shas
    <2>3. \A i \in 1..n : files[i] \in Range(files)
        BY <2>1, InRange
    <2>4. sent \in [1..n -> Changed]
        <3> HIDE DEF n
        <3>1. QED
            BY <1>3, <2>2, <2>3 DEF Changed
    <2>5. wire' = [wire EXCEPT ![d] = sent]
        BY <1>3
    <2> HIDE DEF n, sent
    <2>6. sent \in Seq(Changed)
        BY <2>1, <2>4
    <2>7. wire' \in [Devices -> Seq(Changed)]
        BY <2>5, <2>6 DEF MediaInv, Typed
    <2>8. [at |-> "sent", files |-> files] \in Sessions
        BY DEF Sessions
    <2>9. session' \in [Devices -> Sessions]
        BY <1>3, <2>8, SessionGoes
    <2>10. Typed'
        BY <1>1, <1>3, <2>7, <2>9 DEF MediaInv, Typed
    <2>11. QED
        BY <1>1, <2>10, ServerLeft
<1>4. QED
    BY <1>2, <1>3, UploadDoes

(* The actions of one device that only change its session, or its row of   *)
(* clients.                                                                *)
LEMMA DeviceStepKeeps ==
    ASSUME MediaInv, NEW d \in Devices,
           \E s \in Sessions : Goto(d, s),
           UNCHANGED client \/ \E c \in Clients : client' = [client EXCEPT ![d] = c],
           UNCHANGED <<wire, server, acknowledged, edits>>,
           torn' \subseteq Files, faults' \in 0..MaxFaults
    PROVE  MediaInv'
<1>1. session' \in [Devices -> Sessions]
    BY SessionGoes
<1>2. client' \in [Devices -> Clients]
    BY DEF MediaInv, Typed
<1>3. Typed'
    BY <1>1, <1>2 DEF MediaInv, Typed
<1>4. QED
    BY <1>3, ServerLeft

LEMMA UnrecordedFiles ==
    ASSUME NEW s \in Sessions
    PROVE  Unrecorded(s) \subseteq Files
<1>1. CASE s.at = "download"
    <2>1. \A g \in Range(s.got) : g \in Gots
        BY <1>1, SessionFields, RangeOfSeq
    <2>2. QED
        BY <1>1, <2>1 DEF Unrecorded, Gots
<1>2. CASE s.at # "download"
    BY <1>2 DEF Unrecorded
<1>3. QED
    BY <1>1, <1>2

LEMMA SyncStepKeeps ==
    ASSUME MediaInv, NEW d \in Devices, SyncStep(d) \/ StartSync(d) \/ Abort(d)
    PROVE  MediaInv'
<1>0. /\ client \in [Devices -> Clients] /\ client[d] \in Clients /\ session[d] \in Sessions
      /\ server.last_usn \in Nat /\ torn \subseteq Files /\ faults \in 0..MaxFaults
    BY ServerFields DEF MediaInv, Typed
<1>1. /\ Idle \in Sessions /\ [at |-> "resync"] \in Sessions
      /\ \A usn \in Nat : [at |-> "begin", usn |-> usn] \in Sessions
      /\ \A at \in {"fetch", "send"}, acted \in BOOLEAN :
           [at |-> at, acted |-> acted] \in Sessions
    BY DEF Sessions
<1>2. CASE StartSync(d)
    <2>1. /\ client' = [client EXCEPT ![d] = Registered(client[d])]
          /\ Goto(d, [at |-> "begin", usn |-> server.last_usn])
          /\ UNCHANGED <<wire, server, acknowledged, torn, edits, faults>>
        BY <1>2 DEF StartSync
    <2>2. Registered(client[d]) \in Clients
        BY <1>0, RegisteredKeeps
    <2>3. QED
        BY <1>0, <1>1, <2>1, <2>2, DeviceStepKeeps
<1>3. CASE Begin(d)
    <2>1. UNCHANGED <<client, wire, server, acknowledged, torn, edits, faults>>
        BY <1>3 DEF Begin
    <2>2. \/ Goto(d, [at |-> "fetch", acted |-> TRUE])
          \/ Goto(d, [at |-> "send", acted |-> FALSE])
        BY <1>3 DEF Begin
    <2>3. \E s \in Sessions : Goto(d, s)
        BY <1>1, <2>2
    <2>4. QED
        BY <1>0, <2>1, <2>3, DeviceStepKeeps
<1>4. CASE RecordBatch(d)
    <2>1. /\ session[d].at = "download"
          /\ client' = [client EXCEPT ![d] = Recorded(client[d], session[d])]
          /\ Goto(d, [at |-> "fetch", acted |-> TRUE])
          /\ UNCHANGED <<wire, server, acknowledged, torn, edits, faults>>
        BY <1>4 DEF RecordBatch
    <2>2. Recorded(client[d], session[d]) \in Clients
        BY <1>0, <2>1, RecordedKeeps
    <2>3. QED
        BY <1>0, <1>1, <2>1, <2>2, DeviceStepKeeps
<1>5. CASE UploadAnswered(d)
    <2>1. /\ session[d].at = "answered"
          /\ client' = [client EXCEPT ![d] = Answered(client[d], session[d])]
          /\ Goto(d, [at |-> "send", acted |-> TRUE])
          /\ UNCHANGED <<wire, server, acknowledged, torn, edits, faults>>
        BY <1>5 DEF UploadAnswered
    <2>2. Answered(client[d], session[d]) \in Clients
        BY <1>0, <2>1, AnsweredKeeps
    <2>3. QED
        BY <1>0, <1>1, <2>1, <2>2, DeviceStepKeeps
<1>6. CASE Finish(d)
    <2>1. /\ Goto(d, Idle) \/ Goto(d, [at |-> "resync"])
          /\ UNCHANGED <<client, wire, server, acknowledged, torn, edits, faults>>
        BY <1>6 DEF Finish
    <2>2. QED
        BY <1>0, <1>1, <2>1, DeviceStepKeeps
<1>7. CASE ForceResync(d)
    <2> DEFINE db == [f \in Files |-> Unknown]
               c == [client[d] EXCEPT !.db = db, !.last_usn = 0, !.seen = FALSE]
    <2>1. /\ client' = [client EXCEPT ![d].db = db, ![d].last_usn = 0, ![d].seen = FALSE]
          /\ Goto(d, Idle)
          /\ UNCHANGED <<wire, server, acknowledged, torn, edits, faults>>
        BY <1>7 DEF ForceResync
    <2>2. db \in [Files -> Rows]
        BY RowsAre
    <2> HIDE DEF db
    <2>3. c \in Clients
        BY <1>0, <2>2 DEF Clients
    <2>4. client' = [client EXCEPT ![d] = c]
        BY <1>0, <2>1 DEF Clients
    <2>5. QED
        BY <1>0, <1>1, <2>1, <2>3, <2>4, DeviceStepKeeps
<1>8. CASE Abort(d)
    <2>1. /\ faults < MaxFaults /\ faults' = faults + 1
          /\ torn' = torn \cup Unrecorded(session[d])
          /\ Goto(d, Idle)
          /\ UNCHANGED <<client, wire, server, acknowledged, edits>>
        BY <1>8 DEF Abort
    <2>2. torn' \subseteq Files
        BY <1>0, <2>1, UnrecordedFiles
    <2>3. faults' \in 0..MaxFaults
        BY <1>0, <2>1, MediaParameters
    <2>4. QED
        BY <1>1, <2>1, <2>2, <2>3, DeviceStepKeeps
<1>9. QED
    BY <1>2, <1>3, <1>4, <1>5, <1>6, <1>7, <1>8, FetchKeeps, DownloadKeeps, UploadKeeps
       DEF SyncStep

LEMMA MediaCheckKeeps ==
    ASSUME MediaInv, NEW d \in Devices, MediaCheck(d)
    PROVE  MediaInv'
<1>1. /\ client' = [client EXCEPT ![d] = Registered(client[d])]
      /\ UNCHANGED <<session, wire, server, acknowledged, torn, edits, faults>>
    BY DEF MediaCheck
<1>2. client \in [Devices -> Clients] /\ client[d] \in Clients
    BY DEF MediaInv, Typed
<1>3. client' \in [Devices -> Clients]
    BY <1>1, <1>2, RegisteredKeeps
<1>4. Typed'
    BY <1>1, <1>3 DEF MediaInv, Typed
<1>5. QED
    BY <1>1, <1>4, ServerLeft

(* An upload's deletions are acknowledged as it is processed.              *)
LEMMA ProcessUploadKeeps ==
    ASSUME MediaInv, NEW d \in Devices, ProcessUpload(d)
    PROVE  MediaInv'
<1> DEFINE upload == wire[d]
<1>0. /\ server \in Servers /\ Tidy(server) /\ upload \in Seq(Changed)
      /\ session \in [Devices -> Sessions] /\ wire \in [Devices -> Seq(Changed)]
      /\ DOMAIN upload = 1..Len(upload)
    BY LenProperties DEF MediaInv, Typed, ServerGood
<1>1. /\ server' = Processed(server, upload)
      /\ acknowledged' = acknowledged \cup Deletions(upload)
      /\ wire' = [wire EXCEPT ![d] = NoUpload]
      /\ UNCHANGED <<client, torn, edits, faults>>
    BY DEF ProcessUpload, Processed
<1> HIDE DEF upload
<1>2. /\ server' \in Servers /\ Tidy(server')
      /\ \A f \in Files : SameOrChanged(server', server, upload, Len(upload), f)
    BY <1>0, <1>1, ProcessedKeeps
<1>3. session' \in [Devices -> Sessions]
    <2>1. CASE session[d].at = "sent"
        <3>1. Goto(d, [at |-> "answered", files |-> session[d].files, usn |-> server'.last_usn])
            BY <2>1 DEF ProcessUpload
        <3>2. session[d].files \in NameLists
            BY <1>0, <2>1, SessionFields
        <3>3. server'.last_usn \in Nat
            BY <1>2, ServerFields
        <3>4. [at |-> "answered", files |-> session[d].files, usn |-> server'.last_usn] \in Sessions
            BY <3>2, <3>3 DEF Sessions
        <3>5. QED
            BY <3>1, <3>4, SessionGoes
    <2>2. CASE session[d].at # "sent"
        BY <1>0, <2>2 DEF ProcessUpload
    <2>3. QED
        BY <2>1, <2>2
<1>4. wire' \in [Devices -> Seq(Changed)]
    BY <1>0, <1>1, EmptySeq DEF NoUpload
<1>5. Deletions(upload) \subseteq Files
    <2>1. \A i \in 1..Len(upload) : upload[i] \in Changed
        BY <1>0, ElementOfSeq
    <2>2. QED
        BY <1>0, <2>1 DEF Deletions, Changed
<1>6. Typed'
    BY <1>1, <1>2, <1>3, <1>4, <1>5 DEF MediaInv, Typed
<1>7. ASSUME NEW f \in Files, server'.entry[f].known
      PROVE  /\ server'.entry[f].usn # 0
             /\ server'.entry[f].sha = Absent => f \in acknowledged'
    <2>1. CASE server'.entry[f] = server.entry[f]
        BY <1>1, <1>7, <2>1 DEF MediaInv, ServerGood
    <2>2. CASE /\ server'.entry[f].known /\ server'.entry[f].usn > server.last_usn
               /\ \E i \in 1..Len(upload) : upload[i].file = f
                                            /\ upload[i].data = server'.entry[f].sha
        <3>1. server'.entry[f].usn # 0
            BY <1>0, <1>2, <2>2, ServerFields
        <3>2. ASSUME server'.entry[f].sha = Absent PROVE f \in Deletions(upload)
            BY <1>0, <2>2, <3>2 DEF Deletions
        <3>3. QED
            BY <1>1, <3>1, <3>2
    <2>3. QED
        BY <1>2, <2>1, <2>2 DEF SameOrChanged
<1>8. ServerGood'
    BY <1>2, <1>7 DEF ServerGood, Tidy
<1>9. QED
    BY <1>6, <1>8 DEF MediaInv

(* A failed upload leaves the database as it was.                          *)
LEMMA UploadFailsKeeps ==
    ASSUME MediaInv, NEW d \in Devices, UploadFails(d)
    PROVE  MediaInv'
<1> DEFINE upload == wire[d]
<1>0. /\ server \in Servers /\ Tidy(server) /\ upload \in Seq(Changed)
      /\ session \in [Devices -> Sessions] /\ wire \in [Devices -> Seq(Changed)]
      /\ DOMAIN upload = 1..Len(upload) /\ Len(upload) \in Nat
      /\ torn \subseteq Files /\ faults \in 0..MaxFaults
    BY LenProperties DEF MediaInv, Typed, ServerGood
<1>1. /\ faults < MaxFaults /\ faults' = faults + 1
      /\ torn' = torn \cup {upload[i].file : i \in DOMAIN upload}
      /\ wire' = [wire EXCEPT ![d] = NoUpload]
      /\ session' = session \/ Goto(d, Idle)
      /\ UNCHANGED <<client, acknowledged, edits>>
    BY DEF UploadFails
<1>2. PICK k \in 0..Len(upload) :
        server' = RolledBack(server, Processed(server, SubSeq(upload, 1, k)))
    BY DEF UploadFails, Processed
<1> HIDE DEF upload
<1> DEFINE done == Processed(server, SubSeq(upload, 1, k))
<1>3. done \in Servers
    <2>1. \A i \in 1..k : upload[i] \in Changed
        BY <1>0, ElementOfSeq
    <2>2. SubSeq(upload, 1, k) \in Seq(Changed)
        BY <1>0, <2>1, SubSeqProperties
    <2>3. QED
        BY <1>0, <2>2, ProcessedKeeps
<1> HIDE DEF done
<1>4. server' = [server EXCEPT !.folder = done.folder]
    BY <1>2 DEF RolledBack, done
<1>5. server' \in Servers /\ server'.entry = server.entry /\ server'.last_usn = server.last_usn
      /\ server'.count = server.count
    BY <1>0, <1>3, <1>4 DEF Servers
<1>6. session' \in [Devices -> Sessions]
    <2>1. Idle \in Sessions
        BY DEF Sessions
    <2>2. QED
        BY <1>0, <1>1, <2>1, SessionGoes
<1>7. wire' \in [Devices -> Seq(Changed)]
    BY <1>0, <1>1, EmptySeq DEF NoUpload
<1>8. torn' \subseteq Files
    <2>1. \A i \in DOMAIN upload : upload[i] \in Changed
        BY <1>0, ElementOfSeq
    <2>2. QED
        BY <1>0, <1>1, <2>1 DEF Changed
<1>9. faults' \in 0..MaxFaults
    BY <1>0, <1>1, MediaParameters
<1>10. Typed'
    BY <1>1, <1>5, <1>6, <1>7, <1>8, <1>9 DEF MediaInv, Typed
<1>11. ServerGood'
    BY <1>1, <1>5 DEF MediaInv, ServerGood, Tidy
<1>12. QED
    BY <1>10, <1>11 DEF MediaInv

LEMMA NextKeeps == MediaInv /\ [Next]_vars => MediaInv'
<1> SUFFICES ASSUME MediaInv, [Next]_vars PROVE MediaInv'
    OBVIOUS
<1>1. CASE UNCHANGED vars
    <2>1. Typed'
        BY <1>1 DEF MediaInv, Typed, vars
    <2>2. QED
        BY <1>1, <2>1, ServerLeft DEF vars
<1>2. ASSUME NEW d \in Devices,
             User(d) \/ MediaCheck(d) \/ StartSync(d) \/ SyncStep(d) \/ ProcessUpload(d) \/ Fault(d)
      PROVE  MediaInv'
    BY <1>2, UserKeeps, MediaCheckKeeps, SyncStepKeeps, ProcessUploadKeeps, UploadFailsKeeps
       DEF Fault
<1>3. QED
    BY <1>1, <1>2 DEF Next

(* The server's database is in order, and it has confirmed each of its     *)
(* deletions, however syncs, failures and late uploads interleave.         *)
THEOREM MediaInvariant == Spec => []MediaInv
BY InitGood, NextKeeps, PTL DEF Spec

(* The server's counter and usns are right, however syncs interleave.      *)
THEOREM BooksAreTidy == Spec => []ServerTidy
<1>1. MediaInv => ServerTidy
    BY DEF MediaInv, ServerGood, Tidy, ServerTidy
<1>2. QED
    BY <1>1, MediaInvariant, PTL

(* Every variable keeps its type; the lists of a session name each file    *)
(* once, and no upload carries a file that cannot be synced.               *)
THEOREM MediaTypeCorrect == Spec => []TypeOK
<1>1. MediaInv => TypeOK
    <2> SUFFICES ASSUME MediaInv PROVE TypeOK
        OBVIOUS
    <2>1. \A d \in Devices :
            /\ wire[d] \in Seq([file : Files, data : Shas \ Unsyncable])
            /\ session[d].at \in {"idle", "begin", "fetch", "download", "send", "sent",
                                  "answered", "resync"}
            /\ session[d].at = "download" =>
                 {session[d].todo, session[d].delete, session[d].clean} \subseteq NameLists
        <3> SUFFICES ASSUME NEW d \in Devices
                     PROVE  /\ wire[d] \in Seq([file : Files, data : Shas \ Unsyncable])
                            /\ session[d].at \in {"idle", "begin", "fetch", "download", "send",
                                                  "sent", "answered", "resync"}
                            /\ session[d].at = "download" =>
                                 {session[d].todo, session[d].delete, session[d].clean}
                                   \subseteq NameLists
            OBVIOUS
        <3>1. session[d] \in Sessions /\ wire[d] \in Seq(Changed)
            BY DEF MediaInv, Typed
        <3>2. QED
            BY <3>1, SessionFields DEF Changed
    <2>2. QED
        BY <2>1 DEF MediaInv, Typed, TypeOK, Clients, Rows, Servers
<1>2. QED
    BY <1>1, MediaInvariant, PTL

(* Fetching takes a file from a device's folder only when the server has   *)
(* confirmed to some device that the file is deleted.                      *)
THEOREM RemovalsAreAcknowledged == Spec => RemovedWhenAcknowledged
<1> DEFINE Taken == \A d \in Devices, f \in Files :
         /\ session[d].at = "fetch"
         /\ client[d].folder[f] # Absent /\ client'[d].folder[f] = Absent
         /\ UNCHANGED edits
         => f \in acknowledged
<1>1. ASSUME MediaInv, [Next]_vars
      PROVE  [Taken]_vars
    <2> SUFFICES ASSUME NEW e \in Devices, NEW f \in Files, session[e].at = "fetch",
                        client[e].folder[f] # Absent, client'[e].folder[f] = Absent,
                        UNCHANGED edits
                 PROVE  f \in acknowledged
        OBVIOUS
    <2>0. /\ client \in [Devices -> Clients] /\ server \in Servers /\ Tidy(server)
          /\ session \in [Devices -> Sessions]
        BY <1>1 DEF MediaInv, Typed, ServerGood
    <2>1. client' # client
        OBVIOUS
    <2>2. PICK d \in Devices :
            User(d) \/ MediaCheck(d) \/ StartSync(d) \/ SyncStep(d) \/ ProcessUpload(d) \/ Fault(d)
        BY <1>1, <2>1 DEF Next, vars
    <2>3. ~User(d)
        BY <1>1, UserKeeps
    <2>4. \A c : client' = [client EXCEPT ![d] = c] => e = d /\ client'[e] = c
        BY <2>0
    <2>5. ~MediaCheck(d) /\ ~StartSync(d)
        <3>1. Registered(client[d]).folder = client[d].folder
            BY <2>0, RegisteredKeeps
        <3>2. QED
            BY <2>4, <3>1 DEF MediaCheck, StartSync
    <2>6. CASE Fetch(d)
        <3> DEFINE batch == Changes(client[d].last_usn)
        <3>1. PICK delete \in NameLists :
                /\ Range(delete) = {g \in Range(batch) : Need(d, g) = "Delete"}
                /\ client' = [client EXCEPT ![d] = Forgotten(client[d], delete)]
            BY <1>1, <2>1, <2>6, FetchDoes
        <3>2. e = d /\ client'[e] = Forgotten(client[d], delete)
            BY <2>4, <3>1
        <3>3. client'[e].folder = Trashed(client[d].folder, delete)
            <4>1. client[d] \in Clients
                BY <2>0
            <4>2. QED
                BY <3>2, <4>1, ForgottenKeeps
        <3>4. \E i \in DOMAIN delete : delete[i] = f
            BY <3>2, <3>3 DEF Trashed
        <3>5. f \in Range(batch) /\ Need(d, f) = "Delete"
            BY <3>1, <3>4 DEF Range
        <3>6. server.entry[f].known
            <4>1. client[d].last_usn \in Nat
                BY <2>0, ClientFields
            <4>2. QED
                BY <2>0, <3>5, <4>1, PageFacts
        <3>7. server.entry[f].sha = Absent
            BY <3>5 DEF Need, determine_required_change
        <3>8. QED
            BY <1>1, <3>6, <3>7 DEF MediaInv, ServerGood
    <2>7. ~(Begin(d) \/ Download(d) \/ RecordBatch(d) \/ Upload(d) \/ UploadAnswered(d)
            \/ Finish(d) \/ ForceResync(d))
        <3>1. CASE e = d
            <4>1. session[d].at = "fetch"
                BY <3>1
            <4>2. ~(Download(d) \/ RecordBatch(d) \/ Upload(d) \/ UploadAnswered(d)
                    \/ Finish(d) \/ ForceResync(d))
                BY <4>1 DEF Download, RecordBatch, Upload, UploadAnswered, Finish, ForceResync
            <4>3. QED
                BY <2>1, <4>2 DEF Begin
        <3>2. CASE e # d
            <4>1. client'[e] # client[e]
                OBVIOUS
            <4>2. Upload(d) => client'[e] = client[e]
                <5> SUFFICES ASSUME Upload(d) PROVE client'[e] = client[e]
                    OBVIOUS
                <5>1. \/ UNCHANGED client
                      \/ \E invalid : client' = [client EXCEPT ![d].db =
                            [g \in Files |-> IF g \in invalid THEN Unknown ELSE client[d].db[g]]]
                    BY <1>1, UploadDoes
                <5>2. QED
                    BY <2>0, <3>2, <5>1
            <4>3. Download(d) => client'[e] = client[e]
                <5> SUFFICES ASSUME Download(d) PROVE client'[e] = client[e]
                    OBVIOUS
                <5>1. UNCHANGED client \/ \E c : client' = [client EXCEPT ![d] = c]
                    BY <1>1, DownloadDoes
                <5>2. QED
                    BY <2>0, <3>2, <5>1
            <4>4. Begin(d) \/ RecordBatch(d) \/ UploadAnswered(d) \/ Finish(d) \/ ForceResync(d)
                  => client'[e] = client[e]
                BY <2>0, <3>2 DEF Begin, RecordBatch, UploadAnswered, Finish, ForceResync
            <4>5. QED
                BY <4>1, <4>2, <4>3, <4>4
        <3>3. QED
            BY <3>1, <3>2
    <2>8. ~ProcessUpload(d) /\ ~Fault(d)
        BY <2>1 DEF ProcessUpload, Fault, Abort, UploadFails
    <2>9. QED
        BY <2>2, <2>3, <2>5, <2>6, <2>7, <2>8 DEF SyncStep
<1>2. QED
    BY <1>1, MediaInvariant, PTL DEF Spec, RemovedWhenAcknowledged

-----------------------------------------------------------------------------
(* Syncs one after the other.  The invariant says, for each point of a     *)
(* sync, what the device knows about the server then.                      *)

Busy(d) == session[d] # Idle \/ wire[d] # NoUpload

Settled(f) == f \notin torn

Differs(d, f) == client[d].db[f].sha # server.entry[f].sha

(* One device is busy at a time, and an upload goes with its session.      *)
OneAtATime ==
    /\ \A d, e \in Devices : Busy(d) /\ Busy(e) => d = e
    /\ \A d \in Devices : wire[d] # NoUpload => session[d].at \in {"sent", "idle"}

(* The server's folder is what its database says.                          *)
FolderTidy ==
    \A f \in Files :
        /\ ~server.entry[f].known => server.entry[f] = NoEntry
        /\ Settled(f) => server.folder[f] = server.entry[f].sha

(* A device's rows: what the folder has, once the folder has been looked   *)
(* through, and what the server has, if they are clean and as new.         *)
RowsGood(d) ==
    /\ client[d].last_usn <= server.last_usn
    /\ \A f \in Files : ~client[d].db[f].known => client[d].db[f].sha = Absent
    /\ client[d].seen \/ session[d] # Idle =>
         \A f \in Files \ Unrecorded(session[d]) : Settled(f) =>
           client[d].db[f].sha \in {Absent, client[d].folder[f]}
    /\ \A f \in Files :
         /\ Settled(f) /\ ~client[d].db[f].dirty
         /\ server.entry[f].usn <= client[d].last_usn
         => ~Differs(d, f)

(* What the device has learnt at each point of a sync.                     *)
BeginGood(d, s) == s.usn = server.last_usn

SendGood(d) == \A f \in Files : Settled(f) /\ ~client[d].db[f].dirty => ~Differs(d, f)

SentGood(d, s) ==
    /\ \A f \in Range(s.files) : client[d].db[f].dirty
    /\ wire[d] = [i \in 1..Len(s.files) |->
                    [file |-> s.files[i], data |-> DataFor(client[d], s.files[i])]]

AnsweredGood(d, s) ==
    /\ s.usn <= server.last_usn
    /\ \A f \in Range(s.files) : server.entry[f].sha = DataFor(client[d], f)

DownloadGood(d, s) ==
    /\ s.last <= server.last_usn
    /\ \A f \in Range(s.todo) : server.entry[f].sha # Absent
    /\ \A g \in Range(s.got) : /\ client[d].folder[g.file] = g.sha
                               /\ server.folder[g.file] = g.sha
    /\ \A f \in Range(s.delete) : server.entry[f].sha = Absent
    /\ \A f \in Range(s.clean) : ~Differs(d, f)
    /\ \A f \in Files :
         /\ Settled(f) /\ ~client[d].db[f].dirty /\ Differs(d, f)
         /\ client[d].last_usn < server.entry[f].usn /\ server.entry[f].usn <= s.last
         => f \in Range(s.todo) \cup Unrecorded(s) \cup Range(s.delete)

SessionGood(d) ==
    LET s == session[d]
    IN  /\ s.at = "begin" => BeginGood(d, s)
        /\ s.at \in {"send", "sent", "answered"} => SendGood(d)
        /\ s.at = "sent" => SentGood(d, s)
        /\ s.at = "answered" => AnsweredGood(d, s)
        /\ s.at = "download" => DownloadGood(d, s)

(* Nothing goes wrong by itself.                                           *)
NoFaults == faults = 0 => torn = {} /\ \A d \in Devices : session[d].at # "resync"

SerialInv ==
    /\ OneAtATime /\ FolderTidy /\ NoFaults
    /\ \A d \in Devices : RowsGood(d) /\ SessionGood(d)

(* What the instance of SerialSpec has: no file is written over unnoticed, *)
(* and all contents can be synced.                                         *)
Plain == ~InPlace /\ Unsyncable = {}

(* A device that does nothing sees its rows hold as the server goes on.    *)
LEMMA OthersHold ==
    ASSUME MediaInv, MediaInv', NEW e \in Devices, RowsGood(e),
           client'[e] = client[e], session'[e] = session[e],
           torn \subseteq torn', server'.last_usn >= server.last_usn,
           \A f \in Files \ torn' : \/ server'.entry[f] = server.entry[f]
                                    \/ server'.entry[f].usn > server.last_usn
    PROVE  RowsGood(e)'
<1>1. /\ client[e].last_usn \in Nat /\ server.last_usn \in Nat /\ server'.last_usn \in Nat
      /\ \A f \in Files : server'.entry[f].usn \in Nat
    <2>1. client[e] \in Clients /\ server \in Servers /\ server' \in Servers
        BY DEF MediaInv, Typed
    <2>2. QED
        BY <2>1, ClientFields, ServerFields
<1>2. client'[e].last_usn <= server'.last_usn
    BY <1>1 DEF RowsGood
<1>3. ASSUME NEW f \in Files, f \notin torn', ~client'[e].db[f].dirty,
             server'.entry[f].usn <= client'[e].last_usn
      PROVE  client'[e].db[f].sha = server'.entry[f].sha
    <2>1. ~(server'.entry[f].usn > server.last_usn)
        BY <1>1, <1>3 DEF RowsGood
    <2>2. server'.entry[f] = server.entry[f] /\ f \notin torn
        BY <1>3, <2>1
    <2>3. QED
        BY <1>3, <2>2 DEF RowsGood, Settled, Differs
<1>4. QED
    BY <1>2, <1>3 DEF RowsGood, Settled, Differs

(* The frame of a step of the one device that is busy.                     *)
LEMMA SerialStep ==
    ASSUME MediaInv, MediaInv', SerialInv, NEW d \in Devices, Undisturbed(d),
           \A e \in Devices \ {d} : /\ client'[e] = client[e] /\ session'[e] = session[e]
                                    /\ wire'[e] = wire[e],
           wire'[d] # NoUpload => session'[d].at \in {"sent", "idle"},
           torn \subseteq torn', server'.last_usn >= server.last_usn,
           \A f \in Files \ torn' : \/ server'.entry[f] = server.entry[f]
                                    \/ server'.entry[f].usn > server.last_usn,
           FolderTidy', NoFaults', RowsGood(d)', SessionGood(d)'
    PROVE  SerialInv'
<1>1. \A e \in Devices \ {d} : session'[e] = Idle /\ wire'[e] = NoUpload
    BY DEF Undisturbed
<1>2. OneAtATime'
    <2>1. \A e \in Devices : wire'[e] # NoUpload => session'[e].at \in {"sent", "idle"}
        BY <1>1
    <2>2. QED
        BY <1>1, <2>1 DEF OneAtATime, Busy
<1>3. ASSUME NEW e \in Devices \ {d} PROVE RowsGood(e)' /\ SessionGood(e)'
    <2>1. RowsGood(e)'
        BY OthersHold DEF SerialInv
    <2>2. session'[e].at = "idle"
        BY <1>1 DEF Idle
    <2>3. QED
        BY <2>1, <2>2 DEF SessionGood
<1>4. QED
    BY <1>2, <1>3 DEF SerialInv

(* The frame of a step that leaves the server alone.                       *)
LEMMA ServerWaits ==
    ASSUME MediaInv, MediaInv', SerialInv, NEW d \in Devices, Undisturbed(d),
           UNCHANGED <<server, torn, faults, wire>>,
           \A e \in Devices \ {d} : client'[e] = client[e],
           NEW s, Goto(d, s),
           wire[d] # NoUpload => s.at \in {"sent", "idle"},
           faults = 0 => s.at # "resync",
           RowsGood(d)', SessionGood(d)'
    PROVE  SerialInv'
<1>1. /\ session'[d] = s /\ \A e \in Devices \ {d} : session'[e] = session[e]
    BY DEF Goto, MediaInv, Typed
<1>2. FolderTidy'
    BY DEF SerialInv, FolderTidy, Settled
<1>3. NoFaults'
    BY <1>1 DEF SerialInv, NoFaults
<1>4. server.last_usn \in Nat
    BY ServerFields DEF MediaInv, Typed
<1>5. QED
    BY <1>1, <1>2, <1>3, <1>4, SerialStep


(* The users and the media check, while the device does not sync.          *)
LEMMA IdleStep ==
    ASSUME MediaInv, MediaInv', SerialInv, NEW d \in Devices, session[d] = Idle,
           UNCHANGED <<session, wire, server, torn, faults>>,
           \A e \in Devices \ {d} : client'[e] = client[e],
           RowsGood(d)'
    PROVE  SerialInv'
<1>1. OneAtATime' /\ FolderTidy' /\ NoFaults'
    BY DEF SerialInv, OneAtATime, Busy, FolderTidy, Settled, NoFaults
<1>2. session'[d].at = "idle"
    BY DEF Idle
<1>3. SessionGood(d)'
    BY <1>2 DEF SessionGood
<1>4. ASSUME NEW e \in Devices \ {d} PROVE RowsGood(e)' /\ SessionGood(e)'
    <2>1. RowsGood(e) /\ SessionGood(e)
        BY DEF SerialInv
    <2>2. RowsGood(e)'
        BY <2>1 DEF RowsGood, Settled, Differs
    <2>3. SendGood(e)' <=> SendGood(e)
        BY DEF SendGood, Settled, Differs
    <2>4. \A s : SentGood(e, s)' <=> SentGood(e, s)
        BY DEF SentGood, DataFor
    <2>5. \A s : AnsweredGood(e, s)' <=> AnsweredGood(e, s)
        BY DEF AnsweredGood, DataFor
    <2>6. \A s : DownloadGood(e, s)' <=> DownloadGood(e, s)
        BY DEF DownloadGood, Settled, Differs
    <2>7. \A s : BeginGood(e, s)' <=> BeginGood(e, s)
        BY DEF BeginGood
    <2>8. QED
        BY <2>1, <2>2, <2>3, <2>4, <2>5, <2>6, <2>7 DEF SessionGood
<1>5. QED
    BY <1>1, <1>3, <1>4 DEF SerialInv

(* What the user does to a device: rows that change become dirty, and the  *)
(* database has lost sight of the folder unless its rows say what is there.*)
LEMMA UserDoes ==
    ASSUME MediaInv, Plain, NEW d \in Devices, User(d)
    PROVE  /\ UNCHANGED <<session, wire, server, torn, faults>>
           /\ \A e \in Devices \ {d} : client'[e] = client[e]
           /\ client'[d].last_usn = client[d].last_usn
           /\ \A f \in Files :
                LET row == client'[d].db[f]
                IN  row = client[d].db[f] \/ (row.known /\ row.dirty)
           /\ client'[d].seen =>
                /\ client[d].seen
                /\ \A f \in Files : \/ /\ client'[d].db[f] = client[d].db[f]
                                       /\ client'[d].folder[f] = client[d].folder[f]
                                    \/ client'[d].db[f].sha \in {Absent, client'[d].folder[f]}
                                    \/ ~client'[d].db[f].known
<1>0. client \in [Devices -> Clients] /\ client[d] \in Clients
    BY DEF MediaInv, Typed
<1>1. UNCHANGED <<session, wire, server, torn, faults>>
    BY DEF User, ExternalWrite, ExternalRemove, AddFile, RemoveFiles
<1>2. ASSUME NEW f \in Files, NEW c \in Contents, ExternalWrite(d, f, c)
      PROVE  /\ \A e \in Devices \ {d} : client'[e] = client[e]
             /\ client'[d].last_usn = client[d].last_usn
             /\ client'[d].db = client[d].db /\ ~client'[d].seen
    BY <1>0, <1>2 DEF ExternalWrite, Plain, Clients
<1>3. ASSUME NEW f \in Files, ExternalRemove(d, f)
      PROVE  /\ \A e \in Devices \ {d} : client'[e] = client[e]
             /\ client'[d].last_usn = client[d].last_usn
             /\ client'[d].db = client[d].db /\ ~client'[d].seen
    BY <1>0, <1>3 DEF ExternalRemove, Clients
<1>4. ASSUME NEW f \in Files, NEW c \in Contents, AddFile(d, f, c)
      PROVE  /\ \A e \in Devices \ {d} : client'[e] = client[e]
             /\ client'[d].last_usn = client[d].last_usn
             /\ client'[d].seen = client[d].seen
             /\ \A g \in Files \ {f} : /\ client'[d].db[g] = client[d].db[g]
                                       /\ client'[d].folder[g] = client[d].folder[g]
             /\ client'[d].folder[f] = c
             /\ \/ client'[d].db[f] = client[d].db[f] /\ client[d].db[f].sha = c
                \/ client'[d].db[f] = Row(c, TRUE)
    <2> DEFINE row == IF client[d].db[f].known /\ client[d].db[f].sha = c
                      THEN client[d].db[f] ELSE Row(c, TRUE)
    <2>1. client' = [client EXCEPT ![d].folder[f] = c, ![d].db[f] = row]
        BY <1>4 DEF AddFile
    <2>2. \/ row = client[d].db[f] /\ client[d].db[f].sha = c
          \/ row = Row(c, TRUE)
        OBVIOUS
    <2> HIDE DEF row
    <2>3. QED
        BY <1>0, <2>1, <2>2 DEF Clients
<1>5. ASSUME NEW names, RemoveFiles(d, names)
      PROVE  /\ \A e \in Devices \ {d} : client'[e] = client[e]
             /\ client'[d].last_usn = client[d].last_usn
             /\ client'[d].seen = client[d].seen
             /\ \A f \in Files :
                  \/ client'[d].db[f] = Row(Absent, TRUE)
                  \/ /\ client'[d].db[f] = client[d].db[f]
                     /\ \/ client'[d].folder[f] = client[d].folder[f]
                        \/ ~client[d].db[f].known
    <2>1. client' = [client EXCEPT ![d] = Forgotten(client[d], names)]
        BY <1>5 DEF RemoveFiles
    <2>2. client'[d] = Forgotten(client[d], names)
          /\ \A e \in Devices \ {d} : client'[e] = client[e]
        BY <1>0, <2>1
    <2>3. /\ client'[d].seen = client[d].seen /\ client'[d].last_usn = client[d].last_usn
          /\ client'[d].folder = Trashed(client[d].folder, names)
          /\ \A f \in Files : client'[d].db[f] = IF f \in Range(names) /\ client[d].db[f].known
                                                 THEN Row(Absent, TRUE) ELSE client[d].db[f]
        <3> DEFINE r == Forgotten(client[d], names)
        <3>1. /\ r.seen = client[d].seen /\ r.last_usn = client[d].last_usn
              /\ r.folder = Trashed(client[d].folder, names)
              /\ \A f \in Files : r.db[f] = IF f \in Range(names) /\ client[d].db[f].known
                                           THEN Row(Absent, TRUE) ELSE client[d].db[f]
            BY <1>0, ForgottenKeeps
        <3>2. client'[d] = r
            BY <2>2
        <3> HIDE DEF r
        <3>3. QED
            BY <3>1, <3>2
    <2>4. \A f \in Files \ Range(names) : client'[d].folder[f] = client[d].folder[f]
        BY <2>3 DEF Trashed, Range
    <2>5. QED
        BY <2>2, <2>3, <2>4
<1>6. CASE \E f \in Files, c \in Contents : ExternalWrite(d, f, c)
    BY <1>1, <1>2, <1>6
<1>7. CASE \E f \in Files, c \in Contents : AddFile(d, f, c)
    <2>1. PICK f \in Files, c \in Contents : AddFile(d, f, c)
        BY <1>7
    <2>2. /\ \A e \in Devices \ {d} : client'[e] = client[e]
          /\ client'[d].last_usn = client[d].last_usn
          /\ client'[d].seen = client[d].seen
          /\ \A g \in Files \ {f} : /\ client'[d].db[g] = client[d].db[g]
                                    /\ client'[d].folder[g] = client[d].folder[g]
          /\ client'[d].folder[f] = c
          /\ \/ client'[d].db[f] = client[d].db[f] /\ client[d].db[f].sha = c
             \/ client'[d].db[f] = Row(c, TRUE)
        BY <1>4, <2>1
    <2>3. QED
        BY <1>1, <2>2 DEF Row
<1>8. CASE \E f \in Files : ExternalRemove(d, f)
    BY <1>1, <1>3, <1>8
<1>9. CASE \E names \in UNION {SetToSeqs(S) : S \in SUBSET Files} : RemoveFiles(d, names)
    <2>1. PICK names : RemoveFiles(d, names)
        BY <1>9
    <2>2. QED
        <3>1. /\ \A e \in Devices \ {d} : client'[e] = client[e]
              /\ client'[d].last_usn = client[d].last_usn
              /\ client'[d].seen = client[d].seen
              /\ \A f \in Files :
                   \/ client'[d].db[f] = Row(Absent, TRUE)
                   \/ /\ client'[d].db[f] = client[d].db[f]
                      /\ \/ client'[d].folder[f] = client[d].folder[f]
                         \/ ~client[d].db[f].known
            BY <1>5, <2>1
        <3>2. QED
            BY <1>1, <3>1 DEF Row
<1>10. QED
    BY <1>6, <1>7, <1>8, <1>9 DEF User

LEMMA UserSerial ==
    ASSUME MediaInv, MediaInv', SerialInv, Plain, NEW d \in Devices, session[d] = Idle, User(d)
    PROVE  SerialInv'
<1>1. RowsGood(d)
    BY DEF SerialInv
<1>2. Unrecorded(Idle) = {}
    BY DEF Unrecorded, Idle
<1>3. RowsGood(d)'
    <2>1. /\ UNCHANGED <<session, wire, server, torn, faults>>
          /\ client'[d].last_usn = client[d].last_usn
          /\ \A f \in Files :
                LET row == client'[d].db[f]
                IN  row = client[d].db[f] \/ (row.known /\ row.dirty)
          /\ client'[d].seen =>
                /\ client[d].seen
                /\ \A f \in Files : \/ /\ client'[d].db[f] = client[d].db[f]
                                       /\ client'[d].folder[f] = client[d].folder[f]
                                    \/ client'[d].db[f].sha \in {Absent, client'[d].folder[f]}
                                    \/ ~client'[d].db[f].known
        BY UserDoes
    <2>2. \A f \in Files : ~client'[d].db[f].known => client'[d].db[f].sha = Absent
        BY <1>1, <2>1 DEF RowsGood
    <2>3. \A f \in Files : Settled(f)' /\ ~client'[d].db[f].dirty
                           /\ server'.entry[f].usn <= client'[d].last_usn => ~Differs(d, f)'
        BY <1>1, <2>1 DEF RowsGood, Settled, Differs
    <2>4. client'[d].seen => \A f \in Files : Settled(f)' =>
             client'[d].db[f].sha \in {Absent, client'[d].folder[f]}
        BY <1>1, <1>2, <2>1, <2>2 DEF RowsGood, Settled
    <2>5. QED
        BY <1>1, <2>1, <2>2, <2>3, <2>4 DEF RowsGood
<1>4. QED
    BY <1>3, IdleStep, UserDoes

(* Looking through the folder.                                             *)
LEMMA RegisteredHolds ==
    ASSUME MediaInv, Plain, NEW d \in Devices, RowsGood(d), session[d] = Idle,
           UNCHANGED <<server, torn>>,
           client' = [client EXCEPT ![d] = Registered(client[d])],
           Unrecorded(session'[d]) = {}
    PROVE  RowsGood(d)'
<1> DEFINE c == client[d]
           r == Registered(c)
<1>0. client \in [Devices -> Clients] /\ c \in Clients
    BY DEF MediaInv, Typed
<1>1. client'[d] = r
    BY <1>0
<1>2. /\ r.folder = c.folder /\ r.last_usn = c.last_usn /\ r.seen
      /\ c.seen => r = c
      /\ ~c.seen => \A f \in Files :
           r.db[f] = IF c.folder[f] = c.db[f].sha THEN c.db[f] ELSE Row(c.folder[f], TRUE)
    <2>1. \A f : Found(c.folder, f) = c.folder[f]
        BY DEF Found, Plain
    <2>2. /\ r.folder = c.folder /\ r.last_usn = c.last_usn /\ r.seen
          /\ c.seen => r = c
          /\ ~c.seen => \A f \in Files :
               r.db[f] = IF Found(c.folder, f) = c.db[f].sha THEN c.db[f]
                         ELSE Row(Found(c.folder, f), TRUE)
        <3> HIDE DEF c
        <3>1. QED
            BY <1>0, RegisteredKeeps
    <2> HIDE DEF c, r
    <2>3. QED
        BY <2>1, <2>2
<1>3. Unrecorded(Idle) = {}
    BY DEF Unrecorded, Idle
<1> HIDE DEF r, c
<1>7. ASSUME ~c.seen, NEW f \in Files
      PROVE  \/ r.db[f] = c.db[f] /\ c.db[f].sha = c.folder[f]
             \/ r.db[f].known /\ r.db[f].dirty /\ r.db[f].sha = c.folder[f]
    <2>1. r.db[f] = IF c.folder[f] = c.db[f].sha THEN c.db[f] ELSE Row(c.folder[f], TRUE)
        BY <1>2, <1>7
    <2>2. /\ Row(c.folder[f], TRUE).known /\ Row(c.folder[f], TRUE).dirty
          /\ Row(c.folder[f], TRUE).sha = c.folder[f]
        BY DEF Row
    <2>3. QED
        BY <2>1, <2>2
<1>4. \A f \in Files : \/ r.db[f] = c.db[f]
                       \/ r.db[f].known /\ r.db[f].dirty
    BY <1>2, <1>7
<1>5. \A f \in Files : Settled(f) => r.db[f].sha \in {Absent, r.folder[f]}
    <2>1. CASE c.seen
        BY <1>2, <1>3, <2>1 DEF RowsGood, c
    <2>2. CASE ~c.seen
        BY <1>2, <1>7, <2>2
    <2>3. QED
        BY <2>1, <2>2
<1>6. QED
    BY <1>1, <1>2, <1>4, <1>5 DEF RowsGood, Settled, Differs, c

LEMMA MediaCheckSerial ==
    ASSUME MediaInv, MediaInv', SerialInv, Plain, NEW d \in Devices, session[d] = Idle,
           MediaCheck(d)
    PROVE  SerialInv'
<1>1. /\ client' = [client EXCEPT ![d] = Registered(client[d])]
      /\ UNCHANGED <<session, wire, server, acknowledged, torn, edits, faults>>
    BY DEF MediaCheck
<1>2. Unrecorded(session'[d]) = {}
    BY <1>1 DEF Unrecorded, Idle
<1>3. RowsGood(d)'
    BY <1>1, <1>2, RegisteredHolds DEF SerialInv
<1>4. \A e \in Devices \ {d} : client'[e] = client[e]
    BY <1>1 DEF MediaInv, Typed
<1>5. QED
    BY <1>1, <1>3, <1>4, IdleStep

LEMMA StartSyncSerial ==
    ASSUME MediaInv, MediaInv', SerialInv, Plain, NEW d \in Devices, StartsUndisturbed(d)
    PROVE  SerialInv'
<1> DEFINE s == [at |-> "begin", usn |-> server.last_usn]
<1>1. /\ session[d] = Idle /\ wire[d] = NoUpload /\ Undisturbed(d)
      /\ client' = [client EXCEPT ![d] = Registered(client[d])]
      /\ Goto(d, s)
      /\ UNCHANGED <<wire, server, acknowledged, torn, edits, faults>>
    BY DEF StartsUndisturbed, StartSync
<1>2. session'[d] = s /\ \A e \in Devices \ {d} : client'[e] = client[e]
    BY <1>1 DEF Goto, MediaInv, Typed
<1>3. Unrecorded(session'[d]) = {}
    BY <1>2 DEF Unrecorded
<1>4. RowsGood(d)'
    BY <1>1, <1>3, RegisteredHolds DEF SerialInv
<1>5. SessionGood(d)'
    BY <1>1, <1>2 DEF SessionGood, BeginGood
<1>6. QED
    BY <1>1, <1>2, <1>4, <1>5, ServerWaits

LEMMA BeginSerial ==
    ASSUME MediaInv, MediaInv', SerialInv, NEW d \in Devices, Undisturbed(d), Begin(d)
    PROVE  SerialInv'
<1>0. client[d] \in Clients /\ server \in Servers /\ Tidy(server)
    BY DEF MediaInv, Typed, ServerGood
<1>1. /\ session[d].at = "begin"
      /\ UNCHANGED <<client, wire, server, acknowledged, torn, edits, faults>>
    BY DEF Begin
<1>2. session[d] # Idle /\ wire[d] = NoUpload
    BY <1>1 DEF SerialInv, OneAtATime, Idle
<1>3. session[d].usn = server.last_usn
    BY <1>1 DEF SerialInv, SessionGood, BeginGood
<1>4. PICK s \in {[at |-> "fetch", acted |-> TRUE], [at |-> "send", acted |-> FALSE]} :
        /\ Goto(d, s)
        /\ s.at = "send" => client[d].last_usn = server.last_usn
    BY <1>3 DEF Begin
<1>5. session'[d] = s /\ Unrecorded(s) = {}
    BY <1>4 DEF Goto, MediaInv, Typed, Unrecorded
<1>6. Unrecorded(session[d]) = {}
    BY <1>1 DEF Unrecorded
<1>7. RowsGood(d)'
    BY <1>1, <1>2, <1>5, <1>6 DEF SerialInv, RowsGood, Settled, Differs
<1>8. s.at = "send" => SendGood(d)
    <2>1. \A f \in Files : server.entry[f].usn <= server.last_usn
        BY <1>0 DEF Tidy
    <2>2. QED
        BY <1>4, <2>1 DEF SerialInv, RowsGood, SendGood
<1>9. SessionGood(d)'
    BY <1>1, <1>4, <1>5, <1>8 DEF SessionGood, SendGood, Settled, Differs
<1>10. QED
    BY <1>1, <1>2, <1>4, <1>7, <1>9, ServerWaits

(* What a file of a page asks of the device.                               *)
LEMMA NeedSays ==
    ASSUME MediaInv, NEW d \in Devices, NEW f \in Files
    PROVE  /\ Need(d, f) = "Download" => server.entry[f].sha # Absent
           /\ Need(d, f) = "Delete" => server.entry[f].sha = Absent
           /\ Need(d, f) = "RemovePending" => ~Differs(d, f)
           /\ Differs(d, f) /\ ~client[d].db[f].dirty => Need(d, f) \in {"Download", "Delete"}
BY DEF Need, determine_required_change, Differs

LEMMA FetchSerial ==
    ASSUME MediaInv, MediaInv', SerialInv, NEW d \in Devices, Undisturbed(d), Fetch(d)
    PROVE  SerialInv'
<1> DEFINE c == client[d]
           batch == Changes(c.last_usn)
<1>0. /\ client \in [Devices -> Clients] /\ c \in Clients /\ server \in Servers
      /\ Tidy(server) /\ c.last_usn \in Nat
    BY ClientFields DEF MediaInv, Typed, ServerGood
<1>1. /\ session[d].at = "fetch"
      /\ UNCHANGED <<wire, server, acknowledged, torn, edits, faults>>
    BY DEF Fetch
<1>2. session[d] # Idle /\ wire[d] = NoUpload /\ Unrecorded(session[d]) = {}
    BY <1>1 DEF SerialInv, OneAtATime, Idle, Unrecorded
<1>3. RowsGood(d) /\ FolderTidy
    BY DEF SerialInv
<1>4. \A f \in Files : server.entry[f].usn \in Nat /\ server.entry[f].usn <= server.last_usn
    BY <1>0, ServerFields DEF Tidy
<1>5. \A f \in Files : server.entry[f].usn > c.last_usn => server.entry[f].known
    <2>1. NoEntry.usn = 0
        BY DEF NoEntry
    <2> HIDE DEF c
    <2>2. QED
        BY <1>0, <1>3, <2>1 DEF FolderTidy
<1>6. /\ batch \in Seq(Files)
      /\ batch # <<>> => /\ Last(batch) \in Files
                         /\ \A f \in Files : /\ server.entry[f].usn > c.last_usn
                                             /\ server.entry[f].usn <= server.entry[Last(batch)].usn
                                             => f \in Range(batch)
      /\ batch = <<>> => \A f \in Files : server.entry[f].usn <= c.last_usn
    <2> HIDE DEF c
    <2>1. /\ batch \in Seq(Files)
          /\ \A f \in Range(batch) : f \in Files
          /\ batch # <<>> =>
               /\ Last(batch) \in Range(batch)
               /\ \A f \in Files :
                    /\ server.entry[f].known /\ server.entry[f].usn > c.last_usn
                    /\ server.entry[f].usn <= server.entry[Last(batch)].usn
                    => f \in Range(batch)
          /\ batch = <<>> =>
               \A f \in Files : server.entry[f].known => server.entry[f].usn <= c.last_usn
        BY <1>0, PageFacts
    <2> HIDE DEF batch
    <2>2. ASSUME batch = <<>>, NEW f \in Files PROVE server.entry[f].usn <= c.last_usn
        BY <1>0, <1>4, <1>5, <2>1, <2>2
    <2>3. ASSUME batch # <<>>
          PROVE  /\ Last(batch) \in Files
                 /\ \A f \in Files : /\ server.entry[f].usn > c.last_usn
                                     /\ server.entry[f].usn <= server.entry[Last(batch)].usn
                                     => f \in Range(batch)
        BY <1>5, <2>1, <2>3
    <2>4. QED
        BY <2>1, <2>2, <2>3
<1>7. CASE batch = <<>> /\ UNCHANGED client /\ Goto(d, [at |-> "send", acted |-> TRUE])
    <2> DEFINE s == [at |-> "send", acted |-> TRUE]
    <2>1. session'[d] = s /\ s.at = "send" /\ Unrecorded(s) = {}
        BY <1>7 DEF Goto, MediaInv, Typed, Unrecorded
    <2>2. SendGood(d)
        BY <1>3, <1>6, <1>7 DEF SendGood, RowsGood
    <2> HIDE DEF s, batch
    <2>3. RowsGood(d)'
        BY <1>1, <1>2, <1>3, <1>7, <2>1 DEF RowsGood, Settled, Differs
    <2>4. SessionGood(d)'
        BY <1>1, <1>7, <2>1, <2>2 DEF SessionGood, SendGood, Settled, Differs
    <2>5. QED
        BY <1>1, <1>2, <1>7, <2>1, <2>3, <2>4, ServerWaits DEF s
<1>8. ASSUME batch # <<>>, NEW todo \in NameLists, NEW delete \in NameLists,
             NEW clean \in NameLists,
             Range(todo) = {f \in Range(batch) : Need(d, f) = "Download"},
             Range(delete) = {f \in Range(batch) : Need(d, f) = "Delete"},
             Range(clean) = {f \in Range(batch) : Need(d, f) = "RemovePending"},
             client' = [client EXCEPT ![d] = Forgotten(client[d], delete)],
             Goto(d, [at |-> "download", todo |-> todo, got |-> <<>>,
                      delete |-> delete, clean |-> clean,
                      last |-> server.entry[Last(batch)].usn])
      PROVE  SerialInv'
    <2> DEFINE last == server.entry[Last(batch)].usn
               s == [at |-> "download", todo |-> todo, got |-> <<>>, delete |-> delete,
                     clean |-> clean, last |-> last]
               r == client'[d]
    <2>1. session'[d] = s
        BY <1>8 DEF Goto, MediaInv, Typed
    <2>2. /\ s.at = "download" /\ s.todo = todo /\ s.got = <<>> /\ s.delete = delete
          /\ s.clean = clean /\ s.last = last /\ Range(s.got) = {}
        BY DEF Range
    <2>3. Unrecorded(s) = {}
        BY <2>2 DEF Unrecorded
    <2>4. \A e \in Devices \ {d} : client'[e] = client[e]
        BY <1>0, <1>8
    <2>5. /\ r.last_usn = c.last_usn
          /\ \A f \in Files : r.db[f] = IF f \in Range(delete) /\ c.db[f].known
                                        THEN Row(Absent, TRUE) ELSE c.db[f]
          /\ \A f \in Files \ Range(delete) : r.folder[f] = c.folder[f]
        <3> DEFINE q == Forgotten(c, delete)
        <3>1. /\ q.last_usn = c.last_usn
              /\ q.folder = Trashed(c.folder, delete)
              /\ \A f \in Files : q.db[f] = IF f \in Range(delete) /\ c.db[f].known
                                            THEN Row(Absent, TRUE) ELSE c.db[f]
            <4> HIDE DEF c
            <4>1. QED
                BY <1>0, ForgottenKeeps
        <3>2. \A f \in Files \ Range(delete) : q.folder[f] = c.folder[f]
            BY <3>1 DEF Trashed, Range
        <3>3. r = q
            BY <1>0, <1>8
        <3> HIDE DEF q, c, r
        <3>4. QED
            BY <3>1, <3>2, <3>3
    <2>6. \A f \in Files : \/ r.db[f] = c.db[f] /\ (f \notin Range(delete) \/ ~c.db[f].known)
                           \/ /\ r.db[f].known /\ r.db[f].dirty /\ r.db[f].sha = Absent
                              /\ f \in Range(delete)
        <3>1. LET w == Row(Absent, TRUE) IN w.known /\ w.dirty /\ w.sha = Absent
            BY DEF Row
        <3> HIDE DEF r, c
        <3>2. QED
            BY <2>5, <3>1
    <2> HIDE DEF s, last, batch
    <2>7. RowsGood(d)'
        <3>1. r.last_usn <= server'.last_usn
            BY <1>1, <1>3, <2>5 DEF RowsGood
        <3>2. \A f \in Files : ~r.db[f].known => r.db[f].sha = Absent
            BY <1>3, <2>6 DEF RowsGood
        <3>3. \A f \in Files : Settled(f) => r.db[f].sha \in {Absent, r.folder[f]}
            BY <1>2, <1>3, <2>5, <2>6 DEF RowsGood
        <3>4. \A f \in Files : /\ Settled(f) /\ ~r.db[f].dirty
                               /\ server.entry[f].usn <= c.last_usn
                               => r.db[f].sha = server.entry[f].sha
            BY <1>3, <2>6 DEF RowsGood, Differs
        <3>5. QED
            BY <1>1, <2>1, <2>3, <2>5, <3>1, <3>2, <3>3, <3>4 DEF RowsGood, Settled, Differs
    <2>9. SessionGood(d)'
        <3>1. last <= server.last_usn
            BY <1>4, <1>6, <1>8 DEF last
        <3>2. \A f \in Range(todo) : server.entry[f].sha # Absent
            BY <1>6, <1>8, NeedSays, RangeOfSeq
        <3>3. \A f \in Range(delete) : server.entry[f].sha = Absent
            BY <1>6, <1>8, NeedSays, RangeOfSeq
        <3>4. \A f \in Range(clean) : r.db[f].sha = server.entry[f].sha
            <4>1. \A f \in Range(clean) : f \in Files /\ f \notin Range(delete) /\ ~Differs(d, f)
                BY <1>6, <1>8, NeedSays, RangeOfSeq
            <4>2. QED
                BY <2>6, <4>1 DEF Differs
        <3>5. ASSUME NEW f \in Files, ~r.db[f].dirty, r.db[f].sha # server.entry[f].sha,
                     c.last_usn < server.entry[f].usn, server.entry[f].usn <= last
              PROVE  f \in Range(todo) \cup Range(delete)
            <4>1. c.db[f] = r.db[f] /\ Differs(d, f)
                BY <2>6, <3>5 DEF Differs
            <4>2. f \in Range(batch)
                BY <1>0, <1>4, <1>6, <1>8, <3>5 DEF last
            <4>3. Need(d, f) \in {"Download", "Delete"}
                BY <3>5, <4>1, NeedSays
            <4>4. QED
                BY <1>8, <4>2, <4>3
        <3>6. LET q == session'[d]
              IN  /\ q.at = "download" /\ Unrecorded(q) = {}
                  /\ q.last <= server'.last_usn
                  /\ \A f \in Range(q.todo) : server'.entry[f].sha # Absent
                  /\ Range(q.got) = {}
                  /\ \A f \in Range(q.delete) : server'.entry[f].sha = Absent
                  /\ \A f \in Range(q.clean) : client'[d].db[f].sha = server'.entry[f].sha
                  /\ \A f \in Files :
                       /\ ~client'[d].db[f].dirty /\ client'[d].db[f].sha # server'.entry[f].sha
                       /\ client'[d].last_usn < server'.entry[f].usn
                       /\ server'.entry[f].usn <= q.last
                       => f \in Range(q.todo) \cup Range(q.delete)
            BY <1>1, <2>1, <2>2, <2>3, <2>5, <3>1, <3>2, <3>3, <3>4, <3>5
        <3>7. QED
            BY <3>6 DEF SessionGood, DownloadGood, Settled, Differs
    <2>10. QED
        BY <1>1, <1>2, <1>8, <2>2, <2>4, <2>7, <2>9, ServerWaits DEF s, last
<1>9. QED
    BY <1>7, <1>8, FetchDoes

(* What is left of a list once its first elements are taken.               *)
LEMMA TheRest ==
    ASSUME NEW X, NEW seq \in Seq(X), NEW n \in 1..Len(seq)
    PROVE  LET rest == SubSeq(seq, n + 1, Len(seq))
           IN  /\ Range(rest) \subseteq Range(seq)
               /\ \A x \in Range(seq) : x \in Range(rest) \/ \E i \in 1..n : seq[i] = x
<1> DEFINE l == Len(seq)
           rest == SubSeq(seq, n + 1, l)
<1>1. l \in Nat /\ n \in Nat /\ n <= l /\ n + 1 \in Int /\ l \in Int
    BY LenProperties
<1>2. \A i \in (n + 1)..l : seq[i] \in X
    BY <1>1, ElementOfSeq
<1> HIDE DEF l
<1>3. /\ rest \in Seq(X)
      /\ Len(rest) = IF n + 1 <= l THEN l - (n + 1) + 1 ELSE 0
      /\ \A i \in 1..(l - (n + 1) + 1) : rest[i] = seq[(n + 1) + i - 1]
    BY <1>1, <1>2, SubSeqProperties
<1> HIDE DEF rest
<1>4. /\ Len(rest) = l - n
      /\ \A i \in 1..(l - n) : rest[i] = seq[n + i] /\ n + i \in 1..l
    BY <1>1, <1>3, SMTT(40)
<1>5. ASSUME NEW x \in Range(rest) PROVE x \in Range(seq)
    <2>1. PICK i \in 1..(l - n) : x = rest[i]
        BY <1>3, <1>4, InRange
    <2>2. QED
        BY <1>4, <2>1, InRange DEF l
<1>6. ASSUME NEW x \in Range(seq), \A i \in 1..n : seq[i] # x PROVE x \in Range(rest)
    <2>1. PICK i \in 1..l : x = seq[i]
        BY InRange DEF l
    <2>2. i > n
        BY <1>1, <1>6, <2>1
    <2>3. i - n \in 1..(l - n) /\ n + (i - n) = i
        BY <1>1, <2>2
    <2>4. rest[i - n] = x
        BY <1>4, <2>1, <2>3
    <2>5. QED
        BY <1>3, <1>4, <2>3, <2>4, InRange
<1>7. QED
    BY <1>5, <1>6 DEF rest, l

(* A sync that ends where it is.                                           *)
LEMMA StopSerial ==
    ASSUME MediaInv, MediaInv', SerialInv, NEW d \in Devices, Undisturbed(d),
           session[d] # Idle, Goto(d, Idle), torn' = torn \cup Unrecorded(session[d]),
           faults' # 0, UNCHANGED <<client, wire>>,
           server'.last_usn = server.last_usn,
           \A f \in Files \ torn : server'.entry[f] = server.entry[f],
           FolderTidy'
    PROVE  SerialInv'
<1>1. session'[d] = Idle /\ \A e \in Devices \ {d} : session'[e] = session[e]
    BY DEF Goto, MediaInv, Typed
<1>2. Unrecorded(Idle) = {} /\ Idle.at = "idle"
    BY DEF Unrecorded, Idle
<1>3. RowsGood(d)'
    BY <1>1, <1>2 DEF SerialInv, RowsGood, Settled, Differs
<1>4. SessionGood(d)'
    BY <1>1, <1>2 DEF SessionGood
<1>5. NoFaults'
    BY DEF NoFaults
<1>6. server.last_usn \in Nat
    BY ServerFields DEF MediaInv, Typed
<1>7. QED
    BY <1>1, <1>2, <1>3, <1>4, <1>5, <1>6, SerialStep

LEMMA DownloadSerial ==
    ASSUME MediaInv, MediaInv', SerialInv, NEW d \in Devices, Undisturbed(d), Download(d)
    PROVE  SerialInv'
<1> DEFINE s == session[d]
           c == client[d]
<1>0. /\ client \in [Devices -> Clients] /\ c \in Clients /\ s \in Sessions
      /\ server \in Servers /\ Tidy(server)
      /\ \A g \in Files : server.entry[g].known => server.entry[g].usn # 0
    BY DEF MediaInv, Typed, ServerGood
<1>1. UNCHANGED <<wire, acknowledged, edits, faults>> /\ s.at = "download"
    BY DEF Download
<1>2. /\ s.todo \in NameLists /\ s.got \in Seq(Gots) /\ s \in Downloads
      /\ s.todo \in Seq(Files)
    BY <1>0, <1>1, SessionFields, NameListsAre
<1>3. s # Idle /\ wire[d] = NoUpload
    BY <1>1 DEF SerialInv, OneAtATime, Idle
<1>4. RowsGood(d) /\ FolderTidy /\ NoFaults /\ DownloadGood(d, s)
    BY <1>1 DEF SerialInv, SessionGood
<1>5. \A f \in Range(s.todo) : server.entry[f].sha # Absent
    BY <1>4 DEF DownloadGood
<1>6. ASSUME Goto(d, Idle), torn' = torn \cup Unrecorded(s), UNCHANGED client,
             NEW f \in Files, server.entry[f].sha # Absent, server.folder[f] = Absent,
             server' = ForgetMissing(server, f)
      PROVE  SerialInv'
    <2>1. f \in torn /\ faults # 0
        BY <1>4, <1>6 DEF FolderTidy, Settled, NoFaults
    <2>2. /\ server'.folder = server.folder /\ server'.last_usn = server.last_usn
          /\ server'.entry[f] = NoEntry
          /\ \A g \in Files \ {f} : server'.entry[g] = server.entry[g]
        BY <1>0, <1>6, ForgetKeeps
    <2>3. FolderTidy'
        BY <1>4, <1>6, <2>1, <2>2 DEF FolderTidy, Settled
    <2>4. \A g \in Files \ torn : server'.entry[g] = server.entry[g]
        BY <2>1, <2>2
    <2>5. QED
        BY <1>1, <1>3, <1>6, <2>1, <2>2, <2>3, <2>4, StopSerial
<1>7. ASSUME NEW n \in 1..Len(s.todo), UNCHANGED <<server, torn>>,
             NEW seen \in BOOLEAN, seen => client[d].seen,
             client' = [client EXCEPT ![d] = [client[d] EXCEPT
                                 !.folder = [f \in Files |->
                                    IF \E i \in 1..n : s.todo[i] = f
                                    THEN server.folder[f] ELSE client[d].folder[f]],
                                 !.seen = seen]],
             Goto(d, [s EXCEPT
                            !.todo = SubSeq(s.todo, n + 1, Len(s.todo)),
                            !.got = s.got \o [i \in 1..n |->
                                      [file |-> s.todo[i], sha |-> server.folder[s.todo[i]]]]])
      PROVE  SerialInv'
    <2> DEFINE todo == SubSeq(s.todo, n + 1, Len(s.todo))
               more == [i \in 1..n |-> [file |-> s.todo[i], sha |-> server.folder[s.todo[i]]]]
               got == s.got \o more
               folder == [f \in Files |-> IF \E i \in 1..n : s.todo[i] = f
                                          THEN server.folder[f] ELSE client[d].folder[f]]
               r == client'[d]
    <2>1. /\ n \in Nat /\ Len(s.todo) \in Nat /\ n <= Len(s.todo)
          /\ \A i \in 1..n : s.todo[i] \in Files
        <3>1. Len(s.todo) \in Nat
            BY <1>2, LenProperties
        <3>2. QED
            BY <1>2, <3>1, ElementOfSeq
    <2>2. /\ Range(todo) \subseteq Range(s.todo)
          /\ \A f \in Range(s.todo) : f \in Range(todo) \/ \E i \in 1..n : s.todo[i] = f
        BY <1>2, TheRest
    <2>3. \A g : g \in Range(got) <=> g \in Range(s.got) \/ \E i \in 1..n :
                    g = [file |-> s.todo[i], sha |-> server.folder[s.todo[i]]]
        <3>1. \A i \in 1..n : server.folder[s.todo[i]] \in Shas
            BY <1>0, <2>1, ServerFields
        <3>2. more \in [1..n -> Gots]
            BY <2>1, <3>1 DEF Gots
        <3>3. \A g : g \in Range(more) <=> \E i \in 1..n :
                    g = [file |-> s.todo[i], sha |-> server.folder[s.todo[i]]]
            BY DEF Range
        <3> HIDE DEF more
        <3>4. more \in Seq(Gots)
            BY <2>1, <3>2
        <3> DEFINE old == s.got
        <3>5. old \in Seq(Gots)
            BY <1>2
        <3> HIDE DEF old
        <3>6. Range(old \o more) = Range(old) \cup Range(more)
            BY <3>4, <3>5, RangeConcatenation
        <3>7. QED
            BY <3>3, <3>6 DEF old
    <2>4. /\ r.last_usn = c.last_usn /\ r.db = c.db /\ r.folder = folder /\ r.seen = seen
          /\ \A e \in Devices \ {d} : client'[e] = client[e]
        <3> HIDE DEF folder
        <3>1. client' = [client EXCEPT ![d] = [c EXCEPT !.folder = folder, !.seen = seen]]
            BY <1>7 DEF folder
        <3> DEFINE q == [c EXCEPT !.folder = folder, !.seen = seen]
        <3>2. q.last_usn = c.last_usn /\ q.db = c.db /\ q.folder = folder /\ q.seen = seen
            BY <1>0 DEF Clients
        <3>3. r = q /\ \A e \in Devices \ {d} : client'[e] = client[e]
            BY <1>0, <3>1
        <3> HIDE DEF q, r
        <3>4. QED
            BY <3>2, <3>3
    <2> DEFINE new == [s EXCEPT !.todo = todo, !.got = got]
    <2>5. Goto(d, new)
        BY <1>7
    <2>6. /\ new.at = "download" /\ new.todo = todo /\ new.got = got /\ new.last = s.last
          /\ new.delete = s.delete /\ new.clean = s.clean
        <3> HIDE DEF todo, got, s
        <3>1. QED
            BY <1>2 DEF Downloads
    <2> HIDE DEF new
    <2>7. session'[d] = new
        BY <2>5 DEF Goto, MediaInv, Typed
    <2>8. \A f : f \in Unrecorded(new) <=> f \in Unrecorded(s) \/ \E i \in 1..n : s.todo[i] = f
        <3> HIDE DEF got, todo
        <3>1. Unrecorded(new) = {g.file : g \in Range(got)}
            BY <2>6 DEF Unrecorded
        <3>2. Unrecorded(s) = {g.file : g \in Range(s.got)}
            BY <1>1 DEF Unrecorded
        <3> DEFINE item(i) == [file |-> s.todo[i], sha |-> server.folder[s.todo[i]]]
        <3>3. \A i : item(i).file = s.todo[i]
            OBVIOUS
        <3>4. \A g : g \in Range(got) <=> g \in Range(s.got) \/ \E i \in 1..n : g = item(i)
            BY <2>3
        <3> HIDE DEF item, s
        <3>5. QED
            BY <3>1, <3>2, <3>3, <3>4
    <2>9. \A f \in Files : folder[f] = IF \E i \in 1..n : s.todo[i] = f
                                       THEN server.folder[f] ELSE c.folder[f]
        OBVIOUS
    <2> HIDE DEF todo, got, folder, more
    <2>10. RowsGood(d)'
        <3>1. \A f \in Files : f \notin Unrecorded(new) /\ Settled(f)
                               => r.db[f].sha \in {Absent, r.folder[f]}
            BY <1>3, <1>4, <2>4, <2>8, <2>9 DEF RowsGood
        <3>2. server' = server /\ torn' = torn
            BY <1>7
        <3>3. /\ r.last_usn <= server.last_usn
              /\ \A f \in Files : ~r.db[f].known => r.db[f].sha = Absent
            BY <1>4, <2>4 DEF RowsGood
        <3>4. \A f \in Files :
                Settled(f) /\ ~r.db[f].dirty /\ server.entry[f].usn <= r.last_usn
                => r.db[f].sha = server.entry[f].sha
            BY <1>4, <2>4 DEF RowsGood, Differs
        <3>5. QED
            BY <2>7, <3>1, <3>2, <3>3, <3>4 DEF RowsGood, Settled, Differs
    <2>11. SessionGood(d)'
        <3>1. \A f \in Range(todo) : server.entry[f].sha # Absent
            BY <1>5, <2>2
        <3>2. ASSUME NEW g \in Range(got)
              PROVE  folder[g.file] = g.sha /\ server.folder[g.file] = g.sha
            <4>1. CASE g \in Range(s.got)
                <5>1. c.folder[g.file] = g.sha /\ server.folder[g.file] = g.sha
                    BY <1>4, <4>1 DEF DownloadGood
                <5>2. g \in Gots
                    BY <1>2, <4>1, RangeOfSeq
                <5>3. g.file \in Files
                    BY <5>2 DEF Gots
                <5>4. QED
                    BY <2>9, <5>1, <5>3
            <4>2. CASE \E i \in 1..n : g = [file |-> s.todo[i], sha |-> server.folder[s.todo[i]]]
                BY <2>1, <2>9, <4>2
            <4>3. QED
                BY <2>3, <3>2, <4>1, <4>2
        <3>3. /\ \A f \in Range(s.delete) : server.entry[f].sha = Absent
              /\ \A f \in Range(s.clean) : c.db[f].sha = server.entry[f].sha
              /\ s.last <= server.last_usn
            BY <1>4 DEF DownloadGood, Differs
        <3>4. ASSUME NEW f \in Files, Settled(f), ~c.db[f].dirty, c.db[f].sha # server.entry[f].sha,
                     c.last_usn < server.entry[f].usn, server.entry[f].usn <= s.last
              PROVE  f \in Range(todo) \cup Unrecorded(new) \cup Range(s.delete)
            <4>1. f \in Range(s.todo) \cup Unrecorded(s) \cup Range(s.delete)
                BY <1>4, <3>4 DEF DownloadGood, Differs
            <4>2. QED
                BY <2>2, <2>8, <4>1
        <3>5. LET q == session'[d]
              IN  /\ q.at = "download"
                  /\ q.last <= server'.last_usn
                  /\ \A f \in Range(q.todo) : server'.entry[f].sha # Absent
                  /\ \A g \in Range(q.got) : /\ client'[d].folder[g.file] = g.sha
                                             /\ server'.folder[g.file] = g.sha
                  /\ \A f \in Range(q.delete) : server'.entry[f].sha = Absent
                  /\ \A f \in Range(q.clean) : client'[d].db[f].sha = server'.entry[f].sha
                  /\ \A f \in Files :
                       /\ f \notin torn'
                       /\ ~client'[d].db[f].dirty /\ client'[d].db[f].sha # server'.entry[f].sha
                       /\ client'[d].last_usn < server'.entry[f].usn
                       /\ server'.entry[f].usn <= q.last
                       => f \in Range(q.todo) \cup Unrecorded(q) \cup Range(q.delete)
            BY <1>7, <2>4, <2>6, <2>7, <3>1, <3>2, <3>3, <3>4 DEF Settled
        <3>6. QED
            BY <3>5 DEF SessionGood, DownloadGood, Settled, Differs
    <2>12. QED
        BY <1>1, <1>3, <1>7, <2>4, <2>5, <2>6, <2>10, <2>11, ServerWaits
<1>8. CASE \E n \in 1..Len(s.todo) :
               /\ UNCHANGED <<server, torn>>
               /\ \A i \in 1..n : server.folder[s.todo[i]] # Absent
               /\ \E seen \in BOOLEAN :
                    /\ seen => client[d].seen
                    /\ client' = [client EXCEPT ![d] = [client[d] EXCEPT
                         !.folder = [f \in Files |->
                            IF \E i \in 1..n : s.todo[i] = f
                            THEN server.folder[f] ELSE client[d].folder[f]],
                         !.seen = seen]]
               /\ Goto(d, [s EXCEPT
                    !.todo = SubSeq(s.todo, n + 1, Len(s.todo)),
                    !.got = s.got \o [i \in 1..n |->
                              [file |-> s.todo[i], sha |-> server.folder[s.todo[i]]]]])
    BY <1>7, <1>8
<1>9. QED
    BY <1>5, <1>6, <1>8, DownloadDoes

LEMMA RecordBatchSerial ==
    ASSUME MediaInv, MediaInv', SerialInv, NEW d \in Devices, Undisturbed(d), RecordBatch(d)
    PROVE  SerialInv'
<1> DEFINE s == session[d]
           c == client[d]
           r == Recorded(c, s)
           new == [at |-> "fetch", acted |-> TRUE]
<1>0. /\ client \in [Devices -> Clients] /\ c \in Clients /\ s \in Sessions
      /\ s.at = "download" /\ s.todo = <<>> /\ c.last_usn \in Nat
      /\ \A f \in Files : server.entry[f].usn \in Nat
    BY ClientFields, ServerFields DEF MediaInv, Typed, RecordBatch
<1>1. /\ UNCHANGED <<wire, server, acknowledged, torn, edits, faults>>
      /\ Goto(d, new)
      /\ client' = [client EXCEPT ![d] = r]
    BY DEF RecordBatch
<1>2. /\ s \in Downloads /\ s.got \in Seq(Gots) /\ s.last \in Nat
    BY <1>0, SessionFields
<1>3. s # Idle /\ wire[d] = NoUpload
    BY <1>0 DEF SerialInv, OneAtATime, Idle
<1>4. RowsGood(d) /\ FolderTidy /\ DownloadGood(d, s)
    BY <1>0 DEF SerialInv, SessionGood
<1>5. client'[d] = r /\ session'[d] = new /\ \A e \in Devices \ {d} : client'[e] = client[e]
    BY <1>0, <1>1 DEF Goto, MediaInv, Typed
<1>6. new.at = "fetch" /\ Unrecorded(new) = {}
    BY DEF Unrecorded
<1>7. \A f : f \in Unrecorded(s) <=> \E i \in DOMAIN s.got : s.got[i].file = f
    BY <1>0 DEF Unrecorded, Range
<1>8. /\ r.folder = c.folder /\ r.last_usn = s.last /\ r.seen
      /\ \A f \in Files :
           IF \E i \in DOMAIN s.got : s.got[i].file = f
           THEN \E i \in DOMAIN s.got : s.got[i].file = f /\ r.db[f] = Row(s.got[i].sha, FALSE)
           ELSE IF f \in Range(s.delete) THEN r.db[f] = Unknown
           ELSE IF f \in Range(s.clean) THEN r.db[f] = [c.db[f] EXCEPT !.dirty = FALSE]
           ELSE r.db[f] = c.db[f]
    <2> HIDE DEF c, s
    <2>1. QED
        BY <1>0, <1>2, RecordedKeeps
<1> HIDE DEF r
<1>9. ASSUME NEW f \in Files
      PROVE  \/ /\ f \in Unrecorded(s) /\ r.db[f].known
                /\ r.db[f].sha = c.folder[f] /\ r.db[f].sha = server.folder[f]
             \/ /\ f \notin Unrecorded(s) /\ r.db[f].sha = Absent /\ server.entry[f].sha = Absent
             \/ /\ f \notin Unrecorded(s) /\ r.db[f].sha = c.db[f].sha
                /\ r.db[f].known = c.db[f].known
                /\ \/ ~Differs(d, f)
                   \/ f \notin Range(s.delete) /\ r.db[f] = c.db[f]
    <2>1. CASE f \in Unrecorded(s)
        <3>1. PICK i \in DOMAIN s.got : s.got[i].file = f /\ r.db[f] = Row(s.got[i].sha, FALSE)
            BY <1>7, <1>8, <2>1
        <3>2. s.got[i] \in Range(s.got)
            BY <3>1 DEF Range
        <3>3. c.folder[f] = s.got[i].sha /\ server.folder[f] = s.got[i].sha
            BY <1>4, <3>1, <3>2 DEF DownloadGood
        <3>4. r.db[f].known /\ r.db[f].sha = s.got[i].sha
            BY <3>1 DEF Row
        <3>5. QED
            BY <2>1, <3>3, <3>4
    <2>2. CASE f \notin Unrecorded(s) /\ f \in Range(s.delete)
        <3>1. r.db[f] = Unknown
            BY <1>7, <1>8, <2>2
        <3>2. server.entry[f].sha = Absent
            BY <1>4, <2>2 DEF DownloadGood
        <3>3. r.db[f].sha = Absent
            BY <3>1 DEF Unknown
        <3>4. QED
            BY <2>2, <3>2, <3>3
    <2>3. CASE f \notin Unrecorded(s) /\ f \notin Range(s.delete) /\ f \in Range(s.clean)
        <3>1. r.db[f] = [c.db[f] EXCEPT !.dirty = FALSE]
            BY <1>7, <1>8, <2>3
        <3>2. c.db[f] \in Rows
            BY <1>0, ClientFields
        <3>3. r.db[f].sha = c.db[f].sha /\ r.db[f].known = c.db[f].known
            BY <3>1, <3>2 DEF Rows
        <3>4. ~Differs(d, f)
            BY <1>4, <2>3 DEF DownloadGood
        <3>5. QED
            BY <2>3, <3>3, <3>4
    <2>4. CASE f \notin Unrecorded(s) /\ f \notin Range(s.delete) /\ f \notin Range(s.clean)
        BY <1>7, <1>8, <2>4
    <2>5. QED
        BY <2>1, <2>2, <2>3, <2>4
<1>10. RowsGood(d)'
    <2>1. r.last_usn <= server.last_usn
        BY <1>4, <1>8 DEF DownloadGood
    <2>2. \A f \in Files : ~r.db[f].known => r.db[f].sha = Absent
        BY <1>4, <1>9 DEF RowsGood
    <2>3. \A f \in Files : Settled(f) => r.db[f].sha \in {Absent, r.folder[f]}
        BY <1>3, <1>4, <1>8, <1>9 DEF RowsGood
    <2>4. ASSUME NEW f \in Files, Settled(f), ~r.db[f].dirty, server.entry[f].usn <= s.last
          PROVE  r.db[f].sha = server.entry[f].sha
        <3>1. server.folder[f] = server.entry[f].sha
            BY <1>4, <2>4 DEF FolderTidy
        <3>2. CASE f \notin Unrecorded(s) /\ f \notin Range(s.delete) /\ r.db[f] = c.db[f]
            <4>1. Range(s.todo) = {}
                BY <1>0 DEF Range
            <4>2. CASE server.entry[f].usn <= c.last_usn
                BY <1>4, <2>4, <3>2, <4>2 DEF RowsGood, Differs
            <4>3. CASE c.last_usn < server.entry[f].usn
                BY <1>4, <2>4, <3>2, <4>1, <4>3 DEF DownloadGood, Differs
            <4>4. QED
                BY <1>0, <4>2, <4>3
        <3>3. QED
            BY <1>9, <3>1, <3>2 DEF Differs
    <2>5. QED
        BY <1>1, <1>5, <1>6, <1>8, <2>1, <2>2, <2>3, <2>4 DEF RowsGood, Settled, Differs
<1>11. SessionGood(d)'
    BY <1>5, <1>6 DEF SessionGood
<1>12. QED
    BY <1>1, <1>3, <1>5, <1>6, <1>10, <1>11, ServerWaits

LEMMA UploadSerial ==
    ASSUME MediaInv, MediaInv', SerialInv, Plain, NEW d \in Devices, Undisturbed(d), Upload(d)
    PROVE  SerialInv'
<1>1. UNCHANGED <<server, acknowledged, torn, edits, faults>>
    BY DEF Upload
<1>2. /\ session[d].at = "send" /\ wire[d] = NoUpload /\ UNCHANGED client
      /\ \E files \in NameLists :
           /\ files # <<>>
           /\ \A f \in Range(files) : f \in Files /\ client[d].db[f].dirty
           /\ wire' = [wire EXCEPT ![d] =
                 [i \in 1..Len(files) |-> [file |-> files[i],
                                           data |-> DataFor(client[d], files[i])]]]
           /\ Goto(d, [at |-> "sent", files |-> files])
    BY UploadDoes DEF Plain
<1>3. PICK files \in NameLists :
           /\ \A f \in Range(files) : f \in Files /\ client[d].db[f].dirty
           /\ wire' = [wire EXCEPT ![d] =
                 [i \in 1..Len(files) |-> [file |-> files[i],
                                           data |-> DataFor(client[d], files[i])]]]
           /\ Goto(d, [at |-> "sent", files |-> files])
    BY <1>2
<1> DEFINE new == [at |-> "sent", files |-> files]
           sent == [i \in 1..Len(files) |-> [file |-> files[i],
                                             data |-> DataFor(client[d], files[i])]]
<1>4. /\ session'[d] = new /\ new.at = "sent" /\ new.files = files
      /\ \A e \in Devices \ {d} : session'[e] = session[e]
    BY <1>3 DEF Goto, MediaInv, Typed
<1>5. /\ wire'[d] = sent /\ \A e \in Devices \ {d} : wire'[e] = wire[e]
    BY <1>3 DEF MediaInv, Typed
<1>6. session[d] # Idle /\ Unrecorded(session[d]) = {} /\ Unrecorded(new) = {}
    BY <1>2, <1>4 DEF Idle, Unrecorded
<1>7. RowsGood(d) /\ SendGood(d)
    BY <1>2 DEF SerialInv, SessionGood
<1>8. FolderTidy' /\ NoFaults'
    <2>1. FolderTidy'
        BY <1>1 DEF SerialInv, FolderTidy, Settled
    <2>2. NoFaults'
        BY <1>1, <1>4 DEF SerialInv, NoFaults
    <2>3. QED
        BY <2>1, <2>2
<1>9. RowsGood(d)'
    BY <1>1, <1>2, <1>4, <1>6, <1>7 DEF RowsGood, Settled, Differs
<1>10. SessionGood(d)'
    <2> HIDE DEF new
    <2>1. SendGood(d)'
        BY <1>1, <1>2, <1>7 DEF SendGood, Settled, Differs
    <2>2. /\ \A f \in Range(session'[d].files) : client'[d].db[f].dirty
          /\ session'[d].files = files
        BY <1>2, <1>3, <1>4
    <2>3. wire'[d] = [i \in 1..Len(files) |-> [file |-> files[i],
                                               data |-> DataFor(client'[d], files[i])]]
        BY <1>2, <1>5
    <2>4. session'[d].at = "sent"
        BY <1>4
    <2>5. QED
        BY <2>1, <2>2, <2>3, <2>4 DEF SessionGood, SentGood
<1>11. server.last_usn \in Nat
    BY ServerFields DEF MediaInv, Typed
<1>12. QED
    BY <1>1, <1>2, <1>4, <1>5, <1>8, <1>9, <1>10, <1>11, SerialStep

LEMMA UploadAnsweredSerial ==
    ASSUME MediaInv, MediaInv', SerialInv, NEW d \in Devices, Undisturbed(d), UploadAnswered(d)
    PROVE  SerialInv'
<1> DEFINE s == session[d]
           c == client[d]
           r == Answered(c, s)
           new == [at |-> "send", acted |-> TRUE]
<1>0. /\ client \in [Devices -> Clients] /\ c \in Clients /\ s \in Sessions
      /\ s.at = "answered"
    BY DEF MediaInv, Typed, UploadAnswered
<1>1. /\ UNCHANGED <<wire, server, acknowledged, torn, edits, faults>>
      /\ Goto(d, new)
      /\ client' = [client EXCEPT ![d] = r]
    BY DEF UploadAnswered
<1>2. s # Idle /\ wire[d] = NoUpload /\ Unrecorded(s) = {}
    BY <1>0 DEF SerialInv, OneAtATime, Idle, Unrecorded
<1>3. RowsGood(d) /\ SendGood(d) /\ AnsweredGood(d, s)
    BY <1>0 DEF SerialInv, SessionGood
<1>4. client'[d] = r /\ session'[d] = new /\ \A e \in Devices \ {d} : client'[e] = client[e]
    BY <1>0, <1>1 DEF Goto, MediaInv, Typed
<1>5. new.at = "send" /\ Unrecorded(new) = {}
    BY DEF Unrecorded
<1>6. /\ r.folder = c.folder /\ r.seen = c.seen /\ r.last_usn \in {c.last_usn, s.usn}
      /\ \A f \in Files : r.db[f] = IF f \in Range(s.files)
                                    THEN [c.db[f] EXCEPT !.dirty = FALSE] ELSE c.db[f]
    <2> HIDE DEF c, s
    <2>1. QED
        BY <1>0, AnsweredKeeps
<1> HIDE DEF r
<1>7. ASSUME NEW f \in Files
      PROVE  /\ r.db[f].known = c.db[f].known /\ r.db[f].sha = c.db[f].sha
             /\ f \in Range(s.files) \/ r.db[f] = c.db[f]
    <2>1. CASE f \in Range(s.files)
        <3>1. r.db[f] = [c.db[f] EXCEPT !.dirty = FALSE]
            BY <1>6, <2>1
        <3>2. c.db[f] \in Rows
            BY <1>0, ClientFields
        <3>3. QED
            BY <2>1, <3>1, <3>2 DEF Rows
    <2>2. CASE f \notin Range(s.files)
        BY <1>6, <2>2
    <2>3. QED
        BY <2>1, <2>2
<1>8. ASSUME NEW f \in Files, Settled(f), ~r.db[f].dirty
      PROVE  r.db[f].sha = server.entry[f].sha
    <2>1. CASE f \in Range(s.files)
        <3>1. server.entry[f].sha = DataFor(c, f)
            BY <1>3, <2>1 DEF AnsweredGood
        <3>2. c.db[f].sha \in {Absent, c.folder[f]}
            BY <1>2, <1>3, <1>8 DEF RowsGood
        <3>3. QED
            BY <1>7, <3>1, <3>2 DEF DataFor
    <2>2. CASE f \notin Range(s.files)
        BY <1>3, <1>7, <1>8, <2>2 DEF SendGood, Differs
    <2>3. QED
        BY <2>1, <2>2
<1>9. RowsGood(d)'
    <2>1. r.last_usn <= server.last_usn
        BY <1>3, <1>6 DEF RowsGood, AnsweredGood
    <2>2. /\ \A f \in Files : ~r.db[f].known => r.db[f].sha = Absent
          /\ \A f \in Files : Settled(f) => r.db[f].sha \in {Absent, r.folder[f]}
        BY <1>2, <1>3, <1>6, <1>7 DEF RowsGood
    <2>3. QED
        BY <1>1, <1>4, <1>5, <1>8, <2>1, <2>2 DEF RowsGood, Settled, Differs
<1>10. SessionGood(d)'
    <2>1. SendGood(d)'
        BY <1>1, <1>4, <1>8 DEF SendGood, Settled, Differs
    <2>2. QED
        BY <1>4, <1>5, <2>1 DEF SessionGood
<1>11. QED
    BY <1>1, <1>2, <1>4, <1>5, <1>9, <1>10, ServerWaits

(* The sanity check finds nothing when nothing has gone wrong.             *)
LEMMA FinishSerial ==
    ASSUME MediaInv, MediaInv', SerialInv, NEW d \in Devices, Undisturbed(d), Finish(d)
    PROVE  SerialInv'
<1>1. /\ session[d].at = "send" /\ Pending(d) = <<>>
      /\ UNCHANGED <<client, wire, server, acknowledged, torn, edits, faults>>
    BY DEF Finish
<1>2. PICK new \in {Idle, [at |-> "resync"]} :
        /\ Goto(d, new)
        /\ new # Idle => CountOf(client[d]) # server.count
    BY DEF Finish
<1>3. session[d] # Idle /\ wire[d] = NoUpload /\ Unrecorded(session[d]) = {}
    BY <1>1 DEF SerialInv, OneAtATime, Idle, Unrecorded
<1>4. RowsGood(d) /\ SendGood(d) /\ NoFaults /\ Tidy(server)
    BY <1>1 DEF SerialInv, SessionGood, MediaInv, ServerGood
<1>5. \A f \in Files : ~client[d].db[f].dirty
    <2> DEFINE dirty == {f \in Files : client[d].db[f].dirty}
    <2>1. SetToSeq(Files) \in Seq(Files) /\ Range(SetToSeq(Files)) = Files
        BY MediaParameters, FileOrder
    <2> HIDE DEF dirty
    <2>2. Range(Only(SetToSeq(Files), dirty)) = Files \cap dirty
        BY <2>1, OnlySelects
    <2>3. Only(SetToSeq(Files), dirty) = <<>>
        BY <1>1 DEF Pending, dirty
    <2>4. Files \cap dirty = {}
        BY <2>2, <2>3 DEF Range
    <2>5. QED
        BY <2>4 DEF dirty
<1>6. faults = 0 => CountOf(client[d]) = server.count
    <2>1. SUFFICES ASSUME faults = 0 PROVE CountOf(client[d]) = server.count
        OBVIOUS
    <2>2. \A f \in Files : client[d].db[f].sha = server.entry[f].sha
        BY <1>4, <1>5, <2>1 DEF NoFaults, SendGood, Settled, Differs
    <2>3. {f \in Files : client[d].db[f].sha # Absent}
            = {f \in Files : server.entry[f].sha # Absent}
        BY <2>2
    <2>4. QED
        BY <1>4, <2>3 DEF CountOf, Tidy
<1>7. session'[d] = new /\ new.at \in {"idle", "resync"} /\ (new.at = "resync" => new # Idle)
      /\ Unrecorded(new) = {}
    BY <1>2 DEF Goto, MediaInv, Typed, Idle, Unrecorded
<1>8. RowsGood(d)'
    BY <1>1, <1>3, <1>4, <1>7 DEF RowsGood, Settled, Differs
<1>9. SessionGood(d)'
    BY <1>7 DEF SessionGood
<1>10. faults = 0 => new.at # "resync"
    BY <1>2, <1>6, <1>7
<1>11. QED
    BY <1>1, <1>2, <1>3, <1>8, <1>9, <1>10, ServerWaits

LEMMA ForceResyncSerial ==
    ASSUME MediaInv, MediaInv', SerialInv, NEW d \in Devices, Undisturbed(d), ForceResync(d)
    PROVE  SerialInv'
<1>1. /\ session[d].at = "resync" /\ Goto(d, Idle)
      /\ client' = [client EXCEPT ![d].db = [f \in Files |-> Unknown],
                                  ![d].last_usn = 0, ![d].seen = FALSE]
      /\ UNCHANGED <<wire, server, acknowledged, torn, edits, faults>>
    BY DEF ForceResync
<1>2. /\ client'[d].last_usn = 0 /\ client'[d].seen = FALSE
      /\ \A f \in Files : client'[d].db[f] = Unknown
      /\ \A e \in Devices \ {d} : client'[e] = client[e]
    <2> DEFINE db == [f \in Files |-> Unknown]
    <2>1. /\ \A f \in Files : db[f] = Unknown
          /\ client' = [client EXCEPT ![d].db = db, ![d].last_usn = 0, ![d].seen = FALSE]
        BY <1>1
    <2> HIDE DEF db
    <2>2. QED
        BY <2>1 DEF MediaInv, Typed, Clients
<1>3. session[d] # Idle /\ wire[d] = NoUpload
    BY <1>1 DEF SerialInv, OneAtATime, Idle
<1>4. session'[d] = Idle /\ Idle.at = "idle"
    BY <1>1 DEF Goto, MediaInv, Typed, Idle
<1>5. ASSUME NEW f \in Files, server.entry[f].usn <= 0 PROVE server.entry[f].sha = Absent
    <2>1. server.entry[f].usn \in Nat
        BY ServerFields DEF MediaInv, Typed
    <2>2. server.entry[f] = NoEntry
        BY <1>5, <2>1 DEF MediaInv, ServerGood, SerialInv, FolderTidy
    <2>3. QED
        BY <2>2 DEF NoEntry
<1>6. RowsGood(d)'
    <2>1. Unknown.sha = Absent
        BY DEF Unknown
    <2>2. 0 <= server.last_usn
        BY ServerFields DEF MediaInv, Typed
    <2>3. QED
        BY <1>1, <1>2, <1>4, <1>5, <2>1, <2>2 DEF RowsGood, Differs
<1>7. SessionGood(d)'
    BY <1>4 DEF SessionGood
<1>8. QED
    BY <1>1, <1>2, <1>3, <1>4, <1>6, <1>7, ServerWaits

LEMMA AbortSerial ==
    ASSUME MediaInv, MediaInv', SerialInv, NEW d \in Devices, Undisturbed(d), Abort(d)
    PROVE  SerialInv'
<1>1. /\ session[d] # Idle /\ faults' = faults + 1 /\ Goto(d, Idle)
      /\ torn' = torn \cup Unrecorded(session[d])
      /\ UNCHANGED <<client, wire, server, acknowledged, edits>>
    BY DEF Abort
<1>2. faults' # 0
    BY <1>1 DEF MediaInv, Typed
<1>3. FolderTidy'
    BY <1>1 DEF SerialInv, FolderTidy, Settled
<1>4. QED
    BY <1>1, <1>2, <1>3, StopSerial

LEMMA ProcessUploadSerial ==
    ASSUME MediaInv, MediaInv', SerialInv, NEW d \in Devices, Undisturbed(d), ProcessUpload(d)
    PROVE  SerialInv'
<1> DEFINE upload == wire[d]
           s == session[d]
<1>0. /\ server \in Servers /\ Tidy(server) /\ upload \in Seq(Changed) /\ s \in Sessions
      /\ server' \in Servers /\ client[d] \in Clients
    BY DEF MediaInv, Typed, ServerGood
<1>1. /\ upload # NoUpload
      /\ server' = Processed(server, upload)
      /\ wire' = [wire EXCEPT ![d] = NoUpload]
      /\ UNCHANGED <<client, torn, edits, faults>>
    BY DEF ProcessUpload, Processed
<1>2. wire'[d] = NoUpload /\ \A e \in Devices \ {d} : wire'[e] = wire[e]
    BY <1>1 DEF MediaInv, Typed
<1>3. \/ /\ s.at = "idle" /\ UNCHANGED session
      \/ /\ s.at = "sent"
         /\ Goto(d, [at |-> "answered", files |-> s.files, usn |-> server'.last_usn])
    BY <1>1 DEF ProcessUpload, SerialInv, OneAtATime
<1> HIDE DEF upload
<1>4. /\ server'.last_usn >= server.last_usn
      /\ \A f \in Files : SameOrChanged(server', server, upload, Len(upload), f)
      /\ \A i \in 1..Len(upload) : \E j \in 1..Len(upload) :
            /\ upload[j].file = upload[i].file
            /\ upload[j].data = server'.entry[upload[i].file].sha
    BY <1>0, <1>1, ProcessedKeeps
<1>5. /\ RowsGood(d) /\ FolderTidy /\ NoFaults /\ SessionGood(d)
      /\ client[d].last_usn \in Nat /\ server.last_usn \in Nat /\ server'.last_usn \in Nat
      /\ \A f \in Files : server'.entry[f].usn \in Nat
    BY <1>0, ServerFields, ClientFields DEF SerialInv
<1>6. FolderTidy'
    BY <1>1, <1>4, <1>5 DEF FolderTidy, SameOrChanged, Settled
<1>7. /\ Unrecorded(session[d]) = {} /\ Unrecorded(session'[d]) = {}
      /\ (session'[d] # Idle) => (session[d] # Idle)
      /\ \A e \in Devices \ {d} : session'[e] = session[e]
      /\ s.at = "idle" => session'[d].at = "idle"
      /\ s.at = "sent" => /\ session'[d].at = "answered" /\ session'[d].files = s.files
                          /\ session'[d].usn = server'.last_usn
    BY <1>3 DEF Goto, MediaInv, Typed, Unrecorded, Idle
<1>8. \A f \in Files : \/ server'.entry[f] = server.entry[f]
                       \/ server'.entry[f].usn > server.last_usn
    BY <1>4 DEF SameOrChanged
<1>9. RowsGood(d)'
    <2>1. client'[d].last_usn <= server'.last_usn
        BY <1>1, <1>4, <1>5 DEF RowsGood
    <2>2. ASSUME NEW f \in Files, f \notin torn, ~client[d].db[f].dirty,
                 server'.entry[f].usn <= client[d].last_usn
          PROVE  client[d].db[f].sha = server'.entry[f].sha
        <3>1. ~(server'.entry[f].usn > server.last_usn)
            BY <1>5, <2>2 DEF RowsGood
        <3>2. server'.entry[f] = server.entry[f]
            BY <1>8, <3>1
        <3>3. QED
            BY <1>5, <2>2, <3>2 DEF RowsGood, Settled, Differs
    <2>3. QED
        BY <1>1, <1>5, <1>7, <2>1, <2>2 DEF RowsGood, Settled, Differs
<1>10. NoFaults'
    <2>1. session'[d].at # "resync"
        BY <1>3, <1>7
    <2>2. QED
        BY <1>1, <1>5, <1>7, <2>1 DEF NoFaults
<1>11. SessionGood(d)'
    <2>1. CASE s.at = "idle"
        BY <1>7, <2>1 DEF SessionGood
    <2>2. CASE s.at = "sent"
        <3> DEFINE files == s.files
        <3>1. /\ SendGood(d)
              /\ \A f \in Range(files) : client[d].db[f].dirty
              /\ upload = [i \in 1..Len(files) |->
                             [file |-> files[i], data |-> DataFor(client[d], files[i])]]
            BY <1>5, <2>2 DEF SessionGood, SentGood, upload
        <3>2. files \in Seq(Files) /\ Len(files) \in Nat
            BY <1>0, <2>2, SessionFields, NameListsAre, LenProperties
        <3> HIDE DEF files
        <3>3. /\ Len(upload) = Len(files)
              /\ \A i \in 1..Len(files) : /\ upload[i].file = files[i]
                                          /\ upload[i].data = DataFor(client[d], files[i])
            BY <3>1, <3>2
        <3>4. ASSUME NEW f \in Files, f \notin torn, ~client[d].db[f].dirty
              PROVE  client[d].db[f].sha = server'.entry[f].sha
            <4>1. \A i \in 1..Len(files) : files[i] # f
                BY <3>1, <3>2, <3>4, InRange
            <4>2. SameOrChanged(server', server, upload, Len(upload), f)
                BY <1>4, <3>4
            <4>3. ~ \E i \in 1..Len(upload) : upload[i].file = f
                BY <3>3, <4>1
            <4>4. server'.entry[f] = server.entry[f]
                BY <4>2, <4>3 DEF SameOrChanged
            <4>5. QED
                BY <3>1, <3>4, <4>4 DEF SendGood, Settled, Differs
        <3>5. ASSUME NEW f \in Range(files)
              PROVE  server'.entry[f].sha = DataFor(client[d], f)
            <4>1. PICK i \in 1..Len(files) : f = files[i]
                BY <3>2, InRange
            <4>2. i \in 1..Len(upload) /\ upload[i].file = f
                BY <3>3, <4>1
            <4>3. PICK j \in 1..Len(upload) : /\ upload[j].file = f
                                              /\ upload[j].data = server'.entry[f].sha
                BY <1>4, <4>2
            <4>4. j \in 1..Len(files)
                BY <3>3
            <4>5. QED
                BY <3>3, <4>3, <4>4
        <3>6. SendGood(d)'
            BY <1>1, <3>4 DEF SendGood, Settled, Differs
        <3>7. /\ session'[d].usn <= server'.last_usn
              /\ \A f \in Range(session'[d].files) :
                   server'.entry[f].sha = DataFor(client'[d], f)
            BY <1>1, <1>5, <1>7, <2>2, <3>5 DEF files
        <3>8. session'[d].at = "answered"
            BY <1>7, <2>2
        <3>9. QED
            BY <3>6, <3>7, <3>8 DEF SessionGood, AnsweredGood
    <2>3. QED
        BY <1>3, <2>1, <2>2
<1>12. QED
    BY <1>1, <1>2, <1>4, <1>6, <1>7, <1>8, <1>9, <1>10, <1>11, SerialStep

LEMMA UploadFailsSerial ==
    ASSUME MediaInv, MediaInv', SerialInv, NEW d \in Devices, Undisturbed(d), UploadFails(d)
    PROVE  SerialInv'
<1> DEFINE upload == wire[d]
           lost == {upload[i].file : i \in DOMAIN upload}
<1>0. /\ server \in Servers /\ Tidy(server) /\ upload \in Seq(Changed)
      /\ DOMAIN upload = 1..Len(upload) /\ Len(upload) \in Nat
      /\ faults \in 0..MaxFaults /\ server.last_usn \in Nat
    BY LenProperties, ServerFields DEF MediaInv, Typed, ServerGood
<1>1. /\ upload # NoUpload /\ faults' = faults + 1
      /\ torn' = torn \cup lost
      /\ wire' = [wire EXCEPT ![d] = NoUpload]
      /\ UNCHANGED <<client, acknowledged, edits>>
    BY DEF UploadFails
<1>2. PICK k \in 0..Len(upload) :
        server' = RolledBack(server, Processed(server, SubSeq(upload, 1, k)))
    BY DEF UploadFails, Processed
<1>3. /\ session[d].at \in {"sent", "idle"}
      /\ session'[d].at = "idle"
      /\ session'[d] # Idle => session[d] # Idle
      /\ \A e \in Devices \ {d} : session'[e] = session[e]
    <2>1. session[d].at \in {"sent", "idle"}
        BY <1>1 DEF SerialInv, OneAtATime
    <2>2. IF session[d].at = "sent" THEN Goto(d, Idle) ELSE UNCHANGED session
        BY DEF UploadFails
    <2>3. QED
        BY <2>1, <2>2 DEF Goto, MediaInv, Typed, Idle
<1>4. wire'[d] = NoUpload /\ \A e \in Devices \ {d} : wire'[e] = wire[e]
    BY <1>1 DEF MediaInv, Typed
<1> DEFINE part == SubSeq(upload, 1, k)
           done == Processed(server, part)
<1> HIDE DEF upload
<1>5. /\ part \in Seq(Changed) /\ Len(part) = k
      /\ \A i \in 1..k : part[i] = upload[i] /\ i \in DOMAIN upload
    <2>1. \A i \in 1..k : upload[i] \in Changed
        BY <1>0, ElementOfSeq
    <2>2. QED
        BY <1>0, <2>1, SubSeqProperties
<1> HIDE DEF part
<1>6. /\ done \in Servers
      /\ \A f \in Files : SameOrChanged(done, server, part, Len(part), f)
    BY <1>0, <1>5, ProcessedKeeps
<1> HIDE DEF done
<1>7. server' = [server EXCEPT !.folder = done.folder]
    BY <1>2 DEF RolledBack, done, part
<1>8. /\ server'.entry = server.entry /\ server'.last_usn = server.last_usn
      /\ server'.folder = done.folder
    BY <1>0, <1>7 DEF Servers
<1>9. ASSUME NEW f \in Files, f \notin lost PROVE done.folder[f] = server.folder[f]
    <2>1. \A i \in 1..Len(part) : part[i].file # f
        BY <1>5, <1>9
    <2>2. QED
        BY <1>6, <2>1 DEF SameOrChanged
<1>10. FolderTidy'
    <2> HIDE DEF lost
    <2>1. QED
        BY <1>1, <1>8, <1>9 DEF SerialInv, FolderTidy, Settled
<1>11. NoFaults'
    BY <1>0, <1>1 DEF NoFaults
<1>12. Unrecorded(session[d]) = {} /\ Unrecorded(session'[d]) = {}
    BY <1>3 DEF Unrecorded
<1> HIDE DEF lost
<1>13. RowsGood(d)'
    BY <1>1, <1>3, <1>8, <1>12 DEF SerialInv, RowsGood, Settled, Differs
<1>14. SessionGood(d)'
    BY <1>3 DEF SessionGood
<1>15. QED
    BY <1>0, <1>1, <1>3, <1>4, <1>8, <1>10, <1>11, <1>13, <1>14, SerialStep

LEMMA InitSerial == Init => SerialInv
<1> SUFFICES ASSUME Init PROVE SerialInv
    OBVIOUS
<1>1. MediaInv
    BY InitGood
<1>2. /\ torn = {} /\ faults = 0 /\ server.folder = Shared
      /\ server.last_usn = Len(SharedOrder)
      /\ \A f \in Files : server.entry[f] = IF f \in SharedFiles
                            THEN [known |-> TRUE, sha |-> Shared[f], usn |-> FirstUsn(f)]
                            ELSE NoEntry
      /\ \A d \in Devices : /\ session[d] = Idle /\ wire[d] = NoUpload
                            /\ client[d].folder = Shared
                            /\ client[d].last_usn = Len(SharedOrder)
                            /\ \A f \in Files : client[d].db[f] = IF f \in SharedFiles
                                                  THEN Row(Shared[f], FALSE) ELSE Unknown
    BY DEF Init
<1>3. ASSUME NEW f \in Files
      PROVE  /\ ~server.entry[f].known => server.entry[f] = NoEntry
             /\ server.entry[f].sha = Shared[f]
    <2>1. CASE f \in SharedFiles
        <3>1. server.entry[f] = [known |-> TRUE, sha |-> Shared[f], usn |-> FirstUsn(f)]
            BY <1>2, <2>1
        <3>2. server.entry[f].known /\ server.entry[f].sha = Shared[f]
            BY <3>1
        <3>3. QED
            BY <3>2
    <2>2. CASE f \notin SharedFiles
        <3>1. server.entry[f] = NoEntry /\ Shared[f] = Absent
            BY <1>2, <2>2 DEF SharedFiles
        <3>2. QED
            BY <3>1 DEF NoEntry
    <2>3. QED
        BY <2>1, <2>2
<1>4. ASSUME NEW d \in Devices, NEW f \in Files
      PROVE  /\ client[d].db[f].sha = Shared[f]
             /\ ~client[d].db[f].known => client[d].db[f].sha = Absent
    <2>1. CASE f \in SharedFiles
        <3>1. client[d].db[f] = Row(Shared[f], FALSE)
            BY <1>2, <2>1
        <3>2. QED
            BY <3>1 DEF Row
    <2>2. CASE f \notin SharedFiles
        <3>1. client[d].db[f] = Unknown /\ Shared[f] = Absent
            BY <1>2, <2>2 DEF SharedFiles
        <3>2. QED
            BY <3>1 DEF Unknown
    <2>3. QED
        BY <2>1, <2>2
<1>5. Idle.at = "idle"
    BY DEF Idle
<1>6. OneAtATime /\ FolderTidy /\ NoFaults
    BY <1>2, <1>3, <1>5 DEF OneAtATime, Busy, FolderTidy, NoFaults
<1>7. server.last_usn \in Nat
    BY <1>1, ServerFields DEF MediaInv, Typed
<1>8. ASSUME NEW d \in Devices PROVE RowsGood(d) /\ SessionGood(d)
    <2>1. client[d].last_usn <= server.last_usn /\ client[d].folder = Shared
        <3>1. client[d].last_usn = server.last_usn /\ client[d].folder = Shared
            BY <1>2
        <3>2. QED
            BY <1>7, <3>1
    <2>2. RowsGood(d)
        BY <1>3, <1>4, <2>1 DEF RowsGood, Differs
    <2>3. SessionGood(d)
        BY <1>2, <1>5 DEF SessionGood
    <2>4. QED
        BY <2>2, <2>3
<1>9. QED
    BY <1>6, <1>8 DEF SerialInv

LEMMA SerialIsNext == SerialNext => Next
BY DEF SerialNext, Next, StartsUndisturbed

LEMMA SerialKeeps ==
    ASSUME Plain, MediaInv, SerialInv, [SerialNext]_vars
    PROVE  MediaInv' /\ SerialInv'
<1>1. MediaInv'
    BY SerialIsNext, NextKeeps
<1>2. CASE UNCHANGED vars
    <2>1. OneAtATime' /\ FolderTidy' /\ NoFaults'
        BY <1>2 DEF vars, SerialInv, OneAtATime, Busy, FolderTidy, NoFaults, Settled
    <2>2. ASSUME NEW d \in Devices PROVE RowsGood(d)' /\ SessionGood(d)'
        <3>1. RowsGood(d) /\ SessionGood(d)
            BY DEF SerialInv
        <3>2. RowsGood(d)'
            BY <1>2, <3>1, SMTT(40) DEF vars, RowsGood, Settled, Differs
        <3>3. SessionGood(d)'
            BY <1>2, <3>1 DEF vars, SessionGood, BeginGood, SendGood, SentGood, AnsweredGood,
                              DownloadGood, Settled, Differs, DataFor
        <3>4. QED
            BY <3>2, <3>3
    <2>3. SerialInv'
        BY <2>1, <2>2 DEF SerialInv
    <2>4. QED
        BY <1>1, <2>3
<1>3. CASE SerialNext
    <2>1. PICK d \in Devices :
            \/ session[d] = Idle /\ (User(d) \/ MediaCheck(d))
            \/ StartsUndisturbed(d)
            \/ Undisturbed(d) /\ (SyncStep(d) \/ ProcessUpload(d) \/ Fault(d))
        BY <1>3 DEF SerialNext
    <2>2. CASE session[d] = Idle /\ (User(d) \/ MediaCheck(d))
        BY <1>1, <2>2, UserSerial, MediaCheckSerial
    <2>3. CASE StartsUndisturbed(d)
        BY <1>1, <2>3, StartSyncSerial
    <2>4. CASE Undisturbed(d) /\ SyncStep(d)
        <3>1. CASE Begin(d) \/ Fetch(d) \/ Download(d) \/ RecordBatch(d)
            BY <1>1, <2>4, <3>1, BeginSerial, FetchSerial, DownloadSerial, RecordBatchSerial
        <3>2. CASE Upload(d) \/ UploadAnswered(d) \/ Finish(d) \/ ForceResync(d)
            BY <1>1, <2>4, <3>2, UploadSerial, UploadAnsweredSerial, FinishSerial,
               ForceResyncSerial
        <3>3. QED
            BY <2>4, <3>1, <3>2 DEF SyncStep
    <2>5. CASE Undisturbed(d) /\ ProcessUpload(d)
        BY <1>1, <2>5, ProcessUploadSerial
    <2>6. CASE Undisturbed(d) /\ Fault(d)
        BY <1>1, <2>6, AbortSerial, UploadFailsSerial DEF Fault
    <2>7. QED
        BY <2>1, <2>2, <2>3, <2>4, <2>5, <2>6
<1>4. QED
    BY <1>1, <1>2, <1>3

(* When syncs come one after the other and files do not change unnoticed,  *)
(* what a device has learnt at each point of a sync (SerialInv) holds      *)
(* there, for any devices, files, page and zip sizes, edits and faults.    *)
THEOREM SerialInvariant ==
    ASSUME Plain
    PROVE  SerialSpec => [](MediaInv /\ SerialInv)
<1>1. Init => MediaInv /\ SerialInv
    BY InitGood, InitSerial
<1>2. MediaInv /\ SerialInv /\ [SerialNext]_vars => (MediaInv /\ SerialInv)'
    BY SerialKeeps
<1>3. QED
    BY <1>1, <1>2, PTL DEF SerialSpec

(* A file that a device has as clean, and that the server has not changed  *)
(* since the usn the device is synced to, is the same on both, unless a    *)
(* fault tore it.                                                          *)
THEOREM CleanIsSynced ==
    ASSUME Plain
    PROVE  SerialSpec => []CleanMeansSynced
<1>1. SerialInv => CleanMeansSynced
    BY DEF SerialInv, RowsGood, CleanMeansSynced, Settled, Differs
<1>2. QED
    BY <1>1, SerialInvariant, PTL

(* As long as nothing has gone wrong, the sanity check at the end of a     *)
(* sync passes, and no device starts over.                                 *)
THEOREM SanityCheckPasses ==
    ASSUME Plain
    PROVE  SerialSpec => []SanityPasses
<1>1. SerialInv => SanityPasses
    BY DEF SerialInv, NoFaults, SanityPasses
<1>2. QED
    BY <1>1, SerialInvariant, PTL
=============================================================================
