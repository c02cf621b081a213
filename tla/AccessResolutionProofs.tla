----------------------- MODULE AccessResolutionProofs -----------------------
(* Safety of AccessCatalog, and of AccessResolution, which composes it with *)
(* the queries and their caches, for every value of their constants.       *)
EXTENDS AccessResolution, SequenceTheorems, FiniteSetTheorems,
        WellFoundedInduction, TLAPS

USE CatalogAssumption

-----------------------------------------------------------------------------
(* A stretch of changes of one group or policy. *)

(* The events s change x only: they put on all of the marks on, and take   *)
(* off all of the marks off.                                               *)
Piece(x, s, on, off) ==
  /\ s \in Seq(Event)
  /\ \A i \in DOMAIN s :
       s[i].of = x /\ s[i].kind = "changed" /\ s[i].on \subseteq on /\ s[i].off \subseteq off
  /\ \A m \in on \cup off : \E i \in DOMAIN s : Touches(s[i], x, m)

(* The least member of a set of naturals. *)
LEMMA Least ==
  ASSUME NEW S \in SUBSET Nat, S # {}
  PROVE  \E x \in S : \A y \in S : ~ (y < x)
<1> DEFINE R == {ss \in Nat \X Nat : ss[1] < ss[2]}
<1>1. IsWellFoundedOn(R, Nat)
  BY NatLessThanWellFounded DEF OpToRel
<1>2. \E x \in S : \A y \in S : ~ (<<y, x>> \in R)
  <2> HIDE DEF R
  <2> QED BY <1>1, WFMin
<1>3. \A x, y \in S : y < x => <<y, x>> \in R
  OBVIOUS
<1> QED BY <1>2, <1>3

LEMMA OrderSize ==
  ASSUME NEW S \in SUBSET Marks
  PROVE  Cardinality(S) \in Nat
BY FS_Subset, FS_CardinalityType

LEMMA EmptyPiece ==
  ASSUME NEW x \in Things
  PROVE  Piece(x, << >>, {}, {})
BY DEF Piece

(* Two stretches, one after the other. *)
LEMMA JoinPieces ==
  ASSUME NEW x \in Things, NEW r, NEW s, NEW on1, NEW off1, NEW on2, NEW off2,
         Piece(x, r, on1, off1), Piece(x, s, on2, off2)
  PROVE  Piece(x, r \o s, on1 \cup on2, off1 \cup off2)
<1>1. r \in Seq(Event) /\ s \in Seq(Event)
  BY DEF Piece
<1>2. /\ r \o s \in Seq(Event)
      /\ DOMAIN (r \o s) = 1 .. Len(r) + Len(s)
      /\ \A i \in DOMAIN r : i \in DOMAIN (r \o s) /\ (r \o s)[i] = r[i]
      /\ \A i \in DOMAIN s : Len(r) + i \in DOMAIN (r \o s) /\ (r \o s)[Len(r) + i] = s[i]
      /\ \A i \in DOMAIN (r \o s) :
           \/ i \in DOMAIN r /\ (r \o s)[i] = r[i]
           \/ i - Len(r) \in DOMAIN s /\ (r \o s)[i] = s[i - Len(r)]
  BY <1>1, ConcatProperties
<1>3. \A i \in DOMAIN (r \o s) :
        /\ (r \o s)[i].of = x /\ (r \o s)[i].kind = "changed"
        /\ (r \o s)[i].on \subseteq on1 \cup on2 /\ (r \o s)[i].off \subseteq off1 \cup off2
  BY <1>2 DEF Piece
<1>4. ASSUME NEW m \in (on1 \cup on2) \cup (off1 \cup off2)
      PROVE  \E i \in DOMAIN (r \o s) : Touches((r \o s)[i], x, m)
  <2>1. CASE m \in on1 \cup off1
    <3>1. PICK i \in DOMAIN r : Touches(r[i], x, m)
      BY <2>1 DEF Piece
    <3> QED BY <3>1, <1>2
  <2>2. CASE m \in on2 \cup off2
    <3>1. PICK i \in DOMAIN s : Touches(s[i], x, m)
      BY <2>2 DEF Piece
    <3> QED BY <3>1, <1>2
  <2> QED BY <2>1, <2>2
<1> QED BY <1>2, <1>3, <1>4 DEF Piece

(* One change. *)
LEMMA OneChange ==
  ASSUME NEW x \in Things, NEW on \in SUBSET Marks, NEW off \in SUBSET Marks
  PROVE  Piece(x, <<Changed(x, on, off)>>, on, off)
BY DEF Piece, Changed, Event, Touches

(* A set of marks put on, or taken off, one by one. *)
LEMMA PutPiece ==
  ASSUME NEW x \in Things, NEW S \in SUBSET Marks, NEW f \in Orders(S)
  PROVE  Piece(x, Putting(x, f), S, {})
<1>1. /\ Cardinality(S) \in Nat
      /\ DOMAIN f = 1 .. Cardinality(S)
      /\ \A i \in DOMAIN f : f[i] \in S
      /\ \A m \in S : \E i \in DOMAIN f : f[i] = m
  BY OrderSize DEF Orders
<1>2. /\ DOMAIN Putting(x, f) = DOMAIN f
      /\ \A i \in DOMAIN f : Putting(x, f)[i] = Changed(x, {f[i]}, {})
  BY DEF Putting
<1>3. Putting(x, f) \in Seq(Event)
  <2>1. \A i \in DOMAIN f : Changed(x, {f[i]}, {}) \in Event
    BY <1>1 DEF Changed, Event
  <2>2. Putting(x, f) \in [1 .. Cardinality(S) -> Event]
    BY <1>1, <2>1 DEF Putting
  <2> QED BY <1>1, <2>2
<1> QED BY <1>1, <1>2, <1>3 DEF Piece, Changed, Touches

LEMMA TakePiece ==
  ASSUME NEW x \in Things, NEW S \in SUBSET Marks, NEW f \in Orders(S)
  PROVE  Piece(x, Taking(x, f), {}, S)
<1>1. /\ Cardinality(S) \in Nat
      /\ DOMAIN f = 1 .. Cardinality(S)
      /\ \A i \in DOMAIN f : f[i] \in S
      /\ \A m \in S : \E i \in DOMAIN f : f[i] = m
  BY OrderSize DEF Orders
<1>2. /\ DOMAIN Taking(x, f) = DOMAIN f
      /\ \A i \in DOMAIN f : Taking(x, f)[i] = Changed(x, {}, {f[i]})
  BY DEF Taking
<1>3. Taking(x, f) \in Seq(Event)
  <2>1. \A i \in DOMAIN f : Changed(x, {}, {f[i]}) \in Event
    BY <1>1 DEF Changed, Event
  <2>2. Taking(x, f) \in [1 .. Cardinality(S) -> Event]
    BY <1>1, <2>1 DEF Taking
  <2> QED BY <1>1, <2>2
<1> QED BY <1>1, <1>2, <1>3 DEF Piece, Changed, Touches

(* What a sync command appends: the unwanted marks go, the missing come. *)
LEMMA DiffPiece ==
  ASSUME NEW x \in Things, NEW all \in SUBSET Marks, NEW wanted \in SUBSET Marks,
         write \in [Things -> SUBSET Marks], NEW s \in Diff(x, all, wanted)
  PROVE  Piece(x, s, wanted \ write[x], (write[x] \cap all) \ wanted)
<1> DEFINE off == (write[x] \cap all) \ wanted
           on == wanted \ write[x]
<1>1. PICK f \in Orders(off), h \in Orders(on) : s = Taking(x, f) \o Putting(x, h)
  BY DEF Diff
<1>2. Piece(x, Taking(x, f), {}, off) /\ Piece(x, Putting(x, h), on, {})
  BY TakePiece, PutPiece
<1>3. Piece(x, Taking(x, f) \o Putting(x, h), {} \cup on, off \cup {})
  BY <1>2, JoinPieces
<1> QED BY <1>1, <1>3

LEMMA ReplacingPiece ==
  ASSUME NEW x \in Things, NEW all \in SUBSET Marks, NEW wanted \in SUBSET all
  PROVE  \/ Piece(x, Replacing(x, all, wanted), wanted, all \ wanted)
         \/ /\ Piece(x, Replacing(x, all, wanted), {}, {})
            /\ write[x] \cap all = wanted
BY EmptyPiece, OneChange DEF Replacing

-----------------------------------------------------------------------------
(* Appending to the log. *)

Consistent(x) == LastWord(x) /\ CreatedFirst(x)

(* The log grows by s, and nothing has been projected.                     *)
Appended(s) ==
  /\ s \in Seq(Event)
  /\ log' = log \o s
  /\ UNCHANGED <<gone, projectorVars>>

LEMMA AppendedIndices ==
  ASSUME CatalogTypeOK, NEW s, Appended(s)
  PROVE  /\ log' \in Seq(Event)
         /\ Len(log') = Len(log) + Len(s)
         /\ Len(log) \in Nat /\ Len(s) \in Nat
         /\ DOMAIN log = 1 .. Len(log) /\ DOMAIN log' = 1 .. Len(log) + Len(s)
         /\ \A i \in DOMAIN log : i \in DOMAIN log' /\ log'[i] = log[i]
         /\ \A i \in DOMAIN s :
              /\ Len(log) + i \in DOMAIN log' /\ Len(log) + i \notin DOMAIN log
              /\ log'[Len(log) + i] = s[i]
         /\ \A i \in DOMAIN log' : i \notin DOMAIN log =>
              /\ ~(i <= done) /\ \A j \in DOMAIN log : i > j
              /\ i - Len(log) \in DOMAIN s /\ log'[i] = s[i - Len(log)]
<1>1. log \in Seq(Event) /\ s \in Seq(Event) /\ done \in 0 .. Len(log)
  BY DEF CatalogTypeOK, Appended
<1> QED BY <1>1, ConcatProperties DEF Appended

LEMMA AppendedTypes ==
  ASSUME CatalogTypeOK, NEW s, Appended(s), NEW x \in Things,
         NEW marks \in SUBSET Marks, write' = [write EXCEPT ![x] = marks],
         deleted' \in {deleted, deleted \cup {x}}
  PROVE  CatalogTypeOK'
<1>1. /\ log' \in Seq(Event) /\ Len(log') = Len(log) + Len(s)
      /\ Len(log) \in Nat /\ Len(s) \in Nat
  BY AppendedIndices
<1> QED BY <1>1 DEF CatalogTypeOK, Appended, projectorVars

(* The others are as they were.                                            *)
LEMMA OthersKept ==
  ASSUME CatalogTypeOK, NEW s, Appended(s), NEW x \in Things,
         \A i \in DOMAIN s : s[i].of = x,
         NEW z \in Things, z # x, write'[z] = write[z], Consistent(z)
  PROVE  Consistent(z)'
<1>1. read'[z] = read[z] /\ done' = done /\ done <= Len(log) /\ done \in Nat
  BY DEF Appended, projectorVars, CatalogTypeOK
<1>2. /\ DOMAIN log = 1 .. Len(log)
      /\ \A i \in DOMAIN log : i \in DOMAIN log' /\ log'[i] = log[i]
      /\ \A i \in DOMAIN log' : i \notin DOMAIN log => log'[i].of # z
  BY AppendedIndices
<1>3. \A m, i : LastTouch(i, z, m)' => LastTouch(i, z, m)
  BY <1>2 DEF LastTouch, Touches
<1>4. \A m : (\A i \in DOMAIN log' : ~Touches(log'[i], z, m))
               => \A i \in DOMAIN log : ~Touches(log[i], z, m)
  BY <1>2
<1>5. LastWord(z)'
  <2>1. ASSUME NEW m \in Marks, NEW i \in DOMAIN log', LastTouch(i, z, m)'
        PROVE  /\ m \in log'[i].on <=> m \in write'[z]
               /\ i <= done' \/ (log'[i].kind = "created" /\ Exists \in read'[z])
                    => (m \in read'[z] <=> m \in write'[z])
    <3>1. LastTouch(i, z, m) /\ i \in DOMAIN log /\ log'[i] = log[i]
      BY <2>1, <1>3, <1>2 DEF LastTouch
    <3> QED BY <3>1, <1>1 DEF Consistent, LastWord
  <2>2. ASSUME NEW m \in Marks, \A i \in DOMAIN log' : ~Touches(log'[i], z, m)
        PROVE  m \in read'[z] <=> m \in write'[z]
    BY <2>2, <1>4, <1>1 DEF Consistent, LastWord
  <2> QED BY <2>1, <2>2 DEF LastWord
<1>6. CreatedFirst(z)'
  BY <1>1, <1>2 DEF Consistent, CreatedFirst
<1> QED BY <1>5, <1>6 DEF Consistent

(* A stretch of changes of a live group or policy.                         *)
LEMMA ChangesKept ==
  ASSUME CatalogTypeOK, NEW x \in Things, Consistent(x), Exists \in write[x],
         NEW s, NEW on, NEW off, Piece(x, s, on, off), Appended(s),
         Exists \notin on \cup off, on \cap off = {},
         write'[x] = (write[x] \ off) \cup on
  PROVE  Consistent(x)'
<1>1. read'[x] = read[x] /\ done' = done /\ done <= Len(log) /\ done \in Nat
  BY DEF Appended, projectorVars, CatalogTypeOK
<1>2. /\ DOMAIN log = 1 .. Len(log) /\ Len(log) \in Nat
      /\ \A i \in DOMAIN log : i \in DOMAIN log' /\ log'[i] = log[i]
      /\ \A i \in DOMAIN s :
           /\ Len(log) + i \in DOMAIN log' /\ Len(log) + i \notin DOMAIN log
           /\ log'[Len(log) + i] = s[i]
      /\ \A i \in DOMAIN log' : i \notin DOMAIN log =>
              /\ ~(i <= done) /\ \A j \in DOMAIN log : i > j
              /\ i - Len(log) \in DOMAIN s /\ log'[i] = s[i - Len(log)]
  BY AppendedIndices
<1>3. \A i \in DOMAIN log' : i \notin DOMAIN log =>
        /\ ~(i <= done) /\ \A j \in DOMAIN log : i > j
        /\ log'[i].of = x /\ log'[i].kind = "changed"
        /\ log'[i].on \subseteq on /\ log'[i].off \subseteq off
  BY <1>2 DEF Piece
<1>4. \A m \in on \cup off : \E i \in DOMAIN log' \ DOMAIN log : Touches(log'[i], x, m)
  <2>1. ASSUME NEW m \in on \cup off
        PROVE  \E i \in DOMAIN log' \ DOMAIN log : Touches(log'[i], x, m)
    <3>1. PICK i \in DOMAIN s : Touches(s[i], x, m)
      BY DEF Piece
    <3> QED BY <3>1, <1>2
  <2> QED BY <2>1
<1>5. LastWord(x)'
  <2>1. ASSUME NEW m \in Marks, NEW i \in DOMAIN log', LastTouch(i, x, m)'
        PROVE  /\ m \in log'[i].on <=> m \in write'[x]
               /\ i <= done' \/ (log'[i].kind = "created" /\ Exists \in read'[x])
                    => (m \in read'[x] <=> m \in write'[x])
    <3>1. CASE i \in DOMAIN log
      <4>1. m \notin on \cup off
        <5>1. \A j \in DOMAIN log' \ DOMAIN log : j > i
          BY <3>1, <1>2, <1>3
        <5> QED BY <5>1, <2>1, <1>4 DEF LastTouch
      <4>2. LastTouch(i, x, m)
        BY <2>1, <3>1, <1>2 DEF LastTouch
      <4> QED BY <3>1, <4>1, <4>2, <1>1, <1>2 DEF Consistent, LastWord
    <3>2. CASE i \notin DOMAIN log
      <4>1. m \in log'[i].on \cup log'[i].off
        BY <2>1 DEF LastTouch, Touches
      <4>2. m \in log'[i].on <=> m \in write'[x]
        BY <4>1, <3>2, <1>3
      <4>3. ~(i <= done') /\ log'[i].kind # "created"
        BY <3>2, <1>3, <1>1, <1>2
      <4> QED BY <4>2, <4>3
    <3> QED BY <3>1, <3>2
  <2>2. ASSUME NEW m \in Marks, \A i \in DOMAIN log' : ~Touches(log'[i], x, m)
        PROVE  m \in read'[x] <=> m \in write'[x]
    <3>1. m \notin on \cup off
      BY <2>2, <1>4
    <3>2. \A i \in DOMAIN log : ~Touches(log[i], x, m)
      BY <2>2, <1>2
    <3> QED BY <3>1, <3>2, <1>1 DEF Consistent, LastWord
  <2> QED BY <2>1, <2>2 DEF LastWord
<1>6. CreatedFirst(x)'
  <2>1. ASSUME NEW i \in DOMAIN log', log'[i].of = x
        PROVE  /\ log'[i].kind # "deleted"
               /\ log'[i].kind = "changed" => Exists \notin log'[i].on \cup log'[i].off
               /\ log'[i].kind = "created" =>
                    /\ Exists \in log'[i].on /\ log'[i].off = {}
                    /\ \A j \in DOMAIN log' : log'[j].of = x /\ j # i =>
                         j > i /\ log'[j].kind = "changed"
    <3>1. CASE i \in DOMAIN log
      <4>1. \A j \in DOMAIN log' \ DOMAIN log : j > i /\ log'[j].kind = "changed"
        BY <3>1, <1>2, <1>3
      <4> QED BY <4>1, <3>1, <2>1, <1>2 DEF Consistent, CreatedFirst
    <3>2. CASE i \notin DOMAIN log
      BY <3>2, <1>3
    <3> QED BY <3>1, <3>2
  <2>2. Exists \in write'[x]
    OBVIOUS
  <2>3. {Exists} \subseteq read'[x] \cap write'[x] \/ read'[x] = {}
    BY <2>2, <1>1 DEF Consistent, CreatedFirst
  <2> QED BY <2>1, <2>2, <2>3 DEF CreatedFirst
<1> QED BY <1>5, <1>6 DEF Consistent

(* A creation, and what is put on with it.                                 *)
LEMMA CreationKept ==
  ASSUME CatalogTypeOK, NEW x \in Things, Consistent(x), Exists \notin write[x],
         NEW M \in SUBSET Marks, NEW p, NEW on, Piece(x, p, on, {}), Exists \notin on,
         Appended(<<Created(x, M)>> \o p),
         write'[x] = {Exists, Active} \cup M \cup on
  PROVE  Consistent(x)'
<1> DEFINE s == <<Created(x, M)>> \o p
           n == Len(log) + 1
<1>1. /\ write[x] = {} /\ read[x] = {} /\ read'[x] = {} /\ done' = done
      /\ \A i \in DOMAIN log : log[i].of # x
  BY DEF Consistent, CreatedFirst, Appended, projectorVars
<1>2. /\ Created(x, M) \in Event
      /\ Created(x, M).of = x /\ Created(x, M).kind = "created"
      /\ Created(x, M).on = {Exists, Active} \cup M /\ Created(x, M).off = {}
  BY DEF Created, Event, Marks
<1>3. /\ p \in Seq(Event)
      /\ DOMAIN s = 1 .. 1 + Len(p) /\ Len(p) \in Nat /\ DOMAIN p = 1 .. Len(p)
      /\ s[1] = Created(x, M)
      /\ \A i \in DOMAIN s : i # 1 => i - 1 \in DOMAIN p /\ s[i] = p[i - 1]
      /\ \A i \in DOMAIN p : i + 1 \in DOMAIN s /\ s[i + 1] = p[i]
  <2>1. p \in Seq(Event) /\ <<Created(x, M)>> \in Seq(Event)
    BY <1>2 DEF Piece
  <2> QED BY <2>1, ConcatProperties
<1>4. /\ DOMAIN log = 1 .. Len(log) /\ Len(log) \in Nat
      /\ \A i \in DOMAIN log : i \in DOMAIN log' /\ log'[i] = log[i]
      /\ \A i \in DOMAIN s :
           /\ Len(log) + i \in DOMAIN log' /\ Len(log) + i \notin DOMAIN log
           /\ log'[Len(log) + i] = s[i]
      /\ \A i \in DOMAIN log' : i \notin DOMAIN log =>
              /\ ~(i <= done) /\ \A j \in DOMAIN log : i > j
              /\ i - Len(log) \in DOMAIN s /\ log'[i] = s[i - Len(log)]
      /\ DOMAIN log' \subseteq Nat
  <2>1. Appended(s)
    OBVIOUS
  <2> HIDE DEF s
  <2> QED BY <2>1, AppendedIndices
<1>5. n \in DOMAIN log' /\ log'[n] = Created(x, M) /\ ~(n <= done)
  BY <1>3, <1>4
<1>6. ASSUME NEW i \in DOMAIN log', log'[i].of = x, i # n
      PROVE  /\ i > n /\ ~(i <= done)
             /\ log'[i].kind = "changed" /\ log'[i].on \subseteq on /\ log'[i].off = {}
  <2>1. i \notin DOMAIN log
    BY <1>6, <1>4, <1>1
  <2>2. i - Len(log) \in DOMAIN s /\ log'[i] = s[i - Len(log)] /\ ~(i <= done)
    BY <2>1, <1>4
  <2>3. i - Len(log) # 1 /\ i - Len(log) > 1
    BY <1>6, <2>2, <1>3, <1>4
  <2>4. (i - Len(log)) - 1 \in DOMAIN p /\ log'[i] = p[(i - Len(log)) - 1]
    BY <2>2, <2>3, <1>3
  <2> QED BY <2>2, <2>3, <2>4, <1>4 DEF Piece
<1>7. \A m \in write'[x] : \E i \in DOMAIN log' : Touches(log'[i], x, m)
  <2>1. ASSUME NEW m \in on
        PROVE  \E i \in DOMAIN log' : Touches(log'[i], x, m)
    <3>1. PICK i \in DOMAIN p : Touches(p[i], x, m)
      BY DEF Piece
    <3>2. i + 1 \in DOMAIN s /\ s[i + 1] = p[i]
      BY <1>3
    <3> QED BY <3>1, <3>2, <1>4
  <2>2. ASSUME NEW m \in {Exists, Active} \cup M
        PROVE  \E i \in DOMAIN log' : Touches(log'[i], x, m)
    BY <1>5, <1>2 DEF Touches
  <2> QED BY <2>1, <2>2
<1> HIDE DEF s, n
<1>8. \A i \in DOMAIN log' : log'[i].of = x =>
        log'[i].off = {} /\ log'[i].on \subseteq write'[x] /\ ~(i <= done)
  BY <1>2, <1>5, <1>6
<1>9. LastWord(x)'
  <2>1. ASSUME NEW m \in Marks, NEW i \in DOMAIN log', LastTouch(i, x, m)'
        PROVE  /\ m \in log'[i].on <=> m \in write'[x]
               /\ i <= done' \/ (log'[i].kind = "created" /\ Exists \in read'[x])
                    => (m \in read'[x] <=> m \in write'[x])
    BY <2>1, <1>1, <1>8 DEF LastTouch, Touches
  <2>2. ASSUME NEW m \in Marks, \A i \in DOMAIN log' : ~Touches(log'[i], x, m)
        PROVE  m \in read'[x] <=> m \in write'[x]
    BY <2>2, <1>1, <1>7
  <2> QED BY <2>1, <2>2 DEF LastWord
<1>10. CreatedFirst(x)'
  <2>1. ASSUME NEW i \in DOMAIN log', log'[i].of = x
        PROVE  /\ Exists \in write'[x]
               /\ log'[i].kind # "deleted"
               /\ log'[i].kind = "changed" => Exists \notin log'[i].on \cup log'[i].off
               /\ log'[i].kind = "created" =>
                    /\ Exists \in log'[i].on /\ log'[i].off = {}
                    /\ \A j \in DOMAIN log' : log'[j].of = x /\ j # i =>
                         j > i /\ log'[j].kind = "changed"
    <3>1. CASE i = n
      BY <3>1, <1>2, <1>5, <1>6
    <3>2. CASE i # n
      BY <3>2, <2>1, <1>6
    <3> QED BY <3>1, <3>2
  <2> QED BY <2>1, <1>1 DEF CreatedFirst
<1> QED BY <1>9, <1>10 DEF Consistent

-----------------------------------------------------------------------------
(* The commands. *)

LEMMA AllMarks ==
  /\ SelectorMarks \subseteq GroupMarks /\ ListMarks \subseteq GroupMarks
  /\ ExclusionMarks \subseteq GroupMarks
  /\ GroupMarks \subseteq Marks /\ GrantMarks \subseteq Marks /\ CoverMarks \subseteq Marks
  /\ Exists \in Marks /\ Active \in Marks /\ Active # Exists
  /\ \A m \in GroupMarks \cup GrantMarks \cup CoverMarks : m # Exists /\ m # Active
  /\ \A m \in ListMarks : m \notin ExclusionMarks
  /\ \A m \in GrantMarks : m \notin CoverMarks
BY DEF SelectorMarks, ListMarks, ExclusionMarks, GroupMarks, GrantMarks, CoverMarks,
       Marks, Exists, Active, Selects, Lists, Excludes, Grants, Covers

(* A command that changes x alone keeps the invariant when it does for x.  *)
LEMMA CommitKeeps ==
  ASSUME CatalogIInv, NEW x \in Things, NEW s \in Seq(Event),
         \A i \in DOMAIN s : s[i].of = x,
         NEW marks \in SUBSET Marks, Commit(x, s, marks),
         deleted' \in {deleted, deleted \cup {x}},
         x \notin deleted' => Consistent(x)'
  PROVE  CatalogIInv'
<1>1. CatalogTypeOK /\ Appended(s) /\ write' = [write EXCEPT ![x] = marks]
  BY DEF CatalogIInv, Commit, Appended
<1>2. CatalogTypeOK'
  BY <1>1, AppendedTypes
<1>3. ASSUME NEW z \in Things \ deleted', z # x
      PROVE  Consistent(z)'
  <2>1. Consistent(z) /\ write'[z] = write[z]
    BY <1>1, <1>3 DEF CatalogIInv, Consistent, CatalogTypeOK
  <2> QED BY <2>1, <1>1, <1>3, OthersKept
<1>4. \A z \in Things \ deleted' : Consistent(z)'
  BY <1>3
<1> QED BY <1>2, <1>4 DEF CatalogIInv, Consistent

LEMMA ChangeKeeps ==
  ASSUME CatalogIInv, NEW x \in Things, Live(x), UNCHANGED deleted,
         NEW s, NEW on \in SUBSET Marks, NEW off \in SUBSET Marks, Piece(x, s, on, off),
         Exists \notin on \cup off, on \cap off = {},
         NEW marks, marks = (write[x] \ off) \cup on, Commit(x, s, marks)
  PROVE  CatalogIInv'
<1>1. /\ CatalogTypeOK /\ Appended(s) /\ marks \in SUBSET Marks
      /\ write'[x] = (write[x] \ off) \cup on
      /\ s \in Seq(Event) /\ \A i \in DOMAIN s : s[i].of = x
  BY DEF CatalogIInv, CatalogTypeOK, Commit, Appended, Piece
<1>2. Exists \in write[x]
  BY DEF Live
<1>3. x \notin deleted => Consistent(x)'
  BY <1>1, <1>2, ChangesKept DEF CatalogIInv, Consistent
<1> QED BY <1>1, <1>3, CommitKeeps

LEMMA CreationKeeps ==
  ASSUME CatalogIInv, NEW x \in Things, Exists \notin write[x], UNCHANGED deleted,
         NEW M \in SUBSET Marks, NEW p, NEW on \in SUBSET Marks, Piece(x, p, on, {}),
         Exists \notin on, NEW marks, marks = {Exists, Active} \cup M \cup on,
         Commit(x, <<Created(x, M)>> \o p, marks)
  PROVE  CatalogIInv'
<1> DEFINE s == <<Created(x, M)>> \o p
<1>1. /\ CatalogTypeOK /\ marks \in SUBSET Marks
      /\ write'[x] = {Exists, Active} \cup M \cup on
  BY AllMarks DEF CatalogIInv, CatalogTypeOK, Commit
<1>2. <<Created(x, M)>> \in Seq(Event) /\ p \in Seq(Event)
  BY AllMarks DEF Created, Event, Piece
<1>3. s \in Seq(Event) /\ \A i \in DOMAIN s : s[i].of = x
  <2>1. /\ s \in Seq(Event) /\ Len(<<Created(x, M)>>) = 1
        /\ \A i \in DOMAIN s :
             \/ i \in DOMAIN <<Created(x, M)>> /\ s[i] = <<Created(x, M)>>[i]
             \/ i - 1 \in DOMAIN p /\ s[i] = p[i - 1]
    BY <1>2, ConcatProperties
  <2>2. \A i \in DOMAIN <<Created(x, M)>> : <<Created(x, M)>>[i].of = x
    BY DEF Created
  <2> HIDE DEF s
  <2> QED BY <2>1, <2>2 DEF Piece
<1>4. Appended(s)
  BY <1>3 DEF Commit, Appended
<1>5. x \notin deleted => Consistent(x)'
  BY <1>1, <1>4, CreationKept DEF CatalogIInv, Consistent
<1> QED BY <1>1, <1>3, <1>5, CommitKeeps

LEMMA StatusKeeps ==
  ASSUME CatalogIInv, NEW x \in Things, Activate(x) \/ Deactivate(x) \/ Delete(x)
  PROVE  CatalogIInv'
<1> USE AllMarks
<1>t. write \in [Things -> SUBSET Marks] /\ write[x] \subseteq Marks
  BY DEF CatalogIInv, CatalogTypeOK
<1>1. CASE Activate(x)
  <2>1. /\ Live(x) /\ UNCHANGED deleted
        /\ Commit(x, <<Changed(x, {Active}, {})>>, write[x] \cup {Active})
    BY <1>1 DEF Activate
  <2>2. Piece(x, <<Changed(x, {Active}, {})>>, {Active}, {})
    BY OneChange
  <2>3. write[x] \cup {Active} = (write[x] \ {}) \cup {Active}
    OBVIOUS
  <2> QED BY <2>1, <2>2, <2>3, ChangeKeeps
<1>2. CASE Deactivate(x)
  <2>1. /\ Live(x) /\ UNCHANGED deleted
        /\ Commit(x, <<Changed(x, {}, {Active})>>, write[x] \ {Active})
    BY <1>2 DEF Deactivate
  <2>2. Piece(x, <<Changed(x, {}, {Active})>>, {}, {Active})
    BY OneChange
  <2>3. write[x] \ {Active} = (write[x] \ {Active}) \cup {}
    OBVIOUS
  <2> QED BY <2>1, <2>2, <2>3, ChangeKeeps
<1>3. CASE Delete(x)
  <2>1. Commit(x, <<Deleted(x)>>, write[x] \ {Active}) /\ deleted' = deleted \cup {x}
    BY <1>3 DEF Delete
  <2>2. /\ <<Deleted(x)>> \in Seq(Event)
        /\ \A i \in DOMAIN <<Deleted(x)>> : <<Deleted(x)>>[i].of = x
    BY DEF Deleted, Event
  <2>3. write[x] \ {Active} \in SUBSET Marks
    BY <1>t
  <2> QED BY <2>1, <2>2, <2>3, CommitKeeps
<1> QED BY <1>1, <1>2, <1>3

LEMMA GroupCommandKeeps ==
  ASSUME CatalogIInv, NEW g \in Groups, GroupCommand(g)
  PROVE  CatalogIInv'
<1> USE AllMarks
<1>t. g \in Things /\ write \in [Things -> SUBSET Marks] /\ write[g] \subseteq Marks
  BY DEF Things, CatalogIInv, CatalogTypeOK
<1>1. ASSUME NEW selectors \in SUBSET SelectorMarks, NEW listed \in SUBSET ListMarks,
             NEW excluded \in SUBSET ExclusionMarks,
             CreateGroup(g, selectors, listed, excluded)
      PROVE  CatalogIInv'
  <2> DEFINE on == selectors \cup listed \cup excluded
             marks == {Exists, Active} \cup selectors \cup listed \cup excluded
  <2>1. PICK a \in Orders(selectors), b \in Orders(listed), c \in Orders(excluded) :
          Commit(g, <<Created(g, {})>>
                      \o (Putting(g, a) \o Putting(g, b) \o Putting(g, c)), marks)
    BY <1>1 DEF CreateGroup
  <2>2. /\ Piece(g, Putting(g, a), selectors, {}) /\ Piece(g, Putting(g, b), listed, {})
        /\ Piece(g, Putting(g, c), excluded, {})
    BY <1>t, PutPiece
  <2>3. Piece(g, Putting(g, a) \o Putting(g, b), selectors \cup listed, {} \cup {})
    BY <1>t, <2>2, JoinPieces
  <2>4. Piece(g, Putting(g, a) \o Putting(g, b), selectors \cup listed, {})
    BY <2>3
  <2>5. Piece(g, Putting(g, a) \o Putting(g, b) \o Putting(g, c), on, {} \cup {})
    BY <1>t, <2>2, <2>4, JoinPieces
  <2>6. Piece(g, Putting(g, a) \o Putting(g, b) \o Putting(g, c), on, {})
    BY <2>5
  <2>7. /\ marks = {Exists, Active} \cup {} \cup on /\ on \in SUBSET Marks
        /\ Exists \notin on /\ Exists \notin write[g] /\ UNCHANGED deleted
    BY <1>1 DEF CreateGroup
  <2> HIDE DEF marks, on
  <2> QED BY <1>t, <2>1, <2>6, <2>7, CreationKeeps
<1>2. ASSUME NEW m \in GroupMarks, AddMember(g, m)
      PROVE  CatalogIInv'
  <2>1. /\ Live(g) /\ UNCHANGED deleted
        /\ Commit(g, <<Changed(g, {m}, {})>>, write[g] \cup {m})
    BY <1>2 DEF AddMember
  <2>2. Piece(g, <<Changed(g, {m}, {})>>, {m}, {})
    BY <1>t, OneChange
  <2>3. write[g] \cup {m} = (write[g] \ {}) \cup {m}
    OBVIOUS
  <2> QED BY <1>t, <2>1, <2>2, <2>3, ChangeKeeps
<1>3. ASSUME NEW m \in GroupMarks, RemoveMember(g, m)
      PROVE  CatalogIInv'
  <2>1. /\ Live(g) /\ UNCHANGED deleted
        /\ Commit(g, <<Changed(g, {}, {m})>>, write[g] \ {m})
    BY <1>3 DEF RemoveMember
  <2>2. Piece(g, <<Changed(g, {}, {m})>>, {}, {m})
    BY <1>t, OneChange
  <2>3. write[g] \ {m} = (write[g] \ {m}) \cup {}
    OBVIOUS
  <2> QED BY <1>t, <2>1, <2>2, <2>3, ChangeKeeps
<1>4. ASSUME NEW wanted \in SUBSET SelectorMarks, SyncSelectors(g, wanted)
      PROVE  CatalogIInv'
  <2> DEFINE on == wanted \ write[g]
             off == (write[g] \cap SelectorMarks) \ wanted
             marks == (write[g] \ SelectorMarks) \cup wanted
  <2>1. PICK s \in Diff(g, SelectorMarks, wanted) : Commit(g, s, marks)
    BY <1>4 DEF SyncSelectors
  <2>2. Piece(g, s, on, off)
    BY <1>t, DiffPiece
  <2>3. /\ marks = (write[g] \ off) \cup on /\ on \in SUBSET Marks /\ off \in SUBSET Marks
        /\ Exists \notin on \cup off /\ on \cap off = {}
    BY <1>t
  <2>4. Live(g) /\ UNCHANGED deleted
    BY <1>4 DEF SyncSelectors
  <2> HIDE DEF on, off, marks
  <2> QED BY <1>t, <2>1, <2>2, <2>3, <2>4, ChangeKeeps
<1>5. ASSUME NEW listed \in SUBSET ListMarks, NEW excluded \in SUBSET ExclusionMarks,
             SyncTools(g, listed, excluded)
      PROVE  CatalogIInv'
  <2> DEFINE on1 == listed \ write[g]
             off1 == (write[g] \cap ListMarks) \ listed
             on2 == excluded \ write[g]
             off2 == (write[g] \cap ExclusionMarks) \ excluded
             marks == (write[g] \ (ListMarks \cup ExclusionMarks)) \cup listed \cup excluded
  <2>1. PICK r \in Diff(g, ListMarks, listed), s \in Diff(g, ExclusionMarks, excluded) :
          Commit(g, r \o s, marks)
    BY <1>5 DEF SyncTools
  <2>2. Piece(g, r, on1, off1) /\ Piece(g, s, on2, off2)
    BY <1>t, DiffPiece
  <2>3. /\ marks = (write[g] \ (off1 \cup off2)) \cup (on1 \cup on2)
        /\ on1 \cup on2 \in SUBSET Marks /\ off1 \cup off2 \in SUBSET Marks
        /\ Exists \notin (on1 \cup on2) \cup (off1 \cup off2)
        /\ (on1 \cup on2) \cap (off1 \cup off2) = {}
    BY <1>t
  <2>4. Live(g) /\ UNCHANGED deleted
    BY <1>5 DEF SyncTools
  <2> HIDE DEF on1, off1, on2, off2, marks
  <2>5. Piece(g, r \o s, on1 \cup on2, off1 \cup off2)
    BY <1>t, <2>2, JoinPieces
  <2> QED BY <1>t, <2>1, <2>3, <2>4, <2>5, ChangeKeeps
<1> QED
  <2> USE DEF SelectorMarks, ListMarks, ExclusionMarks, GroupMarks
  <2>1. ASSUME NEW s \in Selectors, AddSelector(g, s) \/ RemoveSelector(g, s)
        PROVE  CatalogIInv'
    BY <2>1, <1>2, <1>3 DEF AddSelector, RemoveSelector
  <2>2. ASSUME NEW t \in Tools,
               \/ AddExplicitTool(g, t) \/ RemoveExplicitTool(g, t)
               \/ ExcludeTool(g, t) \/ IncludeTool(g, t)
        PROVE  CatalogIInv'
    <3>1. Lists(t) \in GroupMarks /\ Excludes(t) \in GroupMarks
      OBVIOUS
    <3> QED BY <2>2, <3>1, <1>2, <1>3
            DEF AddExplicitTool, RemoveExplicitTool, ExcludeTool, IncludeTool
  <2> QED BY <1>1, <1>4, <1>5, <2>1, <2>2, StatusKeeps, <1>t
            DEF GroupCommand, ActivateGroup, DeactivateGroup, DeleteGroup

LEMMA PolicyCommandKeeps ==
  ASSUME CatalogIInv, NEW p \in Policies, PolicyCommand(p)
  PROVE  CatalogIInv'
<1> USE AllMarks
<1>t. p \in Things /\ write \in [Things -> SUBSET Marks] /\ write[p] \subseteq Marks
  BY DEF Things, CatalogIInv, CatalogTypeOK
<1>1. ASSUME NEW granted \in SUBSET GrantMarks, NEW covered \in SUBSET CoverMarks,
             DefinePolicy(p, granted, covered)
      PROVE  CatalogIInv'
  <2> DEFINE M == granted \cup covered
             marks == {Exists, Active} \cup granted \cup covered
  <2>1. /\ Exists \notin write[p] /\ UNCHANGED deleted /\ M \in SUBSET Marks
        /\ marks = {Exists, Active} \cup M \cup {}
        /\ Commit(p, <<Created(p, M)>>, marks)
    BY <1>1 DEF DefinePolicy
  <2> HIDE DEF M, marks
  <2>2. <<Created(p, M)>> \in Seq(Event)
    BY <1>t, <2>1 DEF Created, Event
  <2>3. <<Created(p, M)>> \o << >> = <<Created(p, M)>>
    BY <2>2, ConcatEmptySeq
  <2>4. Piece(p, << >>, {}, {})
    BY <1>t, EmptyPiece
  <2>5. Commit(p, <<Created(p, M)>> \o << >>, marks)
    BY <2>1, <2>3
  <2> QED BY <1>t, <2>1, <2>4, <2>5, CreationKeeps
<1>2. ASSUME NEW granted \in SUBSET GrantMarks, NEW covered \in SUBSET CoverMarks,
             UpdatePolicy(p, granted, covered)
      PROVE  CatalogIInv'
  <2> DEFINE r == Replacing(p, CoverMarks, covered)
             s == Replacing(p, GrantMarks, granted)
             marks == (write[p] \ (CoverMarks \cup GrantMarks)) \cup granted \cup covered
             Fits(all, wanted, on, off) ==
               /\ on \in SUBSET all /\ off \in SUBSET all /\ on \cap off = {}
               /\ ((write[p] \cap all) \ off) \cup on = wanted
  <2>1. Live(p) /\ UNCHANGED deleted /\ Commit(p, r \o s, marks)
    BY <1>2 DEF UpdatePolicy
  <2>2. \E on, off : Piece(p, r, on, off) /\ Fits(CoverMarks, covered, on, off)
    <3>1. CASE Piece(p, r, covered, CoverMarks \ covered)
      BY <3>1
    <3>2. CASE Piece(p, r, {}, {}) /\ write[p] \cap CoverMarks = covered
      BY <3>2
    <3> QED BY <1>t, <3>1, <3>2, ReplacingPiece
  <2>3. \E on, off : Piece(p, s, on, off) /\ Fits(GrantMarks, granted, on, off)
    <3>1. CASE Piece(p, s, granted, GrantMarks \ granted)
      BY <3>1
    <3>2. CASE Piece(p, s, {}, {}) /\ write[p] \cap GrantMarks = granted
      BY <3>2
    <3> QED BY <1>t, <3>1, <3>2, ReplacingPiece
  <2>4. PICK on1, off1 : Piece(p, r, on1, off1) /\ Fits(CoverMarks, covered, on1, off1)
    BY <2>2
  <2>5. PICK on2, off2 : Piece(p, s, on2, off2) /\ Fits(GrantMarks, granted, on2, off2)
    BY <2>3
  <2>6. /\ on1 \cup on2 \in SUBSET Marks /\ off1 \cup off2 \in SUBSET Marks
        /\ Exists \notin (on1 \cup on2) \cup (off1 \cup off2)
        /\ (on1 \cup on2) \cap (off1 \cup off2) = {}
    BY <2>4, <2>5
  <2>7. marks = (write[p] \ (off1 \cup off2)) \cup (on1 \cup on2)
    BY <1>t, <2>4, <2>5
  <2> HIDE DEF r, s, marks
  <2>8. Piece(p, r \o s, on1 \cup on2, off1 \cup off2)
    BY <1>t, <2>4, <2>5, JoinPieces
  <2> QED BY <1>t, <2>1, <2>6, <2>7, <2>8, ChangeKeeps
<1> QED BY <1>t, <1>1, <1>2, StatusKeeps
          DEF PolicyCommand, ActivatePolicy, DeactivatePolicy, DeletePolicy

-----------------------------------------------------------------------------
(* The projector. *)

(* A changed group or policy that is about to be projected has a DTO.      *)
LEMMA ChangedHasDto ==
  ASSUME CatalogTypeOK, NEW x \in Things, Consistent(x), NEW k \in DOMAIN log,
         log[k].of = x, log[k].kind = "changed", k = done + 1
  PROVE  Exists \in read[x]
<1>1. Exists \in write[x] /\ Exists \in Marks /\ DOMAIN log = 1 .. Len(log)
  BY AllMarks DEF Consistent, CreatedFirst, CatalogTypeOK
<1>2. CASE \A i \in DOMAIN log : ~Touches(log[i], x, Exists)
  BY <1>1, <1>2 DEF Consistent, LastWord
<1>3. CASE \E i \in DOMAIN log : Touches(log[i], x, Exists)
  <2>1. PICK i \in DOMAIN log : Touches(log[i], x, Exists)
    BY <1>3
  <2>2. log \in Seq(Event) /\ log[i] \in Event
    BY DEF CatalogTypeOK
  <2>3. log[i].kind = "created" /\ log[i].of = x
    BY <2>1, <2>2 DEF Consistent, CreatedFirst, Touches, Event
  <2>4. \A j \in DOMAIN log : log[j].of = x /\ j # i => j > i /\ log[j].kind = "changed"
    BY <2>3 DEF Consistent, CreatedFirst
  <2>5. LastTouch(i, x, Exists)
    <3>1. ASSUME NEW j \in DOMAIN log, j > i
          PROVE  ~Touches(log[j], x, Exists)
      <4>1. CASE log[j].of = x
        BY <1>1, <2>4, <3>1, <4>1 DEF Touches, Consistent, CreatedFirst
      <4> QED BY <4>1 DEF Touches
    <3> QED BY <2>1, <3>1 DEF LastTouch
  <2>6. k > i
    BY <2>3, <2>4
  <2>7. i <= done
    BY <2>6, <1>1 DEF CatalogTypeOK
  <2> QED BY <2>5, <2>7, <1>1 DEF Consistent, LastWord
<1> QED BY <1>2, <1>3

LEMMA ProjectKeeps ==
  ASSUME CatalogIInv, Project
  PROVE  CatalogIInv'
<1>0. /\ CatalogTypeOK /\ done + 1 \in DOMAIN log /\ log[done + 1] \in Event
      /\ DOMAIN log = 1 .. Len(log) /\ done \in Nat
  <2>1. log \in Seq(Event) /\ done \in 0 .. Len(log) /\ done < Len(log)
    BY DEF Project, CatalogIInv, CatalogTypeOK
  <2> QED BY <2>1 DEF CatalogIInv
<1>1. PICK k \in Nat, e \in Event, x \in Things :
        /\ k = done + 1 /\ k \in DOMAIN log /\ e = log[k] /\ e.of = x
        /\ done' = k
        /\ UNCHANGED <<streamVars, restarts>>
        /\ \/ read' = [read EXCEPT ![x] = Projected(read[x], e)]
           \/ x \in gone /\ UNCHANGED read
  <2>1. log[done + 1].of \in Things
    BY <1>0 DEF Event
  <2> QED BY <1>0, <2>1 DEF Project
<1>2. CatalogTypeOK'
  <2>1. Projected(read[x], e) \in SUBSET Marks
    <3>1. /\ read[x] \subseteq Marks /\ e.on \subseteq Marks
          /\ e.kind \in {"created", "changed", "deleted"}
      BY <1>0, <1>1 DEF CatalogTypeOK, Event
    <3> QED BY <3>1 DEF Projected, ProjectedCreation, ProjectedChange
  <2>2. read' \in [Things -> SUBSET Marks]
    BY <2>1, <1>0, <1>1 DEF CatalogTypeOK
  <2> QED BY <2>2, <1>0, <1>1 DEF CatalogTypeOK, streamVars
<1>3. UNCHANGED <<write, deleted, gone, log>>
  BY <1>0, <1>1 DEF streamVars
<1>4. ASSUME NEW z \in Things \ deleted, z # x
      PROVE  Consistent(z)'
  <2>1. Consistent(z) /\ read'[z] = read[z]
    BY <1>1, <1>4 DEF CatalogIInv, Consistent, CatalogTypeOK
  <2>2. LastWord(z)'
    <3>1. ASSUME NEW m \in Marks, NEW i \in DOMAIN log, LastTouch(i, z, m),
                 i <= done' \/ (log[i].kind = "created" /\ Exists \in read[z])
          PROVE  m \in read[z] <=> m \in write[z]
      <4>1. i # k
        BY <1>1, <1>4, <3>1 DEF LastTouch, Touches
      <4>2. i <= done \/ (log[i].kind = "created" /\ Exists \in read[z])
        BY <4>1, <3>1, <1>0, <1>0, <1>1
      <4> QED BY <4>2, <3>1, <2>1 DEF Consistent, LastWord
    <3>2. \A m, i : LastTouch(i, z, m)' <=> LastTouch(i, z, m)
      BY <1>3 DEF LastTouch
    <3> QED BY <3>1, <3>2, <2>1, <1>3 DEF Consistent, LastWord
  <2>3. CreatedFirst(z)'
    BY <2>1, <1>3 DEF Consistent, CreatedFirst
  <2> QED BY <2>2, <2>3 DEF Consistent
<1>5. ASSUME x \notin deleted
      PROVE  Consistent(x)'
  <2>1. /\ Consistent(x) /\ e.of = x /\ e = log[k]
        /\ read' = [read EXCEPT ![x] = Projected(read[x], e)]
    BY <1>1, <1>5 DEF CatalogIInv, Consistent, CatalogTypeOK
  <2>2. read'[x] = Projected(read[x], e)
    BY <2>1, <1>0, <1>1 DEF CatalogTypeOK
  <2>3. /\ Exists \in write[x] /\ e.kind \in {"created", "changed"}
        /\ e.kind = "changed" => Exists \notin e.on \cup e.off
        /\ e.kind = "created" =>
             /\ Exists \in e.on /\ e.off = {}
             /\ \A j \in DOMAIN log : log[j].of = x /\ j # k =>
                  j > k /\ log[j].kind = "changed"
    BY <2>1, <1>0, <1>1 DEF Consistent, CreatedFirst, Event
  <2>4. \A m, i : LastTouch(i, x, m)' <=> LastTouch(i, x, m)
    BY <1>3 DEF LastTouch
  <2>5. CASE e.kind = "created" /\ Exists \in read[x]
    <3>1. read'[x] = read[x]
      BY <2>2, <2>5 DEF Projected, ProjectedCreation
    <3>2. ASSUME NEW m \in Marks, NEW i \in DOMAIN log, LastTouch(i, x, m),
                 i <= done' \/ (log[i].kind = "created" /\ Exists \in read[x])
          PROVE  m \in read[x] <=> m \in write[x]
      <4>1. i <= done \/ (log[i].kind = "created" /\ Exists \in read[x])
        BY <3>2, <2>5, <2>1, <1>0, <1>0, <1>1
      <4> QED BY <4>1, <3>2, <2>1 DEF Consistent, LastWord
    <3>3. LastWord(x)'
      BY <3>1, <3>2, <2>4, <2>1, <1>3 DEF Consistent, LastWord
    <3>4. CreatedFirst(x)'
      BY <3>1, <2>1, <1>3 DEF Consistent, CreatedFirst
    <3> QED BY <3>3, <3>4 DEF Consistent
  <2>6. CASE e.kind = "created" /\ Exists \notin read[x]
    <3>1. read'[x] = e.on /\ read[x] = {}
      BY <2>1, <2>2, <2>6 DEF Projected, ProjectedCreation, Consistent, CreatedFirst
    <3>2. ASSUME NEW m \in Marks, NEW i \in DOMAIN log, LastTouch(i, x, m),
                 i <= done' \/ (log[i].kind = "created" /\ Exists \in read'[x])
          PROVE  m \in read'[x] <=> m \in write[x]
      <4>1. log[i].of = x
        BY <3>2 DEF LastTouch, Touches
      <4>2. i = k
        BY <4>1, <3>2, <2>3, <2>6, <1>0, <1>1
      <4> QED BY <4>2, <3>1, <3>2, <2>1 DEF Consistent, LastWord
    <3>3. ASSUME NEW m \in Marks, \A i \in DOMAIN log : ~Touches(log[i], x, m)
          PROVE  m \in read'[x] <=> m \in write[x]
      <4>1. m \notin e.on
        BY <3>3, <2>1, <1>0, <1>1 DEF Touches
      <4>2. m \notin write[x]
        BY <3>3, <3>1, <2>1 DEF Consistent, LastWord
      <4> QED BY <4>1, <4>2, <3>1
    <3>4. LastWord(x)'
      BY <3>2, <3>3, <2>4, <2>1, <1>3 DEF Consistent, LastWord
    <3>5. CreatedFirst(x)'
      BY <3>1, <2>1, <2>3, <2>6, <1>3 DEF Consistent, CreatedFirst
    <3> QED BY <3>4, <3>5 DEF Consistent
  <2>7. CASE e.kind = "changed"
    <3>1. Exists \in read[x]
      BY <2>1, <2>7, <1>0, <1>1, ChangedHasDto
    <3>2. read'[x] = (read[x] \ e.off) \cup e.on
      BY <2>2, <2>7, <3>1 DEF Projected, ProjectedChange
    <3>3. ASSUME NEW m \in Marks, NEW i \in DOMAIN log, LastTouch(i, x, m),
                 i <= done' \/ (log[i].kind = "created" /\ Exists \in read'[x])
          PROVE  m \in read'[x] <=> m \in write[x]
      <4>1. log[i].of = x /\ m \in log[i].on \cup log[i].off
        BY <3>3 DEF LastTouch, Touches
      <4>2. i <= k
        <5>1. CASE log[i].kind = "created"
          BY <5>1, <4>1, <2>1, <2>7, <1>0, <1>1 DEF Consistent, CreatedFirst
        <5> QED BY <5>1, <3>3, <1>0, <1>1
      <4>3. CASE i = k
        BY <4>1, <4>3, <3>2, <3>3, <2>1 DEF Consistent, LastWord
      <4>4. CASE i # k
        <5>1. i <= done
          BY <4>2, <4>4, <1>0, <1>0, <1>1
        <5>2. m \notin e.on \cup e.off
          BY <4>2, <4>4, <3>3, <2>1, <1>0, <1>1 DEF LastTouch, Touches
        <5> QED BY <5>1, <5>2, <3>2, <3>3, <2>1 DEF Consistent, LastWord
      <4> QED BY <4>3, <4>4
    <3>4. ASSUME NEW m \in Marks, \A i \in DOMAIN log : ~Touches(log[i], x, m)
          PROVE  m \in read'[x] <=> m \in write[x]
      <4>1. m \notin e.on \cup e.off
        BY <3>4, <2>1, <1>0, <1>1 DEF Touches
      <4> QED BY <4>1, <3>2, <3>4, <2>1 DEF Consistent, LastWord
    <3>5. LastWord(x)'
      BY <3>3, <3>4, <2>4, <2>1, <1>3 DEF Consistent, LastWord
    <3>6. CreatedFirst(x)'
      BY <3>1, <3>2, <2>1, <2>3, <2>7, <1>3 DEF Consistent, CreatedFirst
    <3> QED BY <3>5, <3>6 DEF Consistent
  <2> QED BY <2>3, <2>5, <2>6, <2>7
<1>6. \A z \in Things \ deleted' : Consistent(z)'
  BY <1>3, <1>4, <1>5
<1> QED BY <1>2, <1>6 DEF CatalogIInv, Consistent

LEMMA RestartKeeps ==
  ASSUME CatalogIInv, Restart
  PROVE  CatalogIInv'
<1>1. /\ CatalogTypeOK /\ done' \in 0 .. done /\ done \in 0 .. Len(log) /\ Len(log) \in Nat
      /\ UNCHANGED <<write, deleted, gone, log, read>>
      /\ restarts < MaxRestarts /\ restarts' = restarts + 1
  BY DEF CatalogIInv, CatalogTypeOK, Restart, streamVars
<1>2. CatalogTypeOK'
  BY <1>1 DEF CatalogTypeOK
<1>3. ASSUME NEW z \in Things \ deleted
      PROVE  Consistent(z)'
  <2>1. Consistent(z)
    BY DEF CatalogIInv, Consistent
  <2>2. \A m, i : LastTouch(i, z, m)' <=> LastTouch(i, z, m)
    BY <1>1 DEF LastTouch
  <2>3. \A i \in DOMAIN log : i <= done' => i <= done
    BY <1>1 DEF CatalogTypeOK
  <2>4. LastWord(z)'
    BY <2>1, <2>2, <2>3, <1>1 DEF Consistent, LastWord
  <2>5. CreatedFirst(z)'
    BY <2>1, <1>1 DEF Consistent, CreatedFirst
  <2> QED BY <2>4, <2>5 DEF Consistent
<1> QED BY <1>1, <1>2, <1>3 DEF CatalogIInv, Consistent

-----------------------------------------------------------------------------
(* The theorems. *)

LEMMA CatalogInitially == CatalogInit => CatalogIInv
<1> SUFFICES ASSUME CatalogInit PROVE CatalogIInv
  OBVIOUS
<1> USE DEF CatalogInit
<1>1. CatalogTypeOK
  BY DEF CatalogTypeOK
<1>2. \A x \in Things : LastWord(x) /\ CreatedFirst(x)
  BY DEF LastWord, CreatedFirst, LastTouch
<1> QED BY <1>1, <1>2 DEF CatalogIInv

LEMMA CatalogSteps == CatalogIInv /\ [CatalogNext]_catalogVars => CatalogIInv'
<1> SUFFICES ASSUME CatalogIInv, [CatalogNext]_catalogVars PROVE CatalogIInv'
  OBVIOUS
<1>1. CASE Administer
  <2>1. ASSUME NEW x \in Things, Remove(x)
        PROVE  CatalogIInv'
    <3>1. /\ gone' = gone \cup {x} /\ x \in deleted
          /\ UNCHANGED <<write, deleted, log, done, read, restarts>>
      BY <2>1 DEF Remove, projectorVars
    <3>2. CatalogTypeOK'
      BY <3>1 DEF CatalogIInv, CatalogTypeOK
    <3>3. \A z \in Things : Consistent(z)' <=> Consistent(z)
      BY <3>1 DEF Consistent, LastWord, CreatedFirst, LastTouch
    <3> QED BY <3>1, <3>2, <3>3 DEF CatalogIInv, Consistent
  <2> QED BY <1>1, <2>1, GroupCommandKeeps, PolicyCommandKeeps DEF Administer
<1>2. CASE Project
  BY <1>2, ProjectKeeps
<1>3. CASE Restart
  BY <1>3, RestartKeeps
<1>4. CASE UNCHANGED catalogVars
  <2>1. UNCHANGED <<write, deleted, gone, log, done, read, restarts>>
    BY <1>4 DEF catalogVars, streamVars, projectorVars
  <2> QED BY <2>1 DEF CatalogIInv, CatalogTypeOK, LastWord, CreatedFirst, LastTouch
<1> QED BY <1>1, <1>2, <1>3, <1>4 DEF CatalogNext

(* The last event about every mark decides it in both models, and the      *)
(* creation of a group or policy comes before everything else about it     *)
(* (the commands, and the projection handlers after any restart).          *)
THEOREM CatalogConsistent == CatalogSpec => []CatalogIInv
BY CatalogInitially, CatalogSteps, PTL DEF CatalogSpec

(* The streams, the log and the DTOs keep their types, and no stream is    *)
(* removed before its deletion was saved (the delete commands).            *)
THEOREM CatalogTypeCorrect == CatalogSpec => []CatalogTypeOK
<1>1. CatalogIInv => CatalogTypeOK
  BY DEF CatalogIInv
<1> QED BY <1>1, CatalogConsistent, PTL

LEMMA LastWordConverges == CatalogIInv => ReadModelConverged
<1> SUFFICES ASSUME CatalogIInv, done = Len(log), NEW x \in Things \ deleted
             PROVE  read[x] = write[x]
  BY DEF ReadModelConverged
<1>1. /\ LastWord(x) /\ read[x] \subseteq Marks /\ write[x] \subseteq Marks
      /\ DOMAIN log = 1 .. Len(log) /\ Len(log) \in Nat
  BY DEF CatalogIInv, CatalogTypeOK
<1>2. ASSUME NEW m \in Marks
      PROVE  m \in read[x] <=> m \in write[x]
  <2>1. CASE \A i \in DOMAIN log : ~Touches(log[i], x, m)
    BY <2>1, <1>1 DEF LastWord
  <2>2. CASE \E i \in DOMAIN log : Touches(log[i], x, m)
    <3> DEFINE S == {n \in Nat : Len(log) - n \in DOMAIN log /\ Touches(log[Len(log) - n], x, m)}
    <3>1. S # {}
      <4>1. PICK i \in DOMAIN log : Touches(log[i], x, m)
        BY <2>2
      <4>2. Len(log) - i \in Nat /\ Len(log) - (Len(log) - i) = i
        BY <1>1
      <4>3. Len(log) - i \in S
        BY <4>1, <4>2
      <4> QED BY <4>3
    <3>2. PICK n \in S : \A y \in S : ~ (y < n)
      <4>1. S \in SUBSET Nat
        OBVIOUS
      <4> HIDE DEF S
      <4> QED BY <3>1, <4>1, Least
    <3>3. ASSUME NEW j \in DOMAIN log, j > Len(log) - n
          PROVE  ~Touches(log[j], x, m)
      <4>1. Len(log) - j \in Nat /\ Len(log) - (Len(log) - j) = j /\ Len(log) - j < n
        BY <1>1, <3>3
      <4>2. Len(log) - j \notin S
        BY <4>1, <3>2
      <4> QED BY <4>1, <4>2
    <3>4. LastTouch(Len(log) - n, x, m) /\ Len(log) - n \in DOMAIN log
      BY <3>3 DEF LastTouch
    <3>5. Len(log) - n <= done
      BY <1>1
    <3> HIDE DEF S
    <3> QED BY <3>4, <3>5, <1>1 DEF LastWord
  <2> QED BY <2>1, <2>2
<1> QED BY <1>1, <1>2

(* Once the projector has caught up, the read model holds every group and  *)
(* policy that was never deleted as the commands left it, however often    *)
(* events were delivered again (the projection handlers).                  *)
THEOREM ReadModelFollows == CatalogSpec => []ReadModelConverged
BY CatalogConsistent, LastWordConverges, PTL

-----------------------------------------------------------------------------
(* The queries and their caches: the invariant. *)

USE ResolutionAssumption

QueryTypes ==
  /\ enabled \subseteq Tools
  /\ switches \in 0 .. MaxSwitches
  /\ access \in [Agents -> SUBSET SUBSET Groups]
  /\ manifest \in [Groups -> SUBSET SUBSET Tools]
  /\ at \in [Queries -> Points]
  /\ job \in [Queries -> Job]
  /\ seen \in [Queries -> Seen]

(* Once the groups were read, only groups that were active meanwhile are   *)
(* gone through, and tools found came from such groups.                    *)
JobFits(q, point, j) ==
  /\ j.agent \in Agents
  /\ point \in {"manifest", "load", "match", "store"} => j.todo \subseteq seen[q].active
  /\ point \in {"load", "match", "store"} => j.cur \in j.todo
  /\ \A p \in j.found : p[1] \in seen[q].active

(* What the read model says now has been noted for the query.              *)
Noted(q) ==
  at[q] # "idle" =>
    /\ enabled \subseteq seen[q].enabled
    /\ ActiveGroups \subseteq seen[q].active
    /\ JobFits(q, at[q], job[q])

QueryIInv == QueryTypes /\ \A q \in Queries : Noted(q)

-----------------------------------------------------------------------------
(* The steps of one query, while the read model stays as it is. *)

CacheTypes ==
  /\ access \in [Agents -> SUBSET SUBSET Groups]
  /\ manifest \in [Groups -> SUBSET SUBSET Tools]

LEMMA GotoKeeps ==
  ASSUME QueryIInv, NEW q \in Queries, at[q] # "idle", Quiet, CacheTypes',
         NEW point \in Points, NEW j \in Job, JobFits(q, point, j), Goto(q, point, j)
  PROVE  QueryIInv'
<1>1. /\ at' = [at EXCEPT ![q] = point] /\ job' = [job EXCEPT ![q] = j]
      /\ UNCHANGED <<enabled, switches, seen, read>> /\ QueryTypes
  BY DEF Goto, Quiet, toolVars, catalogVars, projectorVars, QueryIInv
<1>2. QueryTypes'
  BY <1>1 DEF QueryTypes, CacheTypes
<1>3. ActiveGroups' = ActiveGroups
  BY <1>1 DEF ActiveGroups
<1>4. ASSUME NEW r \in Queries
      PROVE  Noted(r)'
  <2>1. CASE r = q
    BY <2>1, <1>1, <1>3 DEF QueryIInv, QueryTypes, Noted, JobFits
  <2>2. CASE r # q
    BY <2>2, <1>1, <1>3 DEF QueryIInv, QueryTypes, Noted, JobFits
  <2> QED BY <2>1, <2>2
<1> QED BY <1>2, <1>4 DEF QueryIInv

LEMMA NoJobType == NoJob \in Job /\ NothingSeen \in Seen /\ "idle" \in Points
BY DEF NoJob, Job, NothingSeen, Seen, Points

LEMMA EndKeeps ==
  ASSUME QueryIInv, NEW q \in Queries, Quiet, CacheTypes', End(q)
  PROVE  QueryIInv'
<1>1. /\ at' = [at EXCEPT ![q] = "idle"] /\ job' = [job EXCEPT ![q] = NoJob]
      /\ seen' = [seen EXCEPT ![q] = NothingSeen]
      /\ UNCHANGED <<enabled, switches, read>> /\ QueryTypes
  BY DEF End, Quiet, toolVars, catalogVars, projectorVars, QueryIInv
<1>2. QueryTypes'
  BY <1>1, NoJobType DEF QueryTypes, CacheTypes
<1>3. ActiveGroups' = ActiveGroups
  BY <1>1 DEF ActiveGroups
<1>4. ASSUME NEW r \in Queries
      PROVE  Noted(r)'
  <2>1. CASE r = q
    BY <2>1, <1>1 DEF QueryTypes, Noted
  <2>2. CASE r # q
    BY <2>2, <1>1, <1>3 DEF QueryIInv, QueryTypes, Noted, JobFits
  <2> QED BY <2>1, <2>2
<1> QED BY <1>2, <1>4 DEF QueryIInv

LEMMA BeginKeeps ==
  ASSUME QueryIInv, NEW q \in Queries, NEW a \in Agents, Begin(q, a)
  PROVE  QueryIInv'
<1> DEFINE j == [NoJob EXCEPT !.agent = a]
<1>1. /\ at' = [at EXCEPT ![q] = "cache"] /\ job' = [job EXCEPT ![q] = j]
      /\ seen' = [seen EXCEPT ![q] = Now]
      /\ UNCHANGED <<enabled, switches, read, access, manifest>> /\ QueryTypes
  BY DEF Begin, Quiet, toolVars, catalogVars, projectorVars, cacheVars, QueryIInv
<1>2. j \in Job /\ j.found = {} /\ j.agent = a /\ "cache" \in Points
  BY DEF NoJob, Job, Points
<1>3. Now \in Seen /\ Now.enabled = enabled /\ Now.active = ActiveGroups
  BY <1>1 DEF Now, Seen, ActiveGroups, GroupsOf, QueryTypes
<1> HIDE DEF j
<1>4. QueryTypes'
  BY <1>1, <1>2, <1>3 DEF QueryTypes
<1>5. ActiveGroups' = ActiveGroups
  BY <1>1 DEF ActiveGroups
<1>6. ASSUME NEW r \in Queries
      PROVE  Noted(r)'
  <2>1. CASE r = q
    BY <2>1, <1>1, <1>2, <1>3, <1>5 DEF QueryTypes, Noted, JobFits
  <2>2. CASE r # q
    BY <2>2, <1>1, <1>5 DEF QueryIInv, QueryTypes, Noted, JobFits
  <2> QED BY <2>1, <2>2
<1> QED BY <1>4, <1>6 DEF QueryIInv

LEMMA WithGroupsKeeps ==
  ASSUME QueryIInv, NEW q \in Queries, at[q] # "idle", Quiet, CacheTypes',
         NEW groups \in SUBSET Groups, NEW point \in {"groups", "manifest"},
         point = "manifest" => groups \subseteq ActiveGroups,
         WithGroups(q, point, groups)
  PROVE  QueryIInv'
<1>1. CASE groups = {}
  BY <1>1, EndKeeps DEF WithGroups
<1>2. CASE groups # {}
  <2> DEFINE j == [job[q] EXCEPT !.todo = groups]
  <2>1. Goto(q, point, j) /\ point \in Points
    BY <1>2 DEF WithGroups, Points
  <2>2. j \in Job /\ j.found = job[q].found /\ j.todo = groups /\ j.agent = job[q].agent
    BY DEF QueryIInv, QueryTypes, Job
  <2>3. JobFits(q, point, j)
    BY <2>2 DEF QueryIInv, Noted, JobFits
  <2> HIDE DEF j
  <2> QED BY <2>1, <2>2, <2>3, GotoKeeps
<1> QED BY <1>1, <1>2

LEMMA CollectKeeps ==
  ASSUME QueryIInv, NEW q \in Queries, at[q] \in {"manifest", "load", "match", "store"},
         Quiet, CacheTypes', NEW g \in job[q].todo, NEW tools \in SUBSET Tools,
         Collect(q, g, tools)
  PROVE  QueryIInv'
<1> DEFINE point == IF job[q].todo = {g} THEN "tools" ELSE "manifest"
           j == [job[q] EXCEPT !.todo = @ \ {g}, !.cur = None, !.dto = {}, !.part = {},
                               !.found = @ \cup ({g} \X tools)]
<1>1. Goto(q, point, j) /\ point \in Points /\ point \in {"tools", "manifest"}
  BY DEF Collect, Points
<1>2. /\ j \in Job /\ j.todo = job[q].todo \ {g}
      /\ j.found = job[q].found \cup ({g} \X tools) /\ j.agent = job[q].agent
  <2>1. job[q] \in Job
    BY DEF QueryIInv, QueryTypes
  <2>2. g \in Groups
    BY <2>1 DEF Job
  <2> QED BY <2>1, <2>2 DEF Job
<1> HIDE DEF point, j
<1>3. JobFits(q, point, j)
  BY <1>1, <1>2 DEF QueryIInv, Noted, JobFits
<1> QED BY <1>1, <1>2, <1>3, GotoKeeps

LEMMA MembersType ==
  ASSUME NEW dto, NEW matched \in SUBSET Tools
  PROVE  Members(dto, matched) \in SUBSET Tools
BY DEF Members

LEMMA StepKeeps ==
  ASSUME CatalogTypeOK, QueryIInv, NEW q \in Queries, Step(q)
  PROVE  QueryIInv'
<1>t. /\ QueryTypes /\ CacheTypes /\ job[q] \in Job /\ job[q].todo \subseteq Groups
      /\ (UNCHANGED cacheVars => CacheTypes')
      /\ {"policies", "keep", "load", "match", "store", "execute"} \subseteq Points
      /\ enabled \subseteq Tools /\ read = read
  BY DEF QueryIInv, QueryTypes, CacheTypes, cacheVars, Job, Points
<1>f. at[q] # "idle" => JobFits(q, at[q], job[q])
  BY DEF QueryIInv, Noted
<1>1. CASE ReadAccess(q)
  <2>1. at[q] = "cache" /\ Quiet /\ CacheTypes'
    BY <1>1, <1>t DEF ReadAccess
  <2>2. CASE Goto(q, "policies", job[q])
    <3>1. JobFits(q, "policies", job[q])
      BY <2>1, <1>f DEF JobFits
    <3> QED BY <3>1, <2>1, <2>2, <1>t, GotoKeeps
  <2>3. ASSUME NEW groups \in access[job[q].agent], WithGroups(q, "groups", groups)
        PROVE  QueryIInv'
    <3>1. groups \in SUBSET Groups
      BY <2>1, <1>t, <1>f DEF QueryTypes, JobFits
    <3> QED BY <3>1, <2>1, <2>3, WithGroupsKeeps
  <2> QED BY <1>1, <2>2, <2>3 DEF ReadAccess
<1>2. CASE EvaluatePolicies(q)
  <2> DEFINE j == [job[q] EXCEPT !.todo = GroupsOf(job[q].agent)]
  <2>1. at[q] = "policies" /\ Quiet /\ CacheTypes' /\ Goto(q, "keep", j)
    BY <1>2, <1>t DEF EvaluatePolicies
  <2>2. j \in Job /\ j.found = job[q].found /\ j.agent = job[q].agent
    BY <1>t DEF Job, GroupsOf
  <2>3. JobFits(q, "keep", j)
    BY <2>1, <2>2, <1>f DEF JobFits
  <2> HIDE DEF j
  <2> QED BY <2>1, <2>2, <2>3, <1>t, GotoKeeps
<1>3. CASE KeepAccess(q)
  <2>1. at[q] = "keep" /\ Quiet /\ WithGroups(q, "groups", job[q].todo) /\ UNCHANGED manifest
    BY <1>3 DEF KeepAccess
  <2>2. CacheTypes'
    BY <1>3, <1>t DEF KeepAccess, CacheTypes
  <2> QED BY <2>1, <2>2, <1>t, WithGroupsKeeps
<1>4. CASE ReadGroups(q)
  <2>1. /\ at[q] = "groups" /\ Quiet /\ CacheTypes'
        /\ WithGroups(q, "manifest", job[q].todo \cap ActiveGroups)
    BY <1>4, <1>t DEF ReadGroups
  <2>2. job[q].todo \cap ActiveGroups \in SUBSET Groups
    BY <1>t
  <2> QED BY <2>1, <2>2, WithGroupsKeeps
<1>5. ASSUME NEW g \in Groups, ReadManifest(q, g)
      PROVE  QueryIInv'
  <2>1. at[q] = "manifest" /\ g \in job[q].todo /\ Quiet /\ CacheTypes'
    BY <1>5, <1>t DEF ReadManifest
  <2>2. ASSUME NEW tools \in manifest[g], Collect(q, g, tools)
        PROVE  QueryIInv'
    <3>1. tools \in SUBSET Tools
      BY <1>t DEF QueryTypes
    <3> QED BY <2>1, <2>2, <3>1, CollectKeeps
  <2>3. CASE Goto(q, "load", [job[q] EXCEPT !.cur = g])
    <3> DEFINE j == [job[q] EXCEPT !.cur = g]
    <3>1. /\ j \in Job /\ j.found = job[q].found /\ j.agent = job[q].agent
          /\ j.cur = g /\ j.todo = job[q].todo
      BY <1>t DEF Job
    <3>2. JobFits(q, "load", j)
      BY <2>1, <3>1, <1>f DEF JobFits
    <3>3. Goto(q, "load", j)
      BY <2>3
    <3> HIDE DEF j
    <3> QED BY <2>1, <3>1, <3>2, <3>3, <1>t, GotoKeeps
  <2> QED BY <1>5, <2>2, <2>3 DEF ReadManifest
<1>6. CASE LoadGroup(q)
  <2> DEFINE dto == read[job[q].cur]
  <2>1. at[q] = "load" /\ Quiet /\ CacheTypes' /\ job[q].cur \in job[q].todo
    BY <1>6, <1>t, <1>f DEF LoadGroup, JobFits
  <2>2. CASE Collect(q, job[q].cur, {})
    BY <2>1, <2>2, CollectKeeps
  <2>3. CASE Goto(q, "store", [job[q] EXCEPT !.part = Members(dto, {})])
    <3> DEFINE j == [job[q] EXCEPT !.part = Members(dto, {})]
    <3>1. Members(dto, {}) \in SUBSET Tools
      BY MembersType
    <3>2. /\ j \in Job /\ j.found = job[q].found /\ j.agent = job[q].agent
          /\ j.cur = job[q].cur /\ j.todo = job[q].todo
      BY <3>1, <1>t DEF Job
    <3>3. JobFits(q, "store", j)
      BY <2>1, <3>2, <1>f DEF JobFits
    <3>4. Goto(q, "store", j)
      BY <2>3
    <3> HIDE DEF j
    <3> QED BY <2>1, <3>2, <3>3, <3>4, <1>t, GotoKeeps
  <2>4. CASE Goto(q, "match", [job[q] EXCEPT !.dto = dto]) /\ dto \in SUBSET Marks
    <3> DEFINE j == [job[q] EXCEPT !.dto = dto]
    <3>2. /\ j \in Job /\ j.found = job[q].found /\ j.agent = job[q].agent
          /\ j.cur = job[q].cur /\ j.todo = job[q].todo
      BY <2>4, <1>t DEF Job
    <3>3. JobFits(q, "match", j)
      BY <2>1, <3>2, <1>f DEF JobFits
    <3>4. Goto(q, "match", j)
      BY <2>4
    <3> HIDE DEF j
    <3> QED BY <2>1, <3>2, <3>3, <3>4, <1>t, GotoKeeps
  <2>5. dto \in SUBSET Marks
    BY <2>1, <1>t DEF CatalogTypeOK, Things
  <2> QED BY <1>6, <2>2, <2>3, <2>4, <2>5 DEF LoadGroup
<1>7. CASE MatchTools(q)
  <2> DEFINE part == Members(job[q].dto, Matched(job[q].dto))
             j == [job[q] EXCEPT !.part = part, !.dto = {}]
  <2>1. /\ at[q] = "match" /\ Quiet /\ CacheTypes' /\ Goto(q, "store", j)
    BY <1>7, <1>t DEF MatchTools
  <2>2. part \in SUBSET Tools
    BY <1>t, MembersType DEF Matched
  <2> HIDE DEF part
  <2>3. /\ j \in Job /\ j.found = job[q].found /\ j.agent = job[q].agent
        /\ j.cur = job[q].cur /\ j.todo = job[q].todo
    BY <2>2, <1>t DEF Job
  <2>4. JobFits(q, "store", j)
    BY <2>1, <2>3, <1>f DEF JobFits
  <2> HIDE DEF j
  <2> QED BY <2>1, <2>3, <2>4, <1>t, GotoKeeps
<1>8. CASE StoreManifest(q)
  <2>1. /\ at[q] = "store" /\ Quiet /\ UNCHANGED access
        /\ Collect(q, job[q].cur, job[q].part)
    BY <1>8 DEF StoreManifest
  <2>2. job[q].part \in SUBSET Tools /\ job[q].cur \in job[q].todo
    BY <2>1, <1>t, <1>f DEF Job, JobFits
  <2>3. CacheTypes'
    BY <1>8, <2>2, <1>t DEF StoreManifest, CacheTypes
  <2> QED BY <2>1, <2>2, <2>3, CollectKeeps
<1>9. CASE Answer(q)
  <2>1. at[q] = "tools" /\ Quiet /\ CacheTypes'
    BY <1>9, <1>t DEF Answer
  <2>2. JobFits(q, "execute", job[q])
    BY <2>1, <1>f DEF JobFits
  <2>3. Goto(q, "execute", job[q]) \/ End(q)
    BY <1>9 DEF Answer
  <2> QED BY <2>1, <2>2, <2>3, <1>t, GotoKeeps, EndKeeps
<1>10. CASE Execute(q)
  BY <1>10, <1>t, EndKeeps DEF Execute
<1> QED BY <1>1, <1>2, <1>3, <1>4, <1>5, <1>6, <1>7, <1>8, <1>9, <1>10 DEF Step

(* What the read model comes to say is noted for every query under way.    *)
LEMMA NoteKeeps ==
  ASSUME QueryIInv, UNCHANGED <<cacheVars, at, job>>, Note,
         enabled' \subseteq Tools, switches' \in 0 .. MaxSwitches
  PROVE  QueryIInv'
<1>1. UNCHANGED <<access, manifest, at, job>> /\ QueryTypes
  BY DEF cacheVars, QueryIInv
<1>2. ActiveGroups' \subseteq Groups
  BY DEF ActiveGroups
<1>3. ASSUME NEW q \in Queries
      PROVE  /\ seen'[q] \in Seen
             /\ at[q] # "idle" => /\ seen'[q].active = seen[q].active \cup ActiveGroups'
                                  /\ seen'[q].enabled = seen[q].enabled \cup enabled'
  <2> DEFINE s == [active |-> seen[q].active \cup ActiveGroups',
                   enabled |-> seen[q].enabled \cup enabled']
  <2>1. seen'[q] = IF at[q] = "idle" THEN NothingSeen ELSE s
    BY DEF Note
  <2>2. s \in Seen
    BY <1>1, <1>2 DEF QueryTypes, Seen
  <2>3. /\ s.active = seen[q].active \cup ActiveGroups'
        /\ s.enabled = seen[q].enabled \cup enabled'
    OBVIOUS
  <2> HIDE DEF s
  <2> QED BY <2>1, <2>2, <2>3, NoJobType
<1>4. QueryTypes'
  <2>1. seen' = [q \in Queries |-> seen'[q]]
    BY DEF Note
  <2> QED BY <1>1, <1>3, <2>1 DEF QueryTypes
<1>5. ASSUME NEW q \in Queries
      PROVE  Noted(q)'
  <2>1. CASE at[q] = "idle"
    BY <2>1, <1>1 DEF Noted
  <2>2. CASE at[q] # "idle"
    <3>1. /\ seen[q].active \cup ActiveGroups' = seen'[q].active
          /\ enabled' \subseteq seen'[q].enabled
      BY <2>2, <1>3
    <3>2. JobFits(q, at[q], job[q])
      BY <2>2 DEF QueryIInv, Noted
    <3>3. JobFits(q, at[q], job[q])'
      BY <3>1, <3>2, <1>1 DEF JobFits
    <3> QED BY <3>1, <3>3, <1>1 DEF Noted
  <2> QED BY <2>1, <2>2
<1> QED BY <1>4, <1>5 DEF QueryIInv

ResolutionIInv == CatalogIInv /\ QueryIInv

LEMMA QuietSteps ==
  /\ \A q \in Queries : Step(q) => Quiet
  /\ \A q \in Queries, a \in Agents : Begin(q, a) => Quiet
  /\ \A a \in Agents : ExpireAccess(a) => Quiet
  /\ \A g \in Groups : ExpireManifest(g) => Quiet
<1>1. \A q \in Queries : Step(q) => Quiet
  BY DEF Step, ReadAccess, EvaluatePolicies, KeepAccess, ReadGroups, ReadManifest,
         LoadGroup, MatchTools, StoreManifest, Answer, Execute
<1> QED BY <1>1 DEF Begin, ExpireAccess, ExpireManifest

LEMMA CatalogEmbeds == [Next]_vars => [CatalogNext]_catalogVars
<1>1. Quiet => UNCHANGED catalogVars
  BY DEF Quiet
<1>2. \A t \in Tools : SwitchTool(t) => UNCHANGED catalogVars
  BY DEF SwitchTool
<1>3. UNCHANGED vars => UNCHANGED catalogVars
  BY DEF vars
<1>4. Next => CatalogNext \/ UNCHANGED catalogVars
  BY <1>1, <1>2, QuietSteps DEF Next, Catalog
<1> QED BY <1>3, <1>4

LEMMA ResolutionInitially == Init => ResolutionIInv
<1> SUFFICES ASSUME Init PROVE ResolutionIInv
  OBVIOUS
<1>1. CatalogIInv
  BY CatalogInitially DEF Init
<1>2. QueryTypes
  BY NoJobType DEF Init, QueryTypes
<1> QED BY <1>1, <1>2 DEF ResolutionIInv, QueryIInv, Noted, Init

LEMMA ResolutionSteps == ResolutionIInv /\ [Next]_vars => ResolutionIInv'
<1> SUFFICES ASSUME ResolutionIInv, [Next]_vars PROVE ResolutionIInv'
  OBVIOUS
<1>t. CatalogIInv /\ QueryIInv /\ CatalogTypeOK /\ QueryTypes
  BY DEF ResolutionIInv, CatalogIInv, QueryIInv
<1>1. CatalogIInv'
  BY <1>t, CatalogEmbeds, CatalogSteps
<1>2. CASE Catalog
  <2>1. /\ UNCHANGED <<cacheVars, at, job>> /\ Note
        /\ enabled' \subseteq Tools /\ switches' \in 0 .. MaxSwitches
    BY <1>2, <1>t DEF Catalog, toolVars, QueryTypes
  <2> QED BY <2>1, <1>t, <1>1, NoteKeeps DEF ResolutionIInv
<1>3. ASSUME NEW t \in Tools, SwitchTool(t)
      PROVE  ResolutionIInv'
  <2>1. /\ UNCHANGED <<cacheVars, at, job>> /\ Note
        /\ enabled' \subseteq Tools /\ switches' \in 0 .. MaxSwitches
    BY <1>3, <1>t DEF SwitchTool, QueryTypes
  <2> QED BY <2>1, <1>t, <1>1, NoteKeeps DEF ResolutionIInv
<1>4. ASSUME NEW q \in Queries, Step(q)
      PROVE  ResolutionIInv'
  BY <1>4, <1>t, <1>1, StepKeeps DEF ResolutionIInv
<1>5. ASSUME NEW q \in Queries, NEW a \in Agents, Begin(q, a)
      PROVE  ResolutionIInv'
  BY <1>5, <1>t, <1>1, BeginKeeps DEF ResolutionIInv
<1>6. CASE UNCHANGED <<toolVars, read, at, job, seen>> /\ CacheTypes'
  <2>1. UNCHANGED <<enabled, switches, read, at, job, seen>>
    BY <1>6 DEF toolVars
  <2>2. QueryIInv'
    BY <2>1, <1>6, <1>t
       DEF QueryIInv, QueryTypes, CacheTypes, Noted, JobFits, ActiveGroups
  <2> QED BY <2>2, <1>1 DEF ResolutionIInv
<1>7. ASSUME NEW a \in Agents, ExpireAccess(a)
      PROVE  ResolutionIInv'
  BY <1>7, <1>6, <1>t
     DEF ExpireAccess, Quiet, catalogVars, projectorVars, QueryTypes, CacheTypes
<1>8. ASSUME NEW g \in Groups, ExpireManifest(g)
      PROVE  ResolutionIInv'
  BY <1>8, <1>6, <1>t
     DEF ExpireManifest, Quiet, catalogVars, projectorVars, QueryTypes, CacheTypes
<1>9. CASE UNCHANGED vars
  BY <1>9, <1>6, <1>t
     DEF vars, cacheVars, catalogVars, projectorVars, QueryTypes, CacheTypes
<1> QED BY <1>2, <1>3, <1>4, <1>5, <1>7, <1>8, <1>9 DEF Next

-----------------------------------------------------------------------------
(* The theorems. *)

(* While agents are served, the catalogue behaves as it does alone.        *)
THEOREM ResolutionImplementsCatalog == Spec => CatalogSpec
<1>1. Init => CatalogInit
  BY DEF Init
<1> QED BY <1>1, CatalogEmbeds, PTL DEF Spec, CatalogSpec

(* What the read model said during a query was noted, and the groups a     *)
(* query goes through were active meanwhile: the inductive invariant.      *)
THEOREM ResolutionConsistent == Spec => []ResolutionIInv
BY ResolutionInitially, ResolutionSteps, PTL DEF Spec

(* The caches, the queries and what they have gathered keep their types.   *)
THEOREM ResolutionTypeCorrect == Spec => []TypeOK
<1>1. ResolutionIInv => TypeOK
  BY DEF ResolutionIInv, CatalogIInv, QueryIInv, QueryTypes, TypeOK
<1> QED BY <1>1, ResolutionConsistent, PTL

(* No tool is listed or called that was disabled, or that comes from a     *)
(* group that was inactive or deleted, during the whole request, whatever  *)
(* the caches hold (GetAgentToolsQueryHandler).                            *)
THEOREM NothingSwitchedOff == Spec => SwitchedOffNotListed
<1> DEFINE Fine ==
      \A q \in Queries : Answer(q) =>
        \A t \in Listed(q) :
          /\ t \in seen[q].enabled
          /\ \E g \in seen[q].active : <<g, t>> \in job[q].found
<1>1. ResolutionIInv => Fine
  <2> SUFFICES ASSUME ResolutionIInv, NEW q \in Queries, Answer(q), NEW t \in Listed(q)
               PROVE  /\ t \in seen[q].enabled
                      /\ \E g \in seen[q].active : <<g, t>> \in job[q].found
    OBVIOUS
  <2>1. at[q] # "idle" /\ Noted(q)
    BY DEF Answer, ResolutionIInv, QueryIInv
  <2>2. t \in enabled /\ \E g \in Groups : <<g, t>> \in job[q].found
    BY DEF Listed
  <2> QED BY <2>1, <2>2 DEF Noted, JobFits
<1>2. []ResolutionIInv => [][Fine]_vars
  <2> HIDE DEF Fine
  <2> QED BY <1>1, PTL
<1>3. Spec => [][Fine]_vars
  BY <1>2, ResolutionConsistent, PTL
<1> QED BY <1>3 DEF SwitchedOffNotListed
-----------------------------------------------------------------------------
(* Answers once nothing is stale. *)

\* the cached values are what the read model says
CachesFresh ==
  /\ \A a \in Agents : access[a] \subseteq {Says.granted[a]}
  /\ \A g \in Groups : manifest[g] \subseteq {Says.tools[g]}

LEMMA SaysFields ==
  /\ \A a \in Agents : Says.granted[a] = GroupsOf(a)
  /\ Says.active = ActiveGroups
  /\ \A g \in Groups : Says.tools[g] = ToolsOf(g)
  /\ Says.dto = read
BY DEF Says

LEMMA SaysKept ==
  ASSUME UNCHANGED <<read, enabled>>
  PROVE  Says' = Says
<1>1. \A a : GroupsOf(a)' = GroupsOf(a)
  BY DEF GroupsOf
<1>2. \A g : ToolsOf(g)' = ToolsOf(g)
  BY DEF ToolsOf, Members, Matched
<1>3. ActiveGroups' = ActiveGroups
  BY DEF ActiveGroups
<1> QED BY <1>1, <1>2, <1>3 DEF Says

LEMMA SettledGoto ==
  ASSUME QueryTypes, Settled, Says' = Says, CachesFresh', NEW q \in Queries,
         NEW point, NEW j, Goto(q, point, j), Current(Says, point, j)
  PROVE  Settled'
<1>1. /\ at'[q] = point /\ job'[q] = j
      /\ \A r \in Queries : r # q => at'[r] = at[r] /\ job'[r] = job[r]
  BY DEF Goto, QueryTypes
<1>2. \A r \in Queries : at'[r] # "idle" => Current(Says, at'[r], job'[r])
  BY <1>1 DEF Settled
<1> QED BY <1>2 DEF Settled, CachesFresh

LEMMA SettledEnd ==
  ASSUME QueryTypes, Settled, Says' = Says, CachesFresh', NEW q \in Queries, End(q)
  PROVE  Settled'
<1>1. /\ at'[q] = "idle"
      /\ \A r \in Queries : r # q => at'[r] = at[r] /\ job'[r] = job[r]
  BY DEF End, QueryTypes
<1>2. \A r \in Queries : at'[r] # "idle" => Current(Says, at'[r], job'[r])
  BY <1>1 DEF Settled
<1> QED BY <1>2 DEF Settled, CachesFresh

\* The groups are those of the agent, then the active ones of them.
LEMMA SettledWithGroups ==
  ASSUME QueryTypes, Settled, Says' = Says, CachesFresh', NEW q \in Queries,
         NEW point, NEW groups, WithGroups(q, point, groups), job[q].found = {},
         \/ point = "groups" /\ groups = Says.granted[job[q].agent]
         \/ point = "manifest" /\ groups = Says.granted[job[q].agent] \cap Says.active
  PROVE  Settled'
<1>1. CASE groups = {}
  BY <1>1, SettledEnd DEF WithGroups
<1>2. CASE groups # {}
  <2> DEFINE j == [job[q] EXCEPT !.todo = groups]
  <2>1. Goto(q, point, j)
    BY <1>2 DEF WithGroups
  <2>2. j.todo = groups /\ j.found = {} /\ j.agent = job[q].agent
    BY DEF QueryTypes, Job
  <2> HIDE DEF j
  <2>3. Current(Says, point, j)
    <3>1. CASE point = "groups" /\ groups = Says.granted[job[q].agent]
      BY <3>1, <2>2 DEF Current
    <3>2. CASE point = "manifest" /\ groups = Says.granted[job[q].agent] \cap Says.active
      BY <3>2, <2>2 DEF Current
    <3> QED BY <3>1, <3>2
  <2> QED BY <2>1, <2>3, SettledGoto
<1> QED BY <1>1, <1>2

\* The tools of one group are added as they are.
LEMMA SettledCollect ==
  ASSUME QueryTypes, Settled, Says' = Says, CachesFresh', NEW q \in Queries,
         at[q] \in {"manifest", "load", "match", "store"},
         NEW g \in job[q].todo, NEW tools \in SUBSET Tools, tools = Says.tools[g],
         Collect(q, g, tools)
  PROVE  Settled'
<1> DEFINE point == IF job[q].todo = {g} THEN "tools" ELSE "manifest"
           j == [job[q] EXCEPT !.todo = @ \ {g}, !.cur = None, !.dto = {}, !.part = {},
                               !.found = @ \cup ({g} \X tools)]
<1>1. Goto(q, point, j) /\ point \in {"tools", "manifest"}
  BY DEF Collect
<1>2. /\ j.todo = job[q].todo \ {g}
      /\ j.found = job[q].found \cup ({g} \X tools) /\ j.agent = job[q].agent
      /\ point = "tools" => j.todo = {}
  BY DEF QueryTypes, Job
<1> HIDE DEF point, j
<1> DEFINE groups == Says.granted[job[q].agent] \cap Says.active
<1>3. /\ job[q].todo \subseteq groups
      /\ job[q].found = {f \in (groups \ job[q].todo) \X Tools : f[2] \in Says.tools[f[1]]}
  BY DEF Settled, Current
<1> HIDE DEF groups
<1>4. j.found = {f \in (groups \ j.todo) \X Tools : f[2] \in Says.tools[f[1]]}
  <2>1. ASSUME NEW f
        PROVE  f \in j.found <=> f \in (groups \ j.todo) \X Tools /\ f[2] \in Says.tools[f[1]]
    <3>1. CASE f \in {g} \X tools
      BY <3>1, <1>2, <1>3
    <3>2. CASE f \notin {g} \X tools
      <4>1. f \in (groups \ j.todo) \X Tools /\ f[2] \in Says.tools[f[1]]
              => f[1] # g
        BY <3>2
      <4> QED BY <4>1, <3>2, <1>2, <1>3
    <3> QED BY <3>1, <3>2
  <2> QED BY <2>1
<1>5. Current(Says, point, j)
  <2>1. j.todo \subseteq groups
    BY <1>2, <1>3
  <2> QED BY <1>1, <1>2, <1>4, <2>1 DEF Current, groups
<1> QED BY <1>1, <1>5, SettledGoto

\* What a query has gathered fits what is said, and has its types.
LEMMA SettledQuery ==
  ASSUME QueryIInv, Settled, NEW q \in Queries, at[q] # "idle"
  PROVE  /\ Current(Says, at[q], job[q]) /\ job[q] \in Job /\ QueryTypes
         /\ job[q].agent \in Agents /\ job[q].todo \subseteq Groups
         /\ at[q] \in {"load", "match", "store"} =>
              job[q].cur \in job[q].todo /\ job[q].cur \in Groups
         /\ Says.granted[job[q].agent] \subseteq Groups
         /\ \A g \in Groups : Says.tools[g] \subseteq Tools
<1>1. QueryTypes /\ JobFits(q, at[q], job[q]) /\ Current(Says, at[q], job[q])
  BY DEF QueryIInv, Noted, Settled
<1>2. job[q] \in Job
  BY <1>1 DEF QueryTypes
<1>3. job[q].agent \in Agents /\ job[q].todo \subseteq Groups
  BY <1>1, <1>2 DEF JobFits, Job
<1>4. at[q] \in {"load", "match", "store"} => job[q].cur \in job[q].todo
  BY <1>1 DEF JobFits
<1>5. GroupsOf(job[q].agent) \subseteq Groups
  BY DEF GroupsOf
<1>6. \A g \in Groups : ToolsOf(g) \subseteq Tools
  BY <1>1 DEF ToolsOf, Members, Matched, QueryTypes
<1> QED BY <1>1, <1>2, <1>3, <1>4, <1>5, <1>6, SaysFields

\* The caches are as they were.
LEMMA CachesStay ==
  ASSUME Settled, Says' = Says, UNCHANGED cacheVars
  PROVE  CachesFresh'
BY DEF Settled, CachesFresh, cacheVars

LEMMA QuietSays ==
  ASSUME Quiet
  PROVE  Says' = Says
BY SaysKept DEF Quiet, catalogVars, projectorVars, toolVars

LEMMA SettledReadAccess ==
  ASSUME QueryIInv, Settled, NEW q \in Queries, ReadAccess(q)
  PROVE  Settled'
<1>1. at[q] = "cache" /\ Quiet /\ UNCHANGED cacheVars
  BY DEF ReadAccess
<1>2. Says' = Says /\ CachesFresh'
  BY <1>1, QuietSays, CachesStay
<1>3. Current(Says, "cache", job[q]) /\ QueryTypes /\ job[q].agent \in Agents
  BY <1>1, SettledQuery
<1>4. job[q].found = {} /\ access[job[q].agent] \subseteq {Says.granted[job[q].agent]}
  BY <1>3 DEF Current, Settled
<1>5. CASE Goto(q, "policies", job[q])
  <2>1. Current(Says, "policies", job[q])
    BY <1>4 DEF Current
  <2> QED BY <2>1, <1>2, <1>3, <1>5, SettledGoto
<1>6. ASSUME NEW groups \in access[job[q].agent], WithGroups(q, "groups", groups)
      PROVE  Settled'
  <2>1. groups = Says.granted[job[q].agent]
    BY <1>4
  <2> QED BY <2>1, <1>2, <1>3, <1>4, <1>6, SettledWithGroups
<1> QED BY <1>5, <1>6 DEF ReadAccess

LEMMA SettledEvaluatePolicies ==
  ASSUME QueryIInv, Settled, NEW q \in Queries, EvaluatePolicies(q)
  PROVE  Settled'
<1> DEFINE j == [job[q] EXCEPT !.todo = GroupsOf(job[q].agent)]
<1>1. at[q] = "policies" /\ Quiet /\ UNCHANGED cacheVars /\ Goto(q, "keep", j)
  BY DEF EvaluatePolicies
<1>2. Says' = Says /\ CachesFresh'
  BY <1>1, QuietSays, CachesStay
<1>3. Current(Says, "policies", job[q]) /\ QueryTypes /\ job[q].agent \in Agents
      /\ job[q] \in Job
  BY <1>1, SettledQuery
<1>4. /\ j.agent = job[q].agent /\ j.found = job[q].found
      /\ j.todo = Says.granted[job[q].agent]
  BY <1>3, SaysFields DEF Job
<1> HIDE DEF j
<1>5. Current(Says, "keep", j)
  BY <1>3, <1>4 DEF Current
<1> QED BY <1>1, <1>2, <1>3, <1>5, SettledGoto

LEMMA SettledKeepAccess ==
  ASSUME QueryIInv, Settled, NEW q \in Queries, KeepAccess(q)
  PROVE  Settled'
<1>1. /\ at[q] = "keep" /\ Quiet /\ UNCHANGED manifest
      /\ WithGroups(q, "groups", job[q].todo)
      /\ \/ access' = [access EXCEPT ![job[q].agent] = {job[q].todo}]
         \/ UNCHANGED access
  BY DEF KeepAccess
<1>2. Says' = Says
  BY <1>1, QuietSays
<1>3. Current(Says, "keep", job[q]) /\ QueryTypes /\ job[q].agent \in Agents
  BY <1>1, SettledQuery
<1>4. job[q].found = {} /\ job[q].todo = Says.granted[job[q].agent]
  BY <1>3 DEF Current
<1>5. CachesFresh'
  <2>1. CASE UNCHANGED access
    BY <2>1, <1>1, <1>2 DEF Settled, CachesFresh
  <2>2. CASE access' = [access EXCEPT ![job[q].agent] = {job[q].todo}]
    <3>1. \A a \in Agents : access'[a] \subseteq {Says.granted[a]}
      BY <2>2, <1>3, <1>4 DEF Settled, QueryTypes
    <3> QED BY <3>1, <1>1, <1>2 DEF Settled, CachesFresh
  <2> QED BY <1>1, <2>1, <2>2
<1> QED BY <1>1, <1>2, <1>3, <1>4, <1>5, SettledWithGroups

LEMMA SettledReadGroups ==
  ASSUME QueryIInv, Settled, NEW q \in Queries, ReadGroups(q)
  PROVE  Settled'
<1>1. /\ at[q] = "groups" /\ Quiet /\ UNCHANGED cacheVars
      /\ WithGroups(q, "manifest", job[q].todo \cap ActiveGroups)
  BY DEF ReadGroups
<1>2. Says' = Says /\ CachesFresh'
  BY <1>1, QuietSays, CachesStay
<1>3. Current(Says, "groups", job[q]) /\ QueryTypes
  BY <1>1, SettledQuery
<1>4. /\ job[q].found = {}
      /\ job[q].todo \cap ActiveGroups = Says.granted[job[q].agent] \cap Says.active
  BY <1>3, SaysFields DEF Current
<1> QED BY <1>1, <1>2, <1>3, <1>4, SettledWithGroups

LEMMA SettledReadManifest ==
  ASSUME QueryIInv, Settled, NEW q \in Queries, NEW g \in Groups, ReadManifest(q, g)
  PROVE  Settled'
<1>1. at[q] = "manifest" /\ g \in job[q].todo /\ Quiet /\ UNCHANGED cacheVars
  BY DEF ReadManifest
<1>2. Says' = Says /\ CachesFresh'
  BY <1>1, QuietSays, CachesStay
<1>3. Current(Says, "manifest", job[q]) /\ QueryTypes /\ job[q] \in Job
      /\ Says.tools[g] \subseteq Tools
  BY <1>1, SettledQuery
<1>4. ASSUME NEW tools \in manifest[g], Collect(q, g, tools)
      PROVE  Settled'
  <2>1. tools = Says.tools[g] /\ tools \in SUBSET Tools
    BY <1>3 DEF Settled
  <2> QED BY <2>1, <1>1, <1>2, <1>3, <1>4, SettledCollect
<1>5. CASE Goto(q, "load", [job[q] EXCEPT !.cur = g])
  <2> DEFINE j == [job[q] EXCEPT !.cur = g]
  <2>1. j.agent = job[q].agent /\ j.todo = job[q].todo /\ j.found = job[q].found
    BY <1>3 DEF Job
  <2>2. Goto(q, "load", j)
    BY <1>5
  <2> HIDE DEF j
  <2>3. Current(Says, "load", j)
    BY <1>3, <2>1 DEF Current
  <2> QED BY <2>2, <2>3, <1>2, <1>3, SettledGoto
<1> QED BY <1>4, <1>5 DEF ReadManifest

LEMMA SettledLoadGroup ==
  ASSUME QueryIInv, Settled, NEW q \in Queries, LoadGroup(q)
  PROVE  Settled'
<1> DEFINE dto == read[job[q].cur]
<1>1. at[q] = "load" /\ Quiet /\ UNCHANGED cacheVars
  BY DEF LoadGroup
<1>2. Says' = Says /\ CachesFresh'
  BY <1>1, QuietSays, CachesStay
<1>3. /\ Current(Says, "load", job[q]) /\ QueryTypes /\ job[q] \in Job
      /\ job[q].cur \in job[q].todo /\ job[q].cur \in Groups
      /\ Says.tools[job[q].cur] \subseteq Tools
  BY <1>1, SettledQuery
<1>4. job[q].cur \in ActiveGroups /\ Says.dto[job[q].cur] = dto
  BY <1>3, SaysFields DEF Current
<1>5. Exists \in dto
  BY <1>4 DEF ActiveGroups
<1>6. CASE SelectorsOf(dto) = {} /\ Goto(q, "store", [job[q] EXCEPT !.part = Members(dto, {})])
  <2> DEFINE j == [job[q] EXCEPT !.part = Members(dto, {})]
  <2>1. Says.tools[job[q].cur] = Members(dto, {})
    BY <1>6, <1>3, SaysFields DEF ToolsOf
  <2>2. /\ j.agent = job[q].agent /\ j.todo = job[q].todo /\ j.found = job[q].found
        /\ j.cur = job[q].cur /\ j.part = Says.tools[job[q].cur]
    BY <2>1, <1>3 DEF Job
  <2>3. Goto(q, "store", j)
    BY <1>6
  <2> HIDE DEF j, dto
  <2>4. Current(Says, "store", j)
    BY <1>3, <2>2 DEF Current
  <2> QED BY <2>3, <2>4, <1>2, <1>3, SettledGoto
<1>7. CASE SelectorsOf(dto) # {} /\ Goto(q, "match", [job[q] EXCEPT !.dto = dto])
  <2> DEFINE j == [job[q] EXCEPT !.dto = dto]
  <2>2. /\ j.agent = job[q].agent /\ j.todo = job[q].todo /\ j.found = job[q].found
        /\ j.cur = job[q].cur /\ j.dto = Says.dto[job[q].cur] /\ SelectorsOf(j.dto) # {}
    BY <1>7, <1>4, <1>3 DEF Job
  <2>3. Goto(q, "match", j)
    BY <1>7
  <2> HIDE DEF j, dto
  <2>4. Current(Says, "match", j)
    BY <1>3, <2>2 DEF Current
  <2> QED BY <2>3, <2>4, <1>2, <1>3, SettledGoto
<1> QED BY <1>5, <1>6, <1>7 DEF LoadGroup

LEMMA SettledMatchTools ==
  ASSUME QueryIInv, Settled, NEW q \in Queries, MatchTools(q)
  PROVE  Settled'
<1> DEFINE part == Members(job[q].dto, Matched(job[q].dto))
           j == [job[q] EXCEPT !.part = part, !.dto = {}]
<1>1. at[q] = "match" /\ Quiet /\ UNCHANGED cacheVars /\ Goto(q, "store", j)
  BY DEF MatchTools
<1>2. Says' = Says /\ CachesFresh'
  BY <1>1, QuietSays, CachesStay
<1>3. /\ Current(Says, "match", job[q]) /\ QueryTypes /\ job[q] \in Job
      /\ job[q].cur \in Groups
  BY <1>1, SettledQuery
<1>4. job[q].dto = read[job[q].cur] /\ SelectorsOf(job[q].dto) # {}
  BY <1>3, SaysFields DEF Current
<1>5. Says.tools[job[q].cur] = part
  BY <1>4, <1>3, SaysFields DEF ToolsOf
<1> HIDE DEF part
<1>6. /\ j.agent = job[q].agent /\ j.todo = job[q].todo /\ j.found = job[q].found
      /\ j.cur = job[q].cur /\ j.part = Says.tools[job[q].cur]
  BY <1>5, <1>3 DEF Job
<1> HIDE DEF j
<1>7. Current(Says, "store", j)
  BY <1>3, <1>6 DEF Current
<1> QED BY <1>1, <1>2, <1>3, <1>7, SettledGoto

LEMMA SettledStoreManifest ==
  ASSUME QueryIInv, Settled, NEW q \in Queries, StoreManifest(q)
  PROVE  Settled'
<1>1. /\ at[q] = "store" /\ Quiet /\ UNCHANGED access
      /\ Collect(q, job[q].cur, job[q].part)
      /\ \/ manifest' = [manifest EXCEPT ![job[q].cur] = {job[q].part}]
         \/ UNCHANGED manifest
  BY DEF StoreManifest
<1>2. Says' = Says
  BY <1>1, QuietSays
<1>3. /\ Current(Says, "store", job[q]) /\ QueryTypes
      /\ job[q].cur \in job[q].todo /\ job[q].cur \in Groups
      /\ Says.tools[job[q].cur] \subseteq Tools
  BY <1>1, SettledQuery
<1>4. job[q].part = Says.tools[job[q].cur]
  BY <1>3 DEF Current
<1>5. CachesFresh'
  <2>1. CASE UNCHANGED manifest
    BY <2>1, <1>1, <1>2 DEF Settled, CachesFresh
  <2>2. CASE manifest' = [manifest EXCEPT ![job[q].cur] = {job[q].part}]
    <3>1. \A g \in Groups : manifest'[g] \subseteq {Says.tools[g]}
      BY <2>2, <1>3, <1>4 DEF Settled, QueryTypes
    <3> QED BY <3>1, <1>1, <1>2 DEF Settled, CachesFresh
  <2> QED BY <1>1, <2>1, <2>2
<1> QED BY <1>1, <1>2, <1>3, <1>4, <1>5, SettledCollect

LEMMA SettledAnswer ==
  ASSUME QueryIInv, Settled, NEW q \in Queries, Answer(q) \/ Execute(q)
  PROVE  Settled'
<1>1. /\ Quiet /\ UNCHANGED cacheVars /\ QueryTypes
      /\ End(q) \/ Goto(q, "execute", job[q])
  BY DEF Answer, Execute, QueryIInv
<1>2. Says' = Says /\ CachesFresh'
  BY <1>1, QuietSays, CachesStay
<1>3. Current(Says, "execute", job[q])
  BY DEF Current
<1> QED BY <1>1, <1>2, <1>3, SettledGoto, SettledEnd

LEMMA SettledBegin ==
  ASSUME QueryIInv, Settled, NEW q \in Queries, NEW a \in Agents, Begin(q, a)
  PROVE  Settled'
<1> DEFINE j == [NoJob EXCEPT !.agent = a]
<1>1. /\ Quiet /\ UNCHANGED cacheVars
      /\ at' = [at EXCEPT ![q] = "cache"] /\ job' = [job EXCEPT ![q] = j]
  BY DEF Begin
<1>2. Says' = Says /\ CachesFresh'
  BY <1>1, QuietSays, CachesStay
<1>3. j.found = {}
  BY DEF NoJob
<1> HIDE DEF j
<1>4. Current(Says, "cache", j)
  BY <1>3 DEF Current
<1>5. /\ at'[q] = "cache" /\ job'[q] = j
      /\ \A r \in Queries : r # q => at'[r] = at[r] /\ job'[r] = job[r]
  BY <1>1 DEF QueryIInv, QueryTypes
<1>6. \A r \in Queries : at'[r] # "idle" => Current(Says, at'[r], job'[r])
  BY <1>4, <1>5 DEF Settled
<1> QED BY <1>2, <1>6 DEF Settled, CachesFresh

\* Nothing happens to the queries, and cached values at most expire.
LEMMA SettledExpires ==
  ASSUME Settled, Says' = Says, UNCHANGED <<at, job>>,
         \A a \in Agents : access'[a] \subseteq access[a],
         \A g \in Groups : manifest'[g] \subseteq manifest[g]
  PROVE  Settled'
<1>1. CachesFresh'
  BY DEF Settled, CachesFresh
<1>2. \A r \in Queries : at'[r] # "idle" => Current(Says, at'[r], job'[r])
  BY DEF Settled
<1> QED BY <1>1, <1>2 DEF Settled, CachesFresh

LEMMA SettledSteps ==
  ASSUME QueryIInv, Settled, [Next]_vars, UNCHANGED <<read, enabled>>
  PROVE  Settled'
<1>t. Says' = Says /\ QueryTypes
  BY SaysKept DEF QueryIInv
<1>1. CASE Catalog \/ (\E t \in Tools : SwitchTool(t)) \/ UNCHANGED vars
  <2>1. UNCHANGED <<access, manifest, at, job>>
    BY <1>1 DEF Catalog, SwitchTool, vars, cacheVars
  <2> QED BY <2>1, <1>t, SettledExpires
<1>2. ASSUME NEW q \in Queries, Step(q)
      PROVE  Settled'
  BY <1>2, SettledReadAccess, SettledEvaluatePolicies, SettledKeepAccess,
     SettledReadGroups, SettledReadManifest, SettledLoadGroup, SettledMatchTools,
     SettledStoreManifest, SettledAnswer DEF Step
<1>3. ASSUME NEW q \in Queries, NEW a \in Agents, Begin(q, a)
      PROVE  Settled'
  BY <1>3, SettledBegin
<1>4. ASSUME NEW a \in Agents, ExpireAccess(a)
      PROVE  Settled'
  <2>1. /\ UNCHANGED <<manifest, at, job>>
        /\ \A b \in Agents : access'[b] \subseteq access[b]
    BY <1>4, <1>t DEF ExpireAccess, QueryTypes
  <2> QED BY <2>1, <1>t, SettledExpires
<1>5. ASSUME NEW g \in Groups, ExpireManifest(g)
      PROVE  Settled'
  <2>1. /\ UNCHANGED <<access, at, job>>
        /\ \A h \in Groups : manifest'[h] \subseteq manifest[h]
    BY <1>5, <1>t DEF ExpireManifest, QueryTypes
  <2> QED BY <2>1, <1>t, SettledExpires
<1> QED BY <1>1, <1>2, <1>3, <1>4, <1>5 DEF Next

\* What is gathered at the end is what the agent is entitled to.
LEMMA SettledIsExact ==
  ASSUME QueryIInv, Settled, NEW q \in Queries, at[q] = "tools"
  PROVE  Listed(q) = Entitled(job[q].agent)
<1> DEFINE a == job[q].agent
<1>1. /\ Current(Says, "tools", job[q]) /\ a \in Agents
      /\ Says.granted[a] \subseteq Groups
  BY SettledQuery
<1>2. enabled \subseteq Tools
  BY DEF QueryIInv, QueryTypes
<1>3. Says.granted[a] = GroupsOf(a) /\ Says.active = ActiveGroups
      /\ \A g \in Groups : Says.tools[g] = ToolsOf(g)
  BY <1>1, SaysFields
<1>4. job[q].found = {f \in ((Says.granted[a] \cap Says.active) \ {}) \X Tools :
                         f[2] \in Says.tools[f[1]]}
  BY <1>1 DEF Current
<1>5. \A g \in Groups, t \in Tools :
        <<g, t>> \in job[q].found <=> g \in GroupsOf(a) \cap ActiveGroups /\ t \in ToolsOf(g)
  BY <1>3, <1>4
<1>6. GroupsOf(a) \subseteq Groups
  BY <1>1, <1>3
<1> HIDE DEF a
<1>7. \A t \in enabled : (\E g \in Groups : <<g, t>> \in job[q].found)
        <=> \E g \in GroupsOf(a) \cap ActiveGroups : t \in ToolsOf(g)
  BY <1>2, <1>5, <1>6
<1>8. Listed(q) = Entitled(a)
  BY <1>7 DEF Listed, Entitled
<1> QED BY <1>8 DEF a

\* A step of one query leaves the others where they are.
LEMMA StepsApart ==
  ASSUME QueryTypes, NEW r \in Queries, Step(r), NEW q \in Queries, at'[q] # at[q]
  PROVE  r = q
<1>g. \A point, j : Goto(r, point, j) => r = q
  BY DEF Goto, QueryTypes
<1>e. End(r) => r = q
  BY DEF End, QueryTypes
<1>w. \A point, groups : WithGroups(r, point, groups) => r = q
  BY <1>g, <1>e DEF WithGroups
<1>c. \A g, tools : Collect(r, g, tools) => r = q
  BY <1>g DEF Collect
<1>1. ReadAccess(r) \/ EvaluatePolicies(r) \/ KeepAccess(r) \/ ReadGroups(r) => r = q
  BY <1>g, <1>w DEF ReadAccess, EvaluatePolicies, KeepAccess, ReadGroups
<1>2. \A g \in Groups : ReadManifest(r, g) => r = q
  BY <1>g, <1>c DEF ReadManifest
<1>3. LoadGroup(r) \/ MatchTools(r) \/ StoreManifest(r) => r = q
  BY <1>g, <1>c DEF LoadGroup, MatchTools, StoreManifest
<1>4. Answer(r) \/ Execute(r) => r = q
  BY <1>g, <1>e DEF Answer, Execute
<1> QED BY <1>1, <1>2, <1>3, <1>4 DEF Step

\* A query that ends early ends for an agent without groups.
LEMMA SettledGivesUp ==
  ASSUME QueryIInv, Settled, NEW q \in Queries, [Next]_vars, GivesUp(q)
  PROVE  Entitled(job[q].agent) = {}
<1> DEFINE a == job[q].agent
<1>t. /\ at[q] \in {"cache", "keep", "groups"} /\ at'[q] = "idle"
      /\ Current(Says, at[q], job[q]) /\ QueryTypes /\ a \in Agents
  BY SettledQuery DEF GivesUp
<1>s. Says.granted[a] = GroupsOf(a) /\ access[a] \subseteq {Says.granted[a]}
  BY <1>t, SaysFields DEF Settled
<1>1. Step(q)
  <2>1. ASSUME NEW r \in Queries, Step(r)
        PROVE  r = q
    BY <2>1, <1>t, StepsApart
  <2>2. ASSUME NEW r \in Queries, NEW b \in Agents, Begin(r, b)
        PROVE  FALSE
    BY <2>2, <1>t DEF Begin, QueryTypes
  <2>3. CASE UNCHANGED at
    BY <2>3, <1>t
  <2>4. Catalog \/ (\E t \in Tools : SwitchTool(t)) \/ UNCHANGED vars
        \/ (\E b \in Agents : ExpireAccess(b)) \/ (\E g \in Groups : ExpireManifest(g))
        => UNCHANGED at
    BY DEF Catalog, SwitchTool, vars, ExpireAccess, ExpireManifest
  <2> QED BY <2>1, <2>2, <2>3, <2>4 DEF Next
<1>2. ASSUME NEW point, NEW groups, point # "idle", WithGroups(q, point, groups)
      PROVE  groups = {}
  BY <1>2, <1>t DEF WithGroups, Goto, QueryTypes
<1>3. CASE ReadAccess(q)
  <2>1. \E groups \in access[a] : WithGroups(q, "groups", groups)
    BY <1>3, <1>t DEF ReadAccess, Goto, QueryTypes
  <2>2. GroupsOf(a) = {}
    BY <2>1, <1>2, <1>s
  <2> QED BY <2>2 DEF Entitled
<1>4. CASE KeepAccess(q)
  <2>1. job[q].todo = {} /\ at[q] = "keep"
    BY <1>4, <1>2 DEF KeepAccess
  <2>2. GroupsOf(a) = {}
    BY <2>1, <1>s, <1>t DEF Current
  <2> QED BY <2>2 DEF Entitled
<1>5. CASE ReadGroups(q)
  <2>1. job[q].todo \cap ActiveGroups = {} /\ at[q] = "groups"
    BY <1>5, <1>2 DEF ReadGroups
  <2>2. GroupsOf(a) \cap ActiveGroups = {}
    BY <2>1, <1>s, <1>t DEF Current
  <2> QED BY <2>2 DEF Entitled
<1> QED BY <1>1, <1>3, <1>4, <1>5, <1>t
    DEF Step, EvaluatePolicies, ReadManifest, LoadGroup, MatchTools, StoreManifest,
        Answer, Execute

(* Once nothing stale is cached or gathered, nothing ever is again while   *)
(* the read model stays as it is, and all answers are exact: what the      *)
(* convergence of the answers rests on.                                    *)
THEOREM SettledAnswersExact == Spec => ExactOnceSettled
<1> DEFINE Exact ==
      Settled => /\ UNCHANGED <<read, enabled>> => Settled'
                 /\ \A q \in Queries :
                      /\ Answer(q) => Listed(q) = Entitled(job[q].agent)
                      /\ GivesUp(q) => Entitled(job[q].agent) = {}
<1>1. ResolutionIInv /\ [Next]_vars => Exact
  <2> SUFFICES ASSUME ResolutionIInv, [Next]_vars, Settled
               PROVE  /\ UNCHANGED <<read, enabled>> => Settled'
                      /\ \A q \in Queries :
                           /\ Answer(q) => Listed(q) = Entitled(job[q].agent)
                           /\ GivesUp(q) => Entitled(job[q].agent) = {}
    OBVIOUS
  <2>t. QueryIInv
    BY DEF ResolutionIInv
  <2>1. UNCHANGED <<read, enabled>> => Settled'
    BY <2>t, SettledSteps
  <2>2. \A q \in Queries : Answer(q) => Listed(q) = Entitled(job[q].agent)
    BY <2>t, SettledIsExact DEF Answer
  <2>3. \A q \in Queries : GivesUp(q) => Entitled(job[q].agent) = {}
    BY <2>t, SettledGivesUp
  <2> QED BY <2>1, <2>2, <2>3
<1>2. []ResolutionIInv /\ [][Next]_vars => [][Exact]_vars
  <2> HIDE DEF Exact
  <2> QED BY <1>1, PTL
<1>3. Spec => [][Exact]_vars
  <2> HIDE DEF Exact
  <2> QED BY <1>2, ResolutionConsistent, PTL DEF Spec
<1> QED BY <1>3 DEF ExactOnceSettled

-----------------------------------------------------------------------------
(* Queries end. *)

\* There are finitely many groups, as each has a mark that grants it.
LEMMA GroupsCounted ==
  /\ IsFiniteSet(Groups)
  /\ Cardinality(Groups) \in Nat
  /\ \A S \in SUBSET Groups :
       /\ Cardinality(S) \in Nat
       /\ Cardinality(S) <= Cardinality(Groups)
       /\ S # {} => Cardinality(S) > 0
       /\ \A g \in S : Cardinality(S \ {g}) = Cardinality(S) - 1
<1> DEFINE f == [g \in Groups |-> Grants(g)]
<1>1. f \in Injection(Groups, Marks)
  <2>1. \A g \in Groups : Grants(g) \in Marks
    BY DEF Marks, GrantMarks
  <2>2. \A g, h \in Groups : Grants(g) = Grants(h) => g = h
    BY DEF Grants
  <2> QED BY <2>1, <2>2 DEF Injection, IsInjective
<1> HIDE DEF f
<1>2. IsFiniteSet(Groups)
  BY <1>1, FS_Injection
<1>3. ASSUME NEW S \in SUBSET Groups
      PROVE  /\ Cardinality(S) \in Nat
             /\ Cardinality(S) <= Cardinality(Groups)
             /\ S # {} => Cardinality(S) > 0
             /\ \A g \in S : Cardinality(S \ {g}) = Cardinality(S) - 1
  <2>1. IsFiniteSet(S) /\ Cardinality(S) <= Cardinality(Groups)
    BY <1>2, FS_Subset
  <2>2. Cardinality(S) \in Nat /\ (Cardinality(S) = 0 <=> S = {})
    BY <2>1, FS_CardinalityType, FS_EmptySet
  <2>3. \A g \in S : Cardinality(S \ {g}) = Cardinality(S) - 1
    BY <2>1, FS_RemoveElement
  <2> QED BY <2>1, <2>2, <2>3
<1> QED BY <1>2, <1>3, FS_CardinalityType

\* The steps left at the awaits of a query.
Left(point, todo) ==
  LET all == Cardinality(Groups)
      left == Cardinality(todo)
  IN CASE point = "cache"    -> 4 * all + 6
       [] point = "policies" -> 4 * all + 5
       [] point = "keep"     -> 4 * all + 4
       [] point = "groups"   -> 4 * all + 3
       [] point = "manifest" -> 4 * left + 2
       [] point = "load"     -> 4 * left + 1
       [] point = "match"    -> 4 * left
       [] point = "store"    -> 4 * left - 1
       [] point = "tools"    -> 2
       [] point = "execute"  -> 1
       [] point = "idle"     -> 0

LEMMA StepsLeftIs ==
  ASSUME NEW q \in Queries
  PROVE  /\ StepsLeft(q) = Left(at[q], job[q].todo)
         /\ StepsLeft(q)' = Left(at'[q], job'[q].todo)
BY DEF StepsLeft, Left

LEMMA EndAdvances ==
  ASSUME QueryIInv, NEW q \in Queries, at[q] # "idle", End(q)
  PROVE  StepsLeft(q)' < StepsLeft(q)
<1> DEFINE all == Cardinality(Groups)
           left == Cardinality(job[q].todo)
<1>1. /\ at'[q] = "idle" /\ at[q] \in Points
      /\ job[q].todo \in SUBSET Groups
      /\ at[q] \in {"match", "load", "store"} => job[q].todo # {}
  BY DEF End, QueryIInv, QueryTypes, Noted, JobFits, Job
<1>2. all \in Nat /\ left \in Nat /\ (at[q] \in {"match", "load", "store"} => left > 0)
  BY <1>1, GroupsCounted
<1> HIDE DEF all, left
<1>3. StepsLeft(q) > 0
  BY <1>1, <1>2 DEF StepsLeft, all, left, Points
<1>4. StepsLeft(q)' = 0
  BY <1>1 DEF StepsLeft
<1> QED BY <1>3, <1>4

LEMMA GotoAdvances ==
  ASSUME QueryTypes, NEW q \in Queries, NEW point, NEW j, Goto(q, point, j),
         Left(point, j.todo) < Left(at[q], job[q].todo)
  PROVE  StepsLeft(q)' < StepsLeft(q)
<1>1. at'[q] = point /\ job'[q] = j
  BY DEF Goto, QueryTypes
<1> QED BY <1>1, StepsLeftIs

\* Whether there are groups to go on with or not.
LEMMA WithGroupsAdvances ==
  ASSUME QueryIInv, NEW q \in Queries, at[q] # "idle", NEW point,
         NEW groups \in SUBSET Groups, WithGroups(q, point, groups),
         Left(point, groups) < Left(at[q], job[q].todo)
  PROVE  StepsLeft(q)' < StepsLeft(q)
<1>1. CASE End(q)
  BY <1>1, EndAdvances
<1>2. CASE Goto(q, point, [job[q] EXCEPT !.todo = groups])
  <2> DEFINE j == [job[q] EXCEPT !.todo = groups]
  <2>1. j.todo = groups /\ QueryTypes
    BY DEF QueryIInv, QueryTypes, Job
  <2>2. Goto(q, point, j)
    BY <1>2
  <2> HIDE DEF j
  <2> QED BY <2>1, <2>2, GotoAdvances
<1> QED BY <1>1, <1>2 DEF WithGroups

\* A group that is done is not gone through again.
LEMMA CollectAdvances ==
  ASSUME QueryTypes, NEW q \in Queries,
         at[q] \in {"manifest", "load", "match", "store"},
         NEW g \in job[q].todo, NEW tools, Collect(q, g, tools)
  PROVE  StepsLeft(q)' < StepsLeft(q)
<1> DEFINE left == Cardinality(job[q].todo)
           j == [job[q] EXCEPT !.todo = @ \ {g}, !.cur = None, !.dto = {},
                               !.part = {}, !.found = @ \cup ({g} \X tools)]
           point == IF job[q].todo = {g} THEN "tools" ELSE "manifest"
<1>1. job[q].todo \in SUBSET Groups /\ job[q] \in Job
  BY DEF QueryTypes, Job
<1>2. /\ left \in Nat /\ left > 0
      /\ Cardinality(job[q].todo \ {g}) = left - 1
  BY <1>1, GroupsCounted
<1>3. j.todo = job[q].todo \ {g}
  BY <1>1 DEF Job
<1>4. Goto(q, point, j)
  BY DEF Collect
<1>5. Left(at[q], job[q].todo) \in {4 * left + 2, 4 * left + 1, 4 * left, 4 * left - 1}
  BY DEF Left
<1>6. Left(point, j.todo) \in {2, 4 * (left - 1) + 2}
  BY <1>2, <1>3 DEF Left
<1> HIDE DEF left, j, point
<1>7. Left(point, j.todo) < Left(at[q], job[q].todo)
  BY <1>2, <1>5, <1>6
<1> QED BY <1>4, <1>7, GotoAdvances

LEMMA QueryAdvances ==
  ASSUME QueryIInv, NEW q \in Queries, Step(q)
  PROVE  StepsLeft(q)' < StepsLeft(q)
<1> DEFINE all == Cardinality(Groups)
           todo == job[q].todo
           left == Cardinality(todo)
<1>1. /\ QueryTypes /\ job[q] \in Job /\ todo \in SUBSET Groups
      /\ at[q] \in {"load", "match", "store"} => job[q].cur \in todo
      /\ at[q] # "idle" => job[q].agent \in Agents
  BY DEF QueryIInv, QueryTypes, Noted, JobFits, Job
<1>2. all \in Nat /\ left \in Nat /\ left <= all
  BY <1>1, GroupsCounted
<1> HIDE DEF all, left
<1>3. CASE ReadAccess(q)
  <2>1. at[q] = "cache" /\ Left(at[q], todo) = 4 * all + 6
    BY <1>3 DEF ReadAccess, Left, all
  <2>2. ASSUME NEW groups \in access[job[q].agent], WithGroups(q, "groups", groups)
        PROVE  StepsLeft(q)' < StepsLeft(q)
    <3>1. groups \in SUBSET Groups
      BY <1>1, <2>1 DEF QueryTypes
    <3>2. Left("groups", groups) = 4 * all + 3
      BY DEF Left, all
    <3> QED BY <1>2, <2>1, <2>2, <3>1, <3>2, WithGroupsAdvances
  <2>3. CASE Goto(q, "policies", job[q])
    <3>1. Left("policies", todo) = 4 * all + 5
      BY DEF Left, all
    <3> QED BY <1>1, <1>2, <2>1, <2>3, <3>1, GotoAdvances
  <2> QED BY <1>3, <2>2, <2>3 DEF ReadAccess
<1>4. CASE EvaluatePolicies(q)
  <2> DEFINE j == [job[q] EXCEPT !.todo = GroupsOf(job[q].agent)]
  <2>1. at[q] = "policies" /\ Goto(q, "keep", j)
    BY <1>4 DEF EvaluatePolicies
  <2>2. Left(at[q], todo) = 4 * all + 5 /\ Left("keep", j.todo) = 4 * all + 4
    BY <2>1 DEF Left, all
  <2> HIDE DEF j
  <2> QED BY <1>1, <1>2, <2>1, <2>2, GotoAdvances
<1>5. CASE KeepAccess(q)
  <2>1. at[q] = "keep" /\ WithGroups(q, "groups", todo)
    BY <1>5 DEF KeepAccess
  <2>2. Left(at[q], todo) = 4 * all + 4 /\ Left("groups", todo) = 4 * all + 3
    BY <2>1 DEF Left, all
  <2> QED BY <1>1, <1>2, <2>1, <2>2, WithGroupsAdvances
<1>6. CASE ReadGroups(q)
  <2> DEFINE groups == todo \cap ActiveGroups
  <2>1. at[q] = "groups" /\ WithGroups(q, "manifest", groups)
    BY <1>6 DEF ReadGroups
  <2>2. groups \in SUBSET Groups
    BY <1>1
  <2>3. Cardinality(groups) \in Nat /\ Cardinality(groups) <= all
    BY <2>2, GroupsCounted DEF all
  <2>4. /\ Left(at[q], todo) = 4 * all + 3
        /\ Left("manifest", groups) = 4 * Cardinality(groups) + 2
    BY <2>1 DEF Left, all
  <2> HIDE DEF groups
  <2>5. Left("manifest", groups) < Left(at[q], todo)
    BY <1>2, <2>3, <2>4
  <2> QED BY <2>1, <2>2, <2>5, WithGroupsAdvances
<1>7. ASSUME NEW g \in Groups, ReadManifest(q, g)
      PROVE  StepsLeft(q)' < StepsLeft(q)
  <2>1. at[q] = "manifest" /\ g \in todo
    BY <1>7 DEF ReadManifest
  <2>2. ASSUME NEW tools \in manifest[g], Collect(q, g, tools)
        PROVE  StepsLeft(q)' < StepsLeft(q)
    BY <1>1, <2>1, <2>2, CollectAdvances
  <2>3. CASE Goto(q, "load", [job[q] EXCEPT !.cur = g])
    <3> DEFINE j == [job[q] EXCEPT !.cur = g]
    <3>1. j.todo = todo
      BY <1>1 DEF Job
    <3>2. Left(at[q], todo) = 4 * left + 2 /\ Left("load", todo) = 4 * left + 1
      BY <2>1 DEF Left, left
    <3>3. Goto(q, "load", j)
      BY <2>3
    <3> HIDE DEF j
    <3> QED BY <1>1, <1>2, <3>1, <3>2, <3>3, GotoAdvances
  <2> QED BY <1>7, <2>2, <2>3 DEF ReadManifest
<1>8. CASE LoadGroup(q)
  <2>1. at[q] = "load" /\ Left(at[q], todo) = 4 * left + 1
    BY <1>8 DEF LoadGroup, Left, left
  <2>2. CASE Collect(q, job[q].cur, {})
    BY <1>1, <2>1, <2>2, CollectAdvances
  <2>3. ASSUME NEW part, Goto(q, "store", [job[q] EXCEPT !.part = part])
        PROVE  StepsLeft(q)' < StepsLeft(q)
    <3> DEFINE j == [job[q] EXCEPT !.part = part]
    <3>1. j.todo = todo /\ Goto(q, "store", j)
      BY <1>1, <2>3 DEF Job
    <3>2. Left("store", todo) = 4 * left - 1
      BY DEF Left, left
    <3> HIDE DEF j
    <3> QED BY <1>1, <1>2, <2>1, <3>1, <3>2, GotoAdvances
  <2>4. ASSUME NEW dto, Goto(q, "match", [job[q] EXCEPT !.dto = dto])
        PROVE  StepsLeft(q)' < StepsLeft(q)
    <3> DEFINE j == [job[q] EXCEPT !.dto = dto]
    <3>1. j.todo = todo /\ Goto(q, "match", j)
      BY <1>1, <2>4 DEF Job
    <3>2. Left("match", todo) = 4 * left
      BY DEF Left, left
    <3> HIDE DEF j
    <3> QED BY <1>1, <1>2, <2>1, <3>1, <3>2, GotoAdvances
  <2> QED BY <1>8, <2>2, <2>3, <2>4 DEF LoadGroup
<1>9. CASE MatchTools(q)
  <2> DEFINE j == [job[q] EXCEPT !.part = Members(job[q].dto, Matched(job[q].dto)),
                                 !.dto = {}]
  <2>1. at[q] = "match" /\ Goto(q, "store", j)
    BY <1>9 DEF MatchTools
  <2>2. j.todo = todo
    BY <1>1 DEF Job
  <2>3. Left(at[q], todo) = 4 * left /\ Left("store", todo) = 4 * left - 1
    BY <2>1 DEF Left, left
  <2> HIDE DEF j
  <2> QED BY <1>1, <1>2, <2>1, <2>2, <2>3, GotoAdvances
<1>10. CASE StoreManifest(q)
  <2>1. at[q] = "store" /\ Collect(q, job[q].cur, job[q].part)
    BY <1>10 DEF StoreManifest
  <2> QED BY <1>1, <2>1, CollectAdvances
<1>11. CASE Answer(q)
  <2>1. at[q] = "tools" /\ (End(q) \/ Goto(q, "execute", job[q]))
    BY <1>11 DEF Answer
  <2>2. Left(at[q], todo) = 2 /\ Left("execute", todo) = 1
    BY <2>1 DEF Left
  <2> QED BY <1>1, <2>1, <2>2, EndAdvances, GotoAdvances
<1>12. CASE Execute(q)
  BY <1>12, EndAdvances DEF Execute
<1> QED BY <1>3, <1>4, <1>5, <1>6, <1>7, <1>8, <1>9, <1>10, <1>11, <1>12 DEF Step

\* Nobody else touches what a query has gathered.
LEMMA JobsApart ==
  ASSUME QueryTypes, [Next]_vars, NEW q \in Queries, at[q] # "idle", ~Step(q)
  PROVE  UNCHANGED <<at[q], job[q]>>
<1>1. ASSUME NEW r \in Queries, Step(r)
      PROVE  UNCHANGED <<at[q], job[q]>>
  <2>0. r # q
    BY <1>1
  <2>g. \A point, j : Goto(r, point, j) => UNCHANGED <<at[q], job[q]>>
    BY <2>0 DEF Goto, QueryTypes
  <2>e. End(r) => UNCHANGED <<at[q], job[q]>>
    BY <2>0 DEF End, QueryTypes
  <2>w. \A point, groups : WithGroups(r, point, groups) => UNCHANGED <<at[q], job[q]>>
    BY <2>g, <2>e DEF WithGroups
  <2>c. \A g, tools : Collect(r, g, tools) => UNCHANGED <<at[q], job[q]>>
    BY <2>g DEF Collect
  <2>1. CASE ReadAccess(r) \/ EvaluatePolicies(r) \/ KeepAccess(r) \/ ReadGroups(r)
    BY <2>1, <2>g, <2>w DEF ReadAccess, EvaluatePolicies, KeepAccess, ReadGroups
  <2>2. CASE \E g \in Groups : ReadManifest(r, g)
    BY <2>2, <2>g, <2>c DEF ReadManifest
  <2>3. CASE LoadGroup(r) \/ MatchTools(r) \/ StoreManifest(r)
    BY <2>3, <2>g, <2>c DEF LoadGroup, MatchTools, StoreManifest
  <2>4. CASE Answer(r) \/ Execute(r)
    BY <2>4, <2>g, <2>e DEF Answer, Execute
  <2> QED BY <1>1, <2>1, <2>2, <2>3, <2>4 DEF Step
<1>2. ASSUME NEW r \in Queries, NEW a \in Agents, Begin(r, a)
      PROVE  UNCHANGED <<at[q], job[q]>>
  <2>1. r # q
    BY <1>2 DEF Begin
  <2> QED BY <1>2, <2>1 DEF Begin, QueryTypes
<1>3. Catalog \/ (\E t \in Tools : SwitchTool(t)) \/ UNCHANGED vars
        \/ (\E b \in Agents : ExpireAccess(b)) \/ (\E g \in Groups : ExpireManifest(g))
      => UNCHANGED <<at, job>>
  BY DEF Catalog, SwitchTool, vars, ExpireAccess, ExpireManifest
<1> QED BY <1>1, <1>2, <1>3 DEF Next

(* Queries only go forward, group by group, for any number of groups, of   *)
(* queries over the same caches and of changes under way.                  *)
THEOREM QueriesGoForward == Spec => QueriesAdvance
<1>1. ASSUME ResolutionIInv, [Next]_vars
      PROVE  [\A q \in Queries : at[q] # "idle" =>
                \/ Step(q) /\ StepsLeft(q)' < StepsLeft(q)
                \/ ~Step(q) /\ UNCHANGED <<at[q], job[q]>>]_vars
  <2>1. QueryIInv /\ QueryTypes
    BY <1>1 DEF ResolutionIInv, QueryIInv
  <2>2. ASSUME NEW q \in Queries, at[q] # "idle"
        PROVE  \/ Step(q) /\ StepsLeft(q)' < StepsLeft(q)
               \/ ~Step(q) /\ UNCHANGED <<at[q], job[q]>>
    BY <1>1, <2>1, <2>2, QueryAdvances, JobsApart
  <2> QED BY <2>2
<1> QED BY <1>1, ResolutionConsistent, PTL DEF Spec, QueriesAdvance
=============================================================================
