-------------------------- MODULE BlueprintsProofs --------------------------
(***************************************************************************)
(* Proofs about Blueprints: an update that gives items saves exactly those *)
(* and a form is saved only over what it was opened on, for any templates, *)
(* definitions, administrators, lists of items and number of writes.       *)
(***************************************************************************)
EXTENDS Blueprints, TLAPS

-----------------------------------------------------------------------------
(* Sequences. *)

LEMMA RemoveAtFacts ==
  ASSUME NEW S, NEW s \in Seq(S), NEW i \in DOMAIN s
  PROVE  /\ RemoveAt(s, i) \in Seq(S)
         /\ Len(RemoveAt(s, i)) = Len(s) - 1
         /\ \A k \in 1 .. Len(s) - 1 :
              RemoveAt(s, i)[k] = IF k < i THEN s[k] ELSE s[k + 1]
<1>1. i \in 1 .. Len(s)
  OBVIOUS
<1> DEFINE u == SubSeq(s, 1, i - 1)
           v == SubSeq(s, i + 1, Len(s))
<1>2. /\ u \in Seq(S) /\ Len(u) = i - 1
      /\ \A k \in 1 .. i - 1 : u[k] = s[k]
  BY <1>1
<1>3. /\ v \in Seq(S) /\ Len(v) = Len(s) - i
      /\ \A k \in 1 .. Len(s) - i : v[k] = s[i + k]
  BY <1>1
<1>4. RemoveAt(s, i) = u \o v
  BY DEF RemoveAt
<1> HIDE DEF u, v
<1> QED
  BY <1>1, <1>2, <1>3, <1>4

LEMMA InsertAtFacts ==
  ASSUME NEW S, NEW s \in Seq(S), NEW i \in 1 .. Len(s) + 1, NEW e \in S
  PROVE  /\ InsertAt(s, i, e) \in Seq(S)
         /\ Len(InsertAt(s, i, e)) = Len(s) + 1
         /\ \A k \in 1 .. Len(s) + 1 :
              InsertAt(s, i, e)[k] = IF k < i THEN s[k] ELSE IF k = i THEN e ELSE s[k - 1]
<1> DEFINE u == SubSeq(s, 1, i - 1)
           v == SubSeq(s, i, Len(s))
<1>2. /\ u \in Seq(S) /\ Len(u) = i - 1
      /\ \A k \in 1 .. i - 1 : u[k] = s[k]
  OBVIOUS
<1>3. /\ v \in Seq(S) /\ Len(v) = Len(s) - i + 1
      /\ \A k \in 1 .. Len(s) - i + 1 : v[k] = s[i + k - 1]
  OBVIOUS
<1>4. InsertAt(s, i, e) = u \o <<e>> \o v
  BY DEF InsertAt
<1> HIDE DEF u, v
<1> DEFINE w == u \o <<e>>
<1>5. /\ w \in Seq(S) /\ Len(w) = i
      /\ \A k \in 1 .. i : w[k] = IF k < i THEN s[k] ELSE e
  BY <1>2
<1> HIDE DEF w
<1>6. /\ w \o v \in Seq(S) /\ Len(w \o v) = Len(s) + 1
      /\ \A k \in 1 .. Len(s) + 1 :
           (w \o v)[k] = IF k <= i THEN w[k] ELSE v[k - i]
  BY <1>3, <1>5
<1>7. InsertAt(s, i, e) = w \o v
  BY <1>4 DEF w
<1> QED
  BY <1>3, <1>5, <1>6, <1>7

-----------------------------------------------------------------------------
(* Lists of items. *)

(* No two items of a list have the same identifier. *)
Unique(items) ==
  \A j, k \in DOMAIN items : items[j].id = items[k].id => j = k

LEMMA ItemFound ==
  ASSUME NEW items, NEW id \in IdsOf(items)
  PROVE  /\ PositionOf(items, id) \in DOMAIN items
         /\ items[PositionOf(items, id)].id = id
         /\ ItemOf(items, id) = items[PositionOf(items, id)]
<1>1. PICK k \in DOMAIN items : items[k].id = id
  BY DEF IdsOf
<1> QED
  BY <1>1 DEF PositionOf, ItemOf

LEMMA ItemAt ==
  ASSUME NEW items, Unique(items), NEW k \in DOMAIN items
  PROVE  ItemOf(items, items[k].id) = items[k]
<1>1. items[k].id \in IdsOf(items)
  BY DEF IdsOf
<1> QED
  BY <1>1, ItemFound DEF Unique

(* Each event about the items leaves a list without doubles. *)
LEMMA RemovedUnique ==
  ASSUME NEW items \in Seq(Item), Unique(items), NEW id \in IdsOf(items)
  PROVE  Removed(items, id) \in Seq(Item) /\ Unique(Removed(items, id))
<1> DEFINE i == PositionOf(items, id)
           r == RemoveAt(items, i)
<1>1. i \in DOMAIN items
  BY ItemFound
<1> HIDE DEF i
<1>2. /\ r \in Seq(Item) /\ Len(r) = Len(items) - 1
      /\ \A k \in 1 .. Len(items) - 1 : r[k] = IF k < i THEN items[k] ELSE items[k + 1]
  BY <1>1, RemoveAtFacts
<1> HIDE DEF r
<1>3. Unique(r)
  <2> SUFFICES ASSUME NEW j \in DOMAIN r, NEW k \in DOMAIN r, r[j].id = r[k].id
               PROVE  j = k
    BY DEF Unique
  <2>1. /\ j \in 1 .. Len(items) - 1 /\ k \in 1 .. Len(items) - 1
        /\ r[j] = IF j < i THEN items[j] ELSE items[j + 1]
        /\ r[k] = IF k < i THEN items[k] ELSE items[k + 1]
    BY <1>2
  <2>2. \A m, n \in 1 .. Len(items) : items[m].id = items[n].id => m = n
    BY DEF Unique
  <2> QED
    BY <1>1, <2>1, <2>2
<1> QED
  BY <1>2, <1>3 DEF Removed, i, r

LEMMA RefreshedUnique ==
  ASSUME NEW items \in Seq(Item), Unique(items),
         NEW item \in Item, item.id \in IdsOf(items)
  PROVE  Refreshed(items, item) \in Seq(Item) /\ Unique(Refreshed(items, item))
<1> DEFINE i == PositionOf(items, item.id)
<1>1. i \in DOMAIN items /\ items[i].id = item.id
  BY ItemFound
<1> HIDE DEF i
<1>2. [items EXCEPT ![i] = item] \in Seq(Item)
  BY <1>1
<1>3. \A k \in DOMAIN items : [items EXCEPT ![i] = item][k].id = items[k].id
  BY <1>1
<1> QED
  BY <1>2, <1>3 DEF Refreshed, i, Unique

LEMMA PlacedUnique ==
  ASSUME NEW items \in Seq(Item), Unique(items),
         NEW item \in Item, item.id \notin IdsOf(items)
  PROVE  Placed(items, item) \in Seq(Item) /\ Unique(Placed(items, item))
<1> DEFINE i == 1 + (IF item.order < Len(items) THEN item.order ELSE Len(items))
           r == InsertAt(items, i, item)
<1>1. i \in 1 .. Len(items) + 1
  BY BlueprintsAssumption
<1> HIDE DEF i
<1>2. /\ r \in Seq(Item) /\ Len(r) = Len(items) + 1
      /\ \A k \in 1 .. Len(items) + 1 :
           r[k] = IF k < i THEN items[k] ELSE IF k = i THEN item ELSE items[k - 1]
  BY <1>1, InsertAtFacts
<1> HIDE DEF r
<1>3. Unique(r)
  <2> SUFFICES ASSUME NEW j \in DOMAIN r, NEW k \in DOMAIN r, r[j].id = r[k].id
               PROVE  j = k
    BY DEF Unique
  <2>1. /\ j \in 1 .. Len(items) + 1 /\ k \in 1 .. Len(items) + 1
        /\ r[j] = IF j < i THEN items[j] ELSE IF j = i THEN item ELSE items[j - 1]
        /\ r[k] = IF k < i THEN items[k] ELSE IF k = i THEN item ELSE items[k - 1]
    BY <1>2
  <2>2. \A m, n \in 1 .. Len(items) : items[m].id = items[n].id => m = n
    BY DEF Unique
  <2>3. \A m \in 1 .. Len(items) : items[m].id # item.id
    BY DEF IdsOf
  <2>4. CASE j < i
    <3>1. j \in 1 .. Len(items) /\ r[j] = items[j]
      BY <1>1, <2>1, <2>4
    <3> QED BY <1>1, <2>1, <2>2, <2>3, <2>4, <3>1
  <2>5. CASE j = i
    <3>1. r[j] = item
      BY <1>1, <2>1, <2>5
    <3> QED BY <1>1, <2>1, <2>2, <2>3, <2>5, <3>1
  <2>6. CASE j > i
    <3>1. j - 1 \in 1 .. Len(items) /\ r[j] = items[j - 1]
      BY <1>1, <2>1, <2>6
    <3> QED BY <1>1, <2>1, <2>2, <2>3, <2>6, <3>1
  <2> QED
    BY <1>1, <2>1, <2>4, <2>5, <2>6
<1> QED
  BY <1>2, <1>3 DEF Placed, i, r

(* Once nothing is gone, changed or added, only the order is left to do. *)
LEMMA OnlyOrder ==
  ASSUME NEW items \in Seq(Item), Unique(items),
         NEW wanted \in Seq(Item), Unique(wanted),
         Gone(items, wanted) \cup Changed(items, wanted) \cup Added(items, wanted) = {}
  PROVE  /\ Reordered(items, OrderOf(wanted)) = wanted
         /\ OrderOf(items) = OrderOf(wanted) => items = wanted
<1>1. \A id \in IdsOf(wanted) : ItemOf(items, id) = ItemOf(wanted, id)
  BY DEF Gone, Changed, Added
<1>2. \A k \in DOMAIN wanted : ItemOf(items, wanted[k].id) = wanted[k]
  BY <1>1, ItemAt DEF IdsOf
<1>3. Reordered(items, OrderOf(wanted)) = [k \in DOMAIN wanted |-> wanted[k]]
  BY <1>2 DEF Reordered, OrderOf
<1>4. ASSUME OrderOf(items) = OrderOf(wanted)
      PROVE  items = wanted
  <2>1. /\ DOMAIN items = DOMAIN wanted
        /\ \A k \in DOMAIN wanted : items[k].id = wanted[k].id
    <3>1. DOMAIN OrderOf(items) = DOMAIN items /\ DOMAIN OrderOf(wanted) = DOMAIN wanted
      BY DEF OrderOf
    <3>2. \A k \in DOMAIN items : OrderOf(items)[k] = items[k].id
      BY DEF OrderOf
    <3>3. \A k \in DOMAIN wanted : OrderOf(wanted)[k] = wanted[k].id
      BY DEF OrderOf
    <3> QED BY <1>4, <3>1, <3>2, <3>3
  <2>2. \A k \in DOMAIN wanted : items[k] = wanted[k]
    BY <1>2, <2>1, ItemAt
  <2> QED BY <2>1, <2>2
<1> QED
  BY <1>3, <1>4

-----------------------------------------------------------------------------
(* Types, and the items of documents. *)

(* Documents have no item twice, whether stored or being worked on, and an *)
(* update that goes through items has been given some.                     *)
ItemsOnce ==
  /\ \A x \in Ids : \A k \in DOMAIN store[x] : Unique(store[x][k].items)
  /\ \A a \in Admins : at[a] # "idle" => Unique(job[a].doc.items)
  /\ \A a \in Admins : at[a] = "sync" => job[a].wanted \in ItemLists

ItemsInv == TypeOK /\ ItemsOnce /\ ItemsReplaced

LEMMA ListsUnique ==
  ASSUME NEW l \in ItemLists
  PROVE  l \in Seq(Item) /\ Unique(l)
BY BlueprintsAssumption DEF Unique

LEMMA NewDocType ==
  ASSUME NEW x \in Ids, NEW text \in Texts, NEW l \in ItemLists
  PROVE  NewDoc(x, text, l) \in Doc /\ Unique(NewDoc(x, text, l).items)
<1>1. Unique(<<>>) /\ <<>> \in Seq(Item)
  BY DEF Unique
<1> QED
  BY <1>1, ListsUnique DEF NewDoc, Doc

LEMMA SeedDocType ==
  ASSUME NEW x \in Ids
  PROVE  SeedDoc(x) \in Doc /\ Unique(SeedDoc(x).items)
<1>1. (CHOOSE t \in Texts : TRUE) \in Texts /\ First \in ItemLists
  BY BlueprintsAssumption
<1> QED
  BY <1>1, NewDocType DEF SeedDoc

LEMMA ItemsInit == Init => ItemsInv
<1> SUFFICES ASSUME Init PROVE ItemsInv
  OBVIOUS
<1>1. store \in [Ids -> Seq(Doc)]
  BY SeedDocType DEF Init
<1>2. \A x \in Ids : \A k \in DOMAIN store[x] : Unique(store[x][k].items)
  BY SeedDocType DEF Init
<1>3. MaxResets \in Nat /\ None \notin Ids
  BY BlueprintsAssumption
<1>4. NoReset \in Reset
  BY DEF NoReset, Reset
<1> QED
  BY <1>1, <1>2, <1>3, <1>4 DEF Init, ItemsInv, TypeOK, ItemsOnce, ItemsReplaced

(* What a request waits for and works on is set for one administrator. *)
LEMMA JobType ==
  ASSUME TypeOK, NEW a \in Admins, at[a] # "idle"
  PROVE  /\ job[a] \in Jobs
         /\ job[a].of \in Ids /\ job[a].doc \in Doc
         /\ job[a].wanted \in ItemLists \cup {None}
BY DEF TypeOK, Jobs

LEMMA FoundType ==
  ASSUME TypeOK, NEW x \in Ids, ~ Absent(x)
  PROVE  /\ Found(x) \in Doc /\ 1 \in DOMAIN store[x]
         /\ store[x] \in Seq(Doc) /\ Len(store[x]) >= 1
BY DEF TypeOK, Absent, Found

(* A document with other items, or another text, and the next version. *)
LEMMA WithItemsType ==
  ASSUME NEW doc \in Doc, NEW l \in Seq(Item)
  PROVE  /\ WithItems(doc, l) \in Doc
         /\ WithItems(doc, l).items = l /\ WithItems(doc, l).stamp = doc.stamp
         /\ WithItems(doc, l).version = doc.version + 1
<1>1. PICK v \in Nat : v = doc.version + 1
  BY DEF Doc
<1> DEFINE e == [doc EXCEPT !.items = l, !.version = v]
<1>2. e \in Doc /\ e.items = l /\ e.stamp = doc.stamp /\ e.version = v
  BY DEF Doc
<1>3. WithItems(doc, l) = e
  BY <1>1 DEF WithItems
<1> HIDE DEF e
<1> QED BY <1>1, <1>2, <1>3

LEMMA NextText ==
  ASSUME NEW doc \in Doc, NEW text \in Texts,
         NEW d, d = [doc EXCEPT !.text = text, !.version = @ + 1]
  PROVE  /\ d \in Doc
         /\ d.items = doc.items /\ d.stamp = doc.stamp /\ d.version = doc.version + 1
<1>1. PICK v \in Nat : v = doc.version + 1
  BY DEF Doc
<1> DEFINE e == [doc EXCEPT !.text = text, !.version = v]
<1>2. e \in Doc /\ e.items = doc.items /\ e.stamp = doc.stamp /\ e.version = v
  BY DEF Doc
<1>3. d = e
  BY <1>1
<1> HIDE DEF e
<1> QED BY <1>1, <1>2, <1>3

LEMMA RetextedType ==
  ASSUME NEW doc \in Doc, NEW text \in Texts \cup {None}
  PROVE  /\ Retexted(doc, text) \in Doc
         /\ Retexted(doc, text).items = doc.items
         /\ Retexted(doc, text).stamp = doc.stamp
         /\ \/ Retexted(doc, text) = doc
            \/ Retexted(doc, text).version = doc.version + 1
<1>1. CASE text = None
  BY <1>1 DEF Retexted
<1>2. CASE text # None
  <2>1. Retexted(doc, text) = [doc EXCEPT !.text = text, !.version = @ + 1]
    BY <1>2 DEF Retexted
  <2>2. text \in Texts
    BY <1>2
  <2> QED BY <2>1, <2>2, NextText
<1> QED BY <1>1, <1>2

LEMMA AwaitItems ==
  ASSUME ItemsInv, NEW a \in Admins, NEW x \in Ids, NEW doc \in Doc, Unique(doc.items),
         NEW point \in {"sync", "write", "add", "mark"},
         NEW wanted \in ItemLists \cup {None},
         point = "sync" <=> wanted # None,
         Await(a, point, x, doc, wanted)
  PROVE  ItemsInv'
<1> DEFINE j == [of |-> x, doc |-> doc, wanted |-> wanted]
<1>1. j \in Jobs /\ j # NoJob
  BY DEF Jobs, NoJob
<1>2. /\ at' = [at EXCEPT ![a] = point] /\ job' = [job EXCEPT ![a] = j]
      /\ UNCHANGED <<store, form, reset, resets, created>>
  BY DEF Await, resetVars
<1> HIDE DEF j
<1>3. TypeOK'
  BY <1>1, <1>2 DEF ItemsInv, TypeOK
<1>4. j.wanted = wanted /\ j.doc = doc
  BY DEF j
<1>5. ItemsOnce'
  BY <1>2, <1>4 DEF ItemsInv, ItemsOnce, TypeOK
<1>6. ItemsReplaced'
  BY <1>2, <1>4 DEF ItemsInv, ItemsReplaced, TypeOK
<1> QED
  BY <1>3, <1>5, <1>6 DEF ItemsInv

(* Stores with documents as they should be. *)
StoreOK(s) ==
  /\ s \in [Ids -> Seq(Doc)]
  /\ \A x \in Ids : \A k \in DOMAIN s[x] : Unique(s[x][k].items)

LEMMA ReplaceOK ==
  ASSUME StoreOK(store), NEW x \in Ids, NEW doc \in Doc, Unique(doc.items), Replace(x, doc)
  PROVE  StoreOK(store')
<1>1. PICK k \in DOMAIN store[x] : store' = [store EXCEPT ![x][k] = [doc EXCEPT !.stamp = @ + 1]]
  BY DEF Replace, Unchanged
<1> DEFINE d == [doc EXCEPT !.stamp = @ + 1]
<1>2. d \in Doc /\ d.items = doc.items
  BY DEF Doc
<1> HIDE DEF d
<1>3. store' = [store EXCEPT ![x] = [store[x] EXCEPT ![k] = d]]
  BY <1>1 DEF d, StoreOK
<1>4. [store[x] EXCEPT ![k] = d] \in Seq(Doc)
  BY <1>1, <1>2 DEF StoreOK
<1> QED
  BY <1>2, <1>3, <1>4 DEF StoreOK

LEMMA InsertOK ==
  ASSUME StoreOK(store), created \in [Ids -> Nat],
         NEW x \in Ids, NEW doc \in Doc, Unique(doc.items), Insert(x, doc)
  PROVE  StoreOK(store') /\ created' \in [Ids -> Nat]
<1>1. store' = [store EXCEPT ![x] = Append(store[x], doc)]
  BY DEF Insert
<1>2. store[x] \in Seq(Doc)
  BY DEF StoreOK
<1>3. /\ Append(store[x], doc) \in Seq(Doc)
      /\ \A k \in DOMAIN Append(store[x], doc) : Unique(Append(store[x], doc)[k].items)
  BY <1>2 DEF StoreOK
<1> QED
  BY <1>1, <1>3 DEF StoreOK, Insert

LEMMA Delete1OK ==
  ASSUME StoreOK(store), NEW x \in Ids, Delete1(x)
  PROVE  StoreOK(store')
<1>1. store[x] \in Seq(Doc)
  BY DEF StoreOK
<1> DEFINE t == IF store[x] = <<>> THEN store[x] ELSE Tail(store[x])
<1>2. /\ t \in Seq(Doc)
      /\ \A k \in DOMAIN t : Unique(t[k].items)
  BY <1>1 DEF StoreOK
<1>3. store' = [store EXCEPT ![x] = t]
  BY DEF Delete1
<1> QED
  BY <1>2, <1>3 DEF StoreOK

(* The end of a request: its job is forgotten, the others are as before. *)
LEMMA AnswerItems ==
  ASSUME ItemsInv, NEW a \in Admins, Answer(a),
         StoreOK(store'), created' \in [Ids -> Nat],
         form' \in [Admins -> Forms \cup {NoForm}]
  PROVE  ItemsInv'
<1>1. TypeOK'
  BY DEF ItemsInv, TypeOK, Answer, resetVars, StoreOK
<1>2. ItemsOnce'
  BY DEF ItemsInv, ItemsOnce, TypeOK, Answer, StoreOK
<1>3. ItemsReplaced'
  BY DEF ItemsInv, ItemsReplaced, TypeOK, Answer
<1> QED
  BY <1>1, <1>2, <1>3 DEF ItemsInv

LEMMA ShowType ==
  ASSUME form \in [Admins -> Forms \cup {NoForm}],
         NEW a \in Admins, NEW x \in Ids, NEW doc \in Doc, Show(a, x, doc)
  PROVE  form' \in [Admins -> Forms \cup {NoForm}]
<1>1. Content(doc) \in Dto
  BY DEF Content, Dto, Doc
<1> QED
  BY <1>1 DEF Show, Forms

LEMMA RequestItems ==
  ASSUME ItemsInv, NEW a \in Admins, Request(a)
  PROVE  ItemsInv'
<1> USE DEF ItemsInv
<1>0. StoreOK(store)
  BY DEF TypeOK, ItemsOnce, StoreOK
<1>1. CASE \E x \in Ids : View(a, x)
  <2>1. PICK x \in Ids : View(a, x)
    BY <1>1
  <2>2. form' \in [Admins -> Forms \cup {NoForm}]
    BY <2>1, FoundType, ShowType DEF View, TypeOK
  <2> QED
    BY <2>1, <2>2 DEF View, TypeOK, ItemsOnce, ItemsReplaced, resetVars
<1>2. CASE \E text \in Texts \cup {None}, wanted \in ItemLists \cup {None} : Update(a, text, wanted)
  <2>1. PICK text \in Texts \cup {None}, wanted \in ItemLists \cup {None} : Update(a, text, wanted)
    BY <1>2
  <2> DEFINE x == form[a].of
  <2>2. x \in Ids
    BY <2>1 DEF Update, TypeOK, Forms
  <2>3. Found(x) \in Doc /\ Unique(Found(x).items)
    BY <2>1, <2>2, FoundType DEF Update, ItemsOnce, Found
  <2>4. Retexted(Found(x), text) \in Doc /\ Unique(Retexted(Found(x), text).items)
    BY <2>3, RetextedType
  <2>5. Await(a, IF wanted = None THEN "write" ELSE "sync", x, Retexted(Found(x), text), wanted)
    BY <2>1 DEF Update
  <2> HIDE DEF x
  <2>6. CASE wanted = None
    <3>1. Await(a, "write", x, Retexted(Found(x), text), wanted)
      BY <2>5, <2>6
    <3> QED BY <2>2, <2>4, <2>6, <3>1, AwaitItems
  <2>7. CASE wanted # None
    <3>1. Await(a, "sync", x, Retexted(Found(x), text), wanted)
      BY <2>5, <2>7
    <3> QED BY <2>2, <2>4, <2>7, <3>1, AwaitItems
  <2> QED
    BY <2>6, <2>7
<1>3. CASE \E x \in Ids, text \in Texts, items \in ItemLists : Create(a, x, text, items)
  <2>1. PICK x \in Ids, text \in Texts, items \in ItemLists : Create(a, x, text, items)
    BY <1>3
  <2> QED
    BY <2>1, NewDocType, AwaitItems DEF Create
<1>4. CASE \E x \in Ids, checked \in BOOLEAN : Delete(a, x, checked)
  <2>1. PICK x \in Ids, checked \in BOOLEAN : Delete(a, x, checked)
    BY <1>4
  <2>2. Found(x) \in Doc /\ Unique(Found(x).items)
    BY <2>1, FoundType DEF Delete, ItemsOnce, Found
  <2> QED
    BY <2>1, <2>2, AwaitItems DEF Delete
<1>5. ASSUME at[a] # "idle"
      PROVE  job[a].of \in Ids /\ job[a].doc \in Doc /\ Unique(job[a].doc.items)
  BY <1>5, JobType DEF ItemsOnce
<1>6. CASE Write(a)
  BY <1>0, <1>5, <1>6, ReplaceOK, ShowType, AnswerItems DEF Write, TypeOK
<1>7. CASE Add(a)
  BY <1>0, <1>5, <1>7, InsertOK, ShowType, AnswerItems DEF Add, TypeOK
<1>8. CASE Mark(a)
  <2>1. StoreOK(store')
    BY <1>0, <1>5, <1>8, ReplaceOK DEF Mark
  <2> QED
    BY <1>8, <2>1 DEF Mark, StoreOK, TypeOK, ItemsOnce, ItemsReplaced, resetVars
<1>9. CASE Erase(a)
  BY <1>0, <1>5, <1>9, Delete1OK, AnswerItems DEF Erase, TypeOK
<1>10. CASE Fail(a)
  BY <1>0, <1>10, AnswerItems DEF Fail, TypeOK
<1> QED
  BY <1>1, <1>2, <1>3, <1>4, <1>6, <1>7, <1>8, <1>9, <1>10 DEF Request

LEMMA SyncItems ==
  ASSUME ItemsInv, NEW a \in Admins, at[a] = "sync", Sync(a) \/ Finish(a)
  PROVE  ItemsInv'
<1> DEFINE items == job[a].doc.items
           wanted == job[a].wanted
<1>0. /\ job[a] \in Jobs /\ job[a].doc \in Doc
      /\ items \in Seq(Item) /\ Unique(items)
      /\ wanted \in ItemLists /\ wanted \in Seq(Item) /\ Unique(wanted)
  BY JobType, ListsUnique DEF ItemsInv, ItemsOnce, Doc
<1> HIDE DEF items, wanted
<1>1. ASSUME NEW l, Apply(a, l), l \in Seq(Item), Unique(l)
      PROVE  ItemsInv'
  <2>1. PICK j : /\ j \in Jobs /\ j.doc.items = l /\ j.wanted = wanted
                 /\ job' = [job EXCEPT ![a] = j]
    <3> DEFINE d == WithItems(job[a].doc, l)
               j == [job[a] EXCEPT !.doc = d]
    <3>1. d \in Doc /\ d.items = l
      BY <1>0, <1>1, WithItemsType
    <3> HIDE DEF d
    <3>2. j \in Jobs /\ j.doc = d /\ j.wanted = wanted
      BY <1>0, <3>1 DEF Jobs, wanted
    <3>3. job' = [job EXCEPT ![a] = j]
      BY <1>1 DEF Apply, ItemsInv, TypeOK, d
    <3> HIDE DEF j
    <3> QED BY <3>1, <3>2, <3>3
  <2>2. j # NoJob
    BY <2>1 DEF Jobs, NoJob
  <2>3. UNCHANGED <<store, form, at, reset, resets, created>>
    BY <1>1 DEF Apply, resetVars
  <2>4. TypeOK'
    BY <2>1, <2>2, <2>3 DEF ItemsInv, TypeOK
  <2>5. ItemsOnce'
    BY <1>0, <1>1, <2>1, <2>3 DEF ItemsInv, ItemsOnce, TypeOK
  <2>6. ItemsReplaced'
    BY <2>1, <2>3 DEF ItemsInv, ItemsReplaced, TypeOK
  <2> QED BY <2>4, <2>5, <2>6 DEF ItemsInv
<1>2. \A id \in IdsOf(wanted) : ItemOf(wanted, id) \in Item /\ ItemOf(wanted, id).id = id
  BY <1>0, ItemFound
<1>3. CASE Sync(a)
  <2>1. CASE \E id \in Gone(items, wanted) : Apply(a, Removed(items, id))
    BY <1>0, <1>1, <2>1, RemovedUnique DEF Gone
  <2>2. CASE \E id \in Changed(items, wanted) : Apply(a, Refreshed(items, ItemOf(wanted, id)))
    BY <1>0, <1>1, <1>2, <2>2, RefreshedUnique DEF Changed
  <2>3. CASE \E id \in Added(items, wanted) : Apply(a, Placed(items, ItemOf(wanted, id)))
    BY <1>0, <1>1, <1>2, <2>3, PlacedUnique DEF Added
  <2> QED
    BY <1>3, <2>1, <2>2, <2>3 DEF Sync, items, wanted
<1>4. CASE Finish(a)
  <2>1. /\ Gone(items, wanted) \cup Changed(items, wanted) \cup Added(items, wanted) = {}
        /\ at' = [at EXCEPT ![a] = "write"]
        /\ job' = IF OrderOf(items) = OrderOf(wanted) THEN job
                  ELSE [job EXCEPT ![a].doc = WithItems(@, Reordered(items, OrderOf(wanted)))]
        /\ UNCHANGED <<store, form, reset, resets, created>>
    BY <1>4 DEF Finish, items, wanted, resetVars
  <2>2. /\ Reordered(items, OrderOf(wanted)) = wanted
        /\ OrderOf(items) = OrderOf(wanted) => items = wanted
    BY <1>0, <2>1, OnlyOrder
  <2>3. PICK j : /\ j \in Jobs /\ j.doc.items = wanted /\ j.wanted = wanted
                 /\ job' = [job EXCEPT ![a] = j]
    <3>1. CASE OrderOf(items) = OrderOf(wanted)
      <4>1. job' = [job EXCEPT ![a] = job[a]]
        BY <2>1, <3>1 DEF ItemsInv, TypeOK
      <4> QED BY <1>0, <2>2, <3>1, <4>1 DEF items, wanted
    <3>2. CASE OrderOf(items) # OrderOf(wanted)
      <4> DEFINE d == WithItems(job[a].doc, wanted)
                 j == [job[a] EXCEPT !.doc = d]
      <4>2. job' = [job EXCEPT ![a] = j]
        BY <2>1, <2>2, <3>2 DEF ItemsInv, TypeOK
      <4> HIDE DEF d
      <4>1. d \in Doc /\ d.items = wanted
        BY <1>0, WithItemsType DEF d
      <4>3. j \in Jobs /\ j.doc = d /\ j.wanted = wanted
        BY <1>0, <4>1 DEF Jobs, wanted
      <4> HIDE DEF j
      <4> QED BY <4>1, <4>2, <4>3
    <3> QED BY <3>1, <3>2
  <2>4. j # NoJob
    BY <2>3 DEF Jobs, NoJob
  <2>5. TypeOK'
    BY <2>1, <2>3, <2>4 DEF ItemsInv, TypeOK
  <2>6. ItemsOnce'
    BY <1>0, <2>1, <2>3 DEF ItemsInv, ItemsOnce, TypeOK
  <2>7. ItemsReplaced'
    BY <2>1, <2>3 DEF ItemsInv, ItemsReplaced, TypeOK
  <2> QED BY <2>5, <2>6, <2>7 DEF ItemsInv
<1> QED
  BY <1>3, <1>4

(* Steps of the reset and of a start leave the requests alone, or end them. *)
LEMMA QuietItems ==
  ASSUME ItemsInv, StoreOK(store'), created' \in [Ids -> Nat], reset' \in Reset,
         resets' \in 0 .. MaxResets, UNCHANGED requestVars
  PROVE  ItemsInv'
<1>1. TypeOK'
  BY DEF ItemsInv, TypeOK, StoreOK, requestVars
<1>2. ItemsOnce'
  BY DEF ItemsInv, ItemsOnce, StoreOK, requestVars
<1>3. ItemsReplaced'
  BY DEF ItemsInv, ItemsReplaced, requestVars
<1> QED
  BY <1>1, <1>2, <1>3 DEF ItemsInv

LEMMA ResettingItems ==
  ASSUME ItemsInv, Resetting
  PROVE  ItemsInv'
<1>0. StoreOK(store) /\ created \in [Ids -> Nat] /\ reset \in Reset
      /\ resets \in 0 .. MaxResets /\ MaxResets \in Nat
  BY BlueprintsAssumption DEF ItemsInv, TypeOK, ItemsOnce, StoreOK
<1>1. CASE Begin
  <2>1. reset' \in Reset /\ resets' \in 0 .. MaxResets
    BY <1>0, <1>1 DEF Begin, NoReset, Reset
  <2> QED BY <1>0, <1>1, <2>1, QuietItems DEF Begin
<1>2. CASE Drop
  <2>1. reset' \in Reset
    BY <1>0, <1>2 DEF Drop, Reset
  <2>2. StoreOK(store')
    <3>1. <<>> \in Seq(Doc) /\ DOMAIN <<>> = {}
      OBVIOUS
    <3>2. PICK S \in SUBSET Ids : store' = [x \in Ids |-> IF x \in S THEN <<>> ELSE store[x]]
      <4>1. PICK dropped \in BOOLEAN, p \in {"definitions", "templates"} :
              LET here == IF p = "definitions" THEN Definitions ELSE Templates
              IN store' = [x \in Ids |-> IF dropped /\ x \in here THEN <<>> ELSE store[x]]
        BY <1>2 DEF Drop
      <4> DEFINE here == IF p = "definitions" THEN Definitions ELSE Templates
                 S == {x \in Ids : dropped /\ x \in here}
      <4>2. store' = [x \in Ids |-> IF x \in S THEN <<>> ELSE store[x]]
        BY <4>1
      <4> QED BY <4>2
    <3> QED BY <1>0, <3>1, <3>2 DEF StoreOK
  <2> QED BY <1>0, <1>2, <2>1, <2>2, QuietItems DEF Drop
<1>3. CASE \E x \in Seeds : Seed(x)
  <2>1. reset' \in Reset
    BY <1>0, <1>3 DEF Seed, Reset
  <2> QED BY <1>0, <1>3, <2>1, QuietItems DEF Seed
<1>4. CASE AddSeed
  <2>1. reset' \in Reset /\ reset.adding \in Ids
    BY <1>0, <1>4, BlueprintsAssumption DEF AddSeed, Reset
  <2>2. StoreOK(store') /\ created' \in [Ids -> Nat]
    BY <1>0, <1>4, <2>1, SeedDocType, InsertOK DEF AddSeed
  <2> QED BY <1>0, <1>4, <2>1, <2>2, QuietItems DEF AddSeed
<1>5. CASE Done
  BY <1>0, <1>5, QuietItems DEF Done, NoReset, Reset
<1> QED
  BY <1>1, <1>2, <1>3, <1>4, <1>5 DEF Resetting

LEMMA RestartItems ==
  ASSUME ItemsInv, Restart
  PROVE  ItemsInv'
<1>0. StoreOK(store) /\ created \in [Ids -> Nat]
      /\ resets \in 0 .. MaxResets /\ MaxResets \in Nat
  BY BlueprintsAssumption DEF ItemsInv, TypeOK, ItemsOnce, StoreOK
<1>1. PICK missing \in SUBSET {x \in Seeds : Absent(x)} :
      /\ store' = [x \in Ids |-> IF x \in missing THEN <<SeedDoc(x)>> ELSE store[x]]
      /\ created' = [x \in Ids |-> IF x \in missing THEN created[x] + 1 ELSE created[x]]
      /\ at' = [a \in Admins |-> "idle"]
      /\ job' = [a \in Admins |-> NoJob]
      /\ reset' = NoReset /\ resets' \in 0 .. MaxResets /\ form' = form
  BY <1>0 DEF Restart
<1>2. StoreOK(store')
  <2>1. \A x \in Ids : <<SeedDoc(x)>> \in Seq(Doc) /\ \A k \in DOMAIN <<SeedDoc(x)>> : Unique(<<SeedDoc(x)>>[k].items)
    BY SeedDocType
  <2> QED BY <1>0, <1>1, <2>1 DEF StoreOK
<1>3. NoReset \in Reset
  BY DEF NoReset, Reset
<1>4. TypeOK'
  BY <1>0, <1>1, <1>2, <1>3 DEF ItemsInv, TypeOK, StoreOK
<1>5. ItemsOnce' /\ ItemsReplaced'
  BY <1>1, <1>2 DEF ItemsOnce, ItemsReplaced, StoreOK
<1> QED
  BY <1>4, <1>5 DEF ItemsInv

LEMMA ItemsStep == ItemsInv /\ [Next]_vars => ItemsInv'
<1> SUFFICES ASSUME ItemsInv, [Next]_vars PROVE ItemsInv'
  OBVIOUS
<1>1. ASSUME NEW a \in Admins, Sync(a) \/ Finish(a)
      PROVE  ItemsInv'
  BY <1>1, SyncItems DEF Sync, Finish
<1>2. CASE UNCHANGED vars
  BY <1>2 DEF vars, requestVars, resetVars, ItemsInv, TypeOK, ItemsOnce, ItemsReplaced
<1> QED
  BY <1>1, <1>2, RequestItems, ResettingItems, RestartItems DEF Next

(* The types of the variables are right in every state. *)
THEOREM BlueprintsTypeCorrect == Spec => []TypeOK
<1>1. Spec => []ItemsInv
  BY ItemsInit, ItemsStep, PTL DEF Spec
<1>2. ItemsInv => TypeOK
  BY DEF ItemsInv
<1> QED BY <1>1, <1>2, PTL

(* An update that gives items saves exactly those, in their order, for any *)
(* lists of items and in whatever order the new items are visited.         *)
THEOREM UpdatesSaveTheItems == Spec => []ItemsReplaced
<1>1. Spec => []ItemsInv
  BY ItemsInit, ItemsStep, PTL DEF Spec
<1>2. ItemsInv => ItemsReplaced
  BY DEF ItemsInv
<1> QED BY <1>1, <1>2, PTL

-----------------------------------------------------------------------------
(* Versions: as long as an identifier has not been used again.             *)

Updating(a) == at[a] \in {"sync", "write"}

\* before x is stored, nobody has seen it and only additions are under way
Untouched(x) ==
  created[x] = 0 =>
    \A a \in Admins : /\ form[a].of # x
                      /\ at[a] # "idle" /\ job[a].of = x => at[a] = "add"

FormsAgree(x) ==
  \A a, b \in Admins :
    /\ form[a].of = x /\ form[b].of = x
    /\ form[a].dto.version = form[b].dto.version
    => form[a].dto = form[b].dto

\* the document that is stored is the last version there has been
FormsBehind(x) ==
  \A a \in Admins : form[a].of = x /\ ~ Absent(x) =>
    /\ form[a].dto.version <= Found(x).version
    /\ form[a].dto.version = Found(x).version => form[a].dto = Content(Found(x))

\* an update works on what its form shows, unless it has been overtaken
UpdatesFollow(x) ==
  \A a \in Admins : Updating(a) /\ job[a].of = x =>
    /\ form[a].dto.version <= job[a].doc.version
    /\ form[a].dto.version = job[a].doc.version => form[a].dto = Content(job[a].doc)
    /\ ~ Absent(x) =>
         /\ job[a].doc.stamp <= Found(x).stamp
         /\ job[a].doc.stamp = Found(x).stamp => form[a].dto = Content(Found(x))

\* and a deletion on what is stored
MarksFollow(x) ==
  \A a \in Admins : at[a] = "mark" /\ job[a].of = x /\ ~ Absent(x) =>
    /\ job[a].doc.stamp <= Found(x).stamp
    /\ job[a].doc.stamp = Found(x).stamp => Content(job[a].doc) = Content(Found(x))

Traced(x) ==
  /\ Len(store[x]) <= created[x]
  /\ Untouched(x) /\ FormsAgree(x) /\ FormsBehind(x)
  /\ UpdatesFollow(x) /\ MarksFollow(x)

OwnForms == \A a \in Admins : Updating(a) => form[a].of = job[a].of

VersionInv == ItemsInv /\ OwnForms /\ \A x \in Ids : Unreused(x) => Traced(x)

(* A step that stores nothing new under x, and changes neither what is     *)
(* shown of it nor the requests about it, other than by ending some.       *)
LEMMA TracedFrame ==
  ASSUME NEW x \in Ids, Traced(x),
         store'[x] = store[x] \/ store'[x] = <<>>, created'[x] = created[x], created[x] \in Nat,
         \A a \in Admins : form'[a].of = x => form'[a] = form[a],
         \A a \in Admins : at'[a] # "idle" /\ job'[a].of = x =>
           job'[a] = job[a] /\ form'[a] = form[a] /\ at'[a] \in {at[a], "remove"} /\ at[a] # "idle"
                                                  /\ (at'[a] = "remove" => created[x] > 0)
  PROVE  Traced(x)'
<1>1. (Len(store[x]) <= created[x])'
  BY DEF Traced
<1>2. Untouched(x)'
  BY DEF Traced, Untouched
<1>3. FormsAgree(x)'
  BY DEF Traced, FormsAgree
<1>4. FormsBehind(x)'
  BY DEF Traced, FormsBehind, Absent, Found
<1>5. UpdatesFollow(x)'
  BY DEF Traced, UpdatesFollow, Updating, Absent, Found
<1>6. MarksFollow(x)'
  BY DEF Traced, MarksFollow, Absent, Found
<1> QED
  BY <1>1, <1>2, <1>3, <1>4, <1>5, <1>6 DEF Traced

(* A step that stores x for the first time. *)
LEMMA TracedNew ==
  ASSUME NEW x \in Ids, NEW doc \in Doc, created'[x] = 1, store'[x] = <<doc>>,
         \A a \in Admins : form'[a].of = x => form'[a].dto = Content(doc),
         \A a \in Admins : at'[a] # "idle" /\ job'[a].of = x => at'[a] = "add"
  PROVE  Traced(x)'
<1>1. Content(doc).version = doc.version /\ doc.version \in Nat
  BY DEF Content, Doc
<1>2. (Len(store[x]) <= created[x])' /\ Found(x)' = doc
  BY DEF Found
<1>3. Untouched(x)' /\ FormsAgree(x)'
  BY DEF Untouched, FormsAgree
<1>4. FormsBehind(x)'
  BY <1>1, <1>2 DEF FormsBehind
<1>5. UpdatesFollow(x)'
  BY DEF UpdatesFollow, Updating
<1>6. MarksFollow(x)'
  BY DEF MarksFollow
<1> QED
  BY <1>2, <1>3, <1>4, <1>5, <1>6 DEF Traced

LEMMA VersionInit == Init => VersionInv
<1> SUFFICES ASSUME Init PROVE VersionInv
  OBVIOUS
<1>1. ItemsInv
  BY ItemsInit
<1>2. OwnForms
  BY DEF Init, OwnForms, Updating
<1>3. ASSUME NEW x \in Ids
      PROVE  Traced(x)
  <2>1. \A a \in Admins : form[a].of # x /\ at[a] = "idle"
    BY BlueprintsAssumption DEF Init, NoForm
  <2>2. Len(store[x]) <= created[x]
    BY DEF Init
  <2> QED
    BY <2>1, <2>2 DEF Traced, Untouched, FormsAgree, FormsBehind, UpdatesFollow,
                      Updating, MarksFollow
<1> QED
  BY <1>1, <1>2, <1>3 DEF VersionInv

LEMMA FormType ==
  ASSUME TypeOK, NEW a \in Admins, NEW x \in Ids, form[a].of = x
  PROVE  form[a].dto \in Dto /\ form[a].dto.version \in Nat
<1>1. NoForm.of = None /\ None \notin Ids
  BY BlueprintsAssumption DEF NoForm
<1> QED BY <1>1 DEF TypeOK, Forms, Dto

LEMMA ContentOf ==
  ASSUME NEW d \in Doc
  PROVE  /\ Content(d).version = d.version /\ d.version \in Nat /\ d.stamp \in Nat
         /\ \A e \in Doc : e.version = d.version /\ e.text = d.text /\ e.items = d.items
                           => Content(e) = Content(d)
BY DEF Content, Doc

(* The one document of an identifier that has not been used again.         *)
LEMMA OnlyFound ==
  ASSUME TypeOK, NEW x \in Ids, Unreused(x), Traced(x), ~ Absent(x)
  PROVE  /\ Found(x) \in Doc /\ store[x] = <<Found(x)>> /\ DOMAIN store[x] = {1}
         /\ created[x] = 1
<1>1. /\ Found(x) \in Doc /\ store[x] \in Seq(Doc) /\ Len(store[x]) >= 1
      /\ created[x] \in Nat
  BY FoundType DEF TypeOK
<1>2. Len(store[x]) \in Nat
  BY <1>1
<1>3. Len(store[x]) <= created[x]
  BY DEF Traced
<1>4. created[x] <= 1
  BY DEF Unreused
<1>5. Len(store[x]) = 1 /\ created[x] = 1
  <2>1. PICK n \in Nat : n = Len(store[x])
    BY <1>2
  <2>2. PICK m \in Nat : m = created[x]
    BY <1>1
  <2>3. n >= 1
    BY <1>1, <2>1
  <2>4. n <= m /\ m <= 1
    BY <1>3, <1>4, <2>1, <2>2
  <2>5. n = 1 /\ m = 1
    BY <2>3, <2>4
  <2> QED BY <2>1, <2>2, <2>5
<1>6. PICK s \in Seq(Doc) : s = store[x]
  BY <1>1
<1>7. s = <<s[1]>> /\ DOMAIN s = {1}
  BY <1>5, <1>6
<1> QED
  BY <1>1, <1>5, <1>6, <1>7 DEF Found

(* Whoever is removing an identifier has found it stored.                  *)
LEMMA OnceStored ==
  ASSUME TypeOK, NEW x \in Ids, Traced(x)
  PROVE  \A a \in Admins : at[a] \notin {"idle", "add"} /\ job[a].of = x => created[x] > 0
BY DEF Traced, Untouched, TypeOK

LEMMA ViewVersions ==
  ASSUME VersionInv, NEW a \in Admins, NEW x \in Ids, View(a, x)
  PROVE  OwnForms' /\ \A y \in Ids : Unreused(y)' => Traced(y)'
<1>0. TypeOK
  BY DEF VersionInv, ItemsInv
<1>1. /\ at[a] = "idle" /\ ~ Absent(x)
      /\ form' = [form EXCEPT ![a] = [of |-> x, dto |-> Content(Found(x))]]
      /\ UNCHANGED <<store, at, job, created>>
  BY DEF View, Show
<1>2. OwnForms'
  BY <1>0, <1>1 DEF VersionInv, OwnForms, Updating, TypeOK
<1>3. ASSUME NEW y \in Ids, Unreused(y)'
      PROVE  Traced(y)'
  <2>1. Traced(y) /\ Unreused(y)
    BY <1>1, <1>3 DEF VersionInv, Unreused
  <2>2. CASE y # x
    <3>1. \A b \in Admins : form'[b].of = y => form'[b] = form[b]
      BY <1>0, <1>1, <2>2 DEF TypeOK
    <3>2. \A b \in Admins : at[b] # "idle" => form'[b] = form[b]
      BY <1>0, <1>1 DEF TypeOK
    <3> QED
      BY <1>0, <1>1, <2>1, <3>1, <3>2, OnceStored, TracedFrame DEF TypeOK
  <2>3. CASE y = x
    <3>1. /\ Found(x) \in Doc /\ created[x] = 1 /\ Content(Found(x)).version = Found(x).version
          /\ Found(x).version \in Nat
      BY <1>0, <1>1, <2>1, <2>3, OnlyFound, ContentOf
    <3>2. \A b \in Admins : form[b].of = x => form[b].dto.version \in Nat
      BY <1>0, FormType
    <3>3. \A b \in Admins : form'[b].of = x =>
            form'[b] = form[b] \/ form'[b].dto = Content(Found(x))
      BY <1>0, <1>1 DEF TypeOK
    <3>4. \A b \in Admins : at[b] # "idle" => form'[b] = form[b]
      BY <1>0, <1>1 DEF TypeOK
    <3>5. FormsAgree(x)'
      BY <1>1, <2>1, <2>3, <3>1, <3>2, <3>3 DEF Traced, FormsAgree, FormsBehind
    <3>6. FormsBehind(x)'
      BY <1>1, <2>1, <2>3, <3>1, <3>2, <3>3 DEF Traced, FormsBehind, Absent, Found
    <3>7. UpdatesFollow(x)'
      BY <1>1, <2>1, <2>3, <3>4 DEF Traced, UpdatesFollow, Updating, Absent, Found
    <3>8. MarksFollow(x)'
      BY <1>1, <2>1, <2>3 DEF Traced, MarksFollow, Absent, Found
    <3>9. (Len(store[x]) <= created[x])' /\ Untouched(x)'
      BY <1>1, <2>1, <2>3, <3>1 DEF Traced, Untouched
    <3> QED
      BY <2>3, <3>5, <3>6, <3>7, <3>8, <3>9 DEF Traced
  <2> QED BY <2>2, <2>3
<1> QED BY <1>2, <1>3

(* A request that starts to wait: what it works on agrees with its form.   *)
LEMMA AwaitVersions ==
  ASSUME VersionInv, NEW a \in Admins, NEW x \in Ids, NEW doc \in Doc,
         NEW point \in {"sync", "write", "add", "mark"}, NEW wanted,
         Await(a, point, x, doc, wanted),
         point # "add" => ~ Absent(x) /\ doc.stamp = Found(x).stamp,
         point \in {"sync", "write"} =>
           /\ form[a].of = x
           /\ form[a].dto.version = Found(x).version
           /\ doc = Found(x) \/ doc.version = Found(x).version + 1,
         point = "mark" => doc = Found(x)
  PROVE  OwnForms' /\ \A y \in Ids : Unreused(y)' => Traced(y)'
<1>0. TypeOK
  BY DEF VersionInv, ItemsInv
<1> DEFINE j == [of |-> x, doc |-> doc, wanted |-> wanted]
<1>1. /\ at[a] = "idle" /\ at' = [at EXCEPT ![a] = point] /\ job' = [job EXCEPT ![a] = j]
      /\ UNCHANGED <<store, form, created>>
  BY DEF Await
<1>2. j.of = x /\ j.doc = doc
  OBVIOUS
<1> HIDE DEF j
<1>3. OwnForms'
  BY <1>0, <1>1, <1>2 DEF VersionInv, OwnForms, Updating, TypeOK
<1>4. ASSUME NEW y \in Ids, Unreused(y)'
      PROVE  Traced(y)'
  <2>1. Traced(y) /\ Unreused(y)
    BY <1>1, <1>4 DEF VersionInv, Unreused
  <2>2. \A b \in Admins : at'[b] # "idle" /\ job'[b].of = y =>
          \/ b # a /\ at[b] # "idle" /\ at'[b] = at[b] /\ job'[b] = job[b]
          \/ b = a /\ y = x /\ at'[b] = point /\ job'[b].doc = doc
    BY <1>0, <1>1, <1>2 DEF TypeOK
  <2>3. CASE y # x
    <3>1. \A b \in Admins : at'[b] # "idle" /\ job'[b].of = y =>
            job'[b] = job[b] /\ form'[b] = form[b] /\ at'[b] = at[b] /\ at[b] # "idle"
      BY <1>1, <2>2, <2>3
    <3> QED
      BY <1>0, <1>1, <2>1, <3>1, OnceStored, TracedFrame DEF TypeOK
  <2>4. CASE y = x
    <3>1. point # "add" => created[x] = 1 /\ Found(x) \in Doc
      BY <1>0, <2>1, <2>4, OnlyFound
    <3>2. /\ (Len(store[x]) <= created[x])' /\ FormsAgree(x)' /\ FormsBehind(x)'
      BY <1>1, <2>1, <2>4 DEF Traced, FormsAgree, FormsBehind, Absent, Found
    <3>3. Untouched(x)'
      BY <1>1, <2>1, <2>2, <2>4, <3>1 DEF Traced, Untouched
    <3>4. point \in {"sync", "write"} =>
            /\ form[a].dto = Content(Found(x))
            /\ form[a].dto.version <= doc.version
            /\ form[a].dto.version = doc.version => form[a].dto = Content(doc)
      <4>1. SUFFICES ASSUME point \in {"sync", "write"}
                     PROVE  /\ form[a].dto = Content(Found(x))
                            /\ form[a].dto.version <= doc.version
                            /\ form[a].dto.version = doc.version => form[a].dto = Content(doc)
        OBVIOUS
      <4>2. form[a].dto = Content(Found(x))
        BY <2>1, <2>4, <4>1 DEF Traced, FormsBehind
      <4>3. Found(x).version \in Nat
        BY <3>1, <4>1, ContentOf
      <4> QED BY <4>1, <4>2, <4>3
    <3>5. doc.stamp \in Nat
      BY DEF Doc
    <3>6. UpdatesFollow(x)'
      BY <1>1, <2>1, <2>2, <2>4, <3>4, <3>5 DEF Traced, UpdatesFollow, Updating, Absent, Found
    <3>7. MarksFollow(x)'
      BY <1>1, <2>1, <2>2, <2>4, <3>5 DEF Traced, MarksFollow, Absent, Found
    <3> QED
      BY <2>4, <3>2, <3>3, <3>6, <3>7 DEF Traced
  <2> QED BY <2>3, <2>4
<1> QED BY <1>3, <1>4

(* A document that is written over what its writer has read.               *)
LEMMA Replaced ==
  ASSUME TypeOK, NEW x \in Ids, Unreused(x), Traced(x), NEW doc \in Doc, Replace(x, doc)
  PROVE  /\ ~ Absent(x) /\ Found(x).stamp = doc.stamp /\ Found(x) \in Doc
         /\ Len(store'[x]) = 1 /\ created[x] = 1
         /\ Found(x)' \in Doc /\ Content(Found(x)') = Content(doc)
         /\ Found(x)'.stamp = doc.stamp + 1
<1>1. PICK k \in Unchanged(x, doc) :
        store' = [store EXCEPT ![x][k] = [doc EXCEPT !.stamp = @ + 1]]
  BY DEF Replace
<1>2. k \in DOMAIN store[x] /\ store[x][k].stamp = doc.stamp
  BY DEF Unchanged
<1>3. ~ Absent(x)
  BY <1>2 DEF Absent
<1>4. /\ Found(x) \in Doc /\ store[x] = <<Found(x)>> /\ DOMAIN store[x] = {1}
      /\ created[x] = 1
  BY <1>3, OnlyFound
<1>5. k = 1 /\ Found(x).stamp = doc.stamp
  BY <1>2, <1>4 DEF Found
<1> DEFINE d == [doc EXCEPT !.stamp = @ + 1]
<1>6. /\ d \in Doc /\ d.stamp = doc.stamp + 1
      /\ Content(d) = Content(doc)
  BY DEF Doc, Content
<1> HIDE DEF d
<1>7. store' = [store EXCEPT ![x] = [store[x] EXCEPT ![1] = d]]
  BY <1>1, <1>5 DEF d, TypeOK
<1>8. store'[x] = <<d>>
  BY <1>4, <1>7 DEF TypeOK
<1> QED
  BY <1>3, <1>4, <1>5, <1>6, <1>8 DEF Found

LEMMA ReplaceElsewhere ==
  ASSUME TypeOK, NEW x \in Ids, NEW y \in Ids \ {x}, NEW doc, Replace(x, doc)
  PROVE  store'[y] = store[y]
BY DEF Replace, TypeOK

LEMMA WriteVersions ==
  ASSUME VersionInv, NEW a \in Admins, Write(a)
  PROVE  OwnForms' /\ \A y \in Ids : Unreused(y)' => Traced(y)'
<1>a. PICK x \in Ids, doc \in Doc : x = job[a].of /\ doc = job[a].doc
  BY JobType DEF VersionInv, ItemsInv, Write
<1>0. TypeOK /\ at[a] = "write" /\ form[a].of = x
  BY <1>a DEF VersionInv, ItemsInv, OwnForms, Updating, Write
<1>1. /\ Replace(x, doc)
      /\ form' = [form EXCEPT ![a] = [of |-> x, dto |-> Content(doc)]]
      /\ at' = [at EXCEPT ![a] = "idle"] /\ job' = [job EXCEPT ![a] = NoJob]
      /\ UNCHANGED created
  BY <1>a DEF Write, Show, Answer
<1>2. \A b \in Admins : at'[b] # "idle" =>
        b # a /\ at'[b] = at[b] /\ job'[b] = job[b] /\ form'[b] = form[b] /\ at[b] # "idle"
  BY <1>0, <1>1 DEF TypeOK
<1>3. form'[a].of = x /\ form'[a].dto = Content(doc)
      /\ \A b \in Admins : b # a => form'[b] = form[b]
  BY <1>0, <1>1 DEF TypeOK
<1>4. OwnForms'
  BY <1>2 DEF VersionInv, OwnForms, Updating
<1>5. ASSUME NEW y \in Ids, Unreused(y)'
      PROVE  Traced(y)'
  <2>1. Traced(y) /\ Unreused(y)
    BY <1>1, <1>5 DEF VersionInv, Unreused
  <2>2. CASE y # x
    <3>1. store'[y] = store[y] /\ created'[y] = created[y] /\ created[y] \in Nat
      BY <1>0, <1>1, <2>2, ReplaceElsewhere DEF TypeOK
    <3>2. \A b \in Admins : form'[b].of = y => form'[b] = form[b]
      BY <1>3, <2>2
    <3> QED
      BY <1>0, <1>2, <2>1, <3>1, <3>2, OnceStored, TracedFrame
  <2>3. CASE y = x
    <3> DEFINE old == Found(x)
               new == Found(x)'
    <3>1. /\ ~ Absent(x) /\ old.stamp = doc.stamp /\ old \in Doc
          /\ Len(store'[x]) = 1 /\ created[x] = 1
          /\ new \in Doc /\ Content(new) = Content(doc) /\ new.stamp = doc.stamp + 1
      BY <1>0, <1>1, <2>1, <2>3, Replaced
    <3>2. /\ form[a].dto = Content(old)
          /\ form[a].dto.version <= doc.version
          /\ form[a].dto.version = doc.version => form[a].dto = Content(doc)
      BY <1>a, <1>0, <2>1, <2>3, <3>1 DEF Traced, UpdatesFollow, Updating
    <3>3. /\ Content(old).version = old.version /\ old.version \in Nat /\ old.stamp \in Nat
          /\ Content(doc).version = doc.version /\ doc.version \in Nat /\ doc.stamp \in Nat
          /\ Content(new).version = new.version /\ new.version \in Nat
      BY <1>0, <3>1, ContentOf
    <3>4. \A b \in Admins : form[b].of = x =>
            /\ form[b].dto.version \in Nat
            /\ form[b].dto.version <= old.version
            /\ form[b].dto.version = old.version => form[b].dto = Content(old)
      BY <1>0, <2>1, <2>3, <3>1, FormType DEF Traced, FormsBehind
    <3> HIDE DEF old, new
    <3>5. \A b \in Admins : form'[b].of = x =>
            /\ form'[b].dto.version \in Nat
            /\ form'[b].dto.version <= doc.version
            /\ form'[b].dto.version = doc.version => form'[b].dto = Content(doc)
      <4>1. ASSUME NEW b \in Admins, form'[b].of = x, b # a
            PROVE  /\ form'[b].dto.version \in Nat
                   /\ form'[b].dto.version <= doc.version
                   /\ form'[b].dto.version = doc.version => form'[b].dto = Content(doc)
        BY <1>3, <3>2, <3>3, <3>4, <4>1
      <4>2. /\ form'[a].dto.version \in Nat
            /\ form'[a].dto.version <= doc.version
            /\ form'[a].dto = Content(doc)
        BY <1>3, <3>3
      <4> QED BY <4>1, <4>2
    <3>6. FormsBehind(x)'
      BY <3>1, <3>3, <3>5 DEF FormsBehind, new
    <3>7. FormsAgree(x)'
      <4> SUFFICES ASSUME NEW b \in Admins, NEW c \in Admins,
                          form'[b].of = x, form'[c].of = x,
                          form'[b].dto.version = form'[c].dto.version
                   PROVE  form'[b].dto = form'[c].dto
        BY DEF FormsAgree
      <4>1. CASE b # a /\ c # a
        BY <1>3, <2>1, <2>3, <4>1 DEF Traced, FormsAgree
      <4>2. CASE b = a \/ c = a
        BY <1>3, <3>3, <3>5, <4>2
      <4> QED BY <4>1, <4>2
    <3>8. UpdatesFollow(x)'
      <4>1. ASSUME NEW b \in Admins, at'[b] \in {"sync", "write"}, job'[b].of = x
            PROVE  /\ form'[b].dto.version <= job'[b].doc.version
                   /\ form'[b].dto.version = job'[b].doc.version => form'[b].dto = Content(job'[b].doc)
                   /\ job'[b].doc.stamp < new.stamp /\ job'[b].doc.stamp \in Nat
        <5>1. /\ at[b] \in {"sync", "write"} /\ job[b].of = x
              /\ job'[b] = job[b] /\ form'[b] = form[b] /\ at[b] # "idle"
          BY <1>2, <4>1
        <5>2. job[b].doc.stamp \in Nat
          BY <1>0, <5>1, JobType, ContentOf
        <5>3. /\ form[b].dto.version <= job[b].doc.version
              /\ form[b].dto.version = job[b].doc.version => form[b].dto = Content(job[b].doc)
              /\ job[b].doc.stamp <= old.stamp
          BY <2>1, <2>3, <3>1, <5>1 DEF Traced, UpdatesFollow, Updating, old
        <5> QED BY <3>1, <3>3, <5>1, <5>2, <5>3
      <4>2. new.stamp \in Nat
        BY <3>1, ContentOf
      <4> QED BY <4>1, <4>2 DEF UpdatesFollow, Updating, new
    <3>9. MarksFollow(x)'
      <4>1. ASSUME NEW b \in Admins, at'[b] = "mark", job'[b].of = x
            PROVE  job'[b].doc.stamp < new.stamp /\ job'[b].doc.stamp \in Nat
        <5>1. at[b] = "mark" /\ job[b].of = x /\ job'[b] = job[b]
          BY <1>2, <4>1
        <5>2. job[b].doc.stamp \in Nat
          BY <1>0, <5>1, JobType, ContentOf
        <5>3. job[b].doc.stamp <= old.stamp
          BY <2>1, <2>3, <3>1, <5>1 DEF Traced, MarksFollow, old
        <5> QED BY <3>1, <3>3, <5>1, <5>2, <5>3
      <4>2. new.stamp \in Nat
        BY <3>1, ContentOf
      <4> QED BY <4>1, <4>2 DEF MarksFollow, new
    <3>10. (Len(store[x]) <= created[x])' /\ Untouched(x)'
      BY <1>1, <3>1 DEF Untouched
    <3> QED
      BY <2>3, <3>6, <3>7, <3>8, <3>9, <3>10 DEF Traced
  <2> QED BY <2>2, <2>3
<1> QED BY <1>4, <1>5

(* A request that ends: its document is gone, or the store is as before.   *)
LEMMA EndVersions ==
  ASSUME VersionInv, NEW a \in Admins, Erase(a) \/ Fail(a)
  PROVE  OwnForms' /\ \A y \in Ids : Unreused(y)' => Traced(y)'
<1>0. TypeOK
  BY DEF VersionInv, ItemsInv
<1>1. /\ Delete1(job[a].of) \/ store' = store
      /\ at' = [at EXCEPT ![a] = "idle"] /\ job' = [job EXCEPT ![a] = NoJob]
      /\ UNCHANGED <<form, created>>
  BY DEF Erase, Fail, Answer
<1>2. \A b \in Admins : at'[b] # "idle" => at'[b] = at[b] /\ job'[b] = job[b] /\ at[b] # "idle"
  BY <1>0, <1>1 DEF TypeOK
<1>3. OwnForms'
  BY <1>1, <1>2 DEF VersionInv, OwnForms, Updating
<1>4. ASSUME NEW y \in Ids, Unreused(y)'
      PROVE  Traced(y)'
  <2>1. Traced(y) /\ Unreused(y)
    BY <1>1, <1>4 DEF VersionInv, Unreused
  <2>2. store'[y] = store[y] \/ store'[y] = <<>>
    <3>1. CASE Absent(y)
      BY <1>0, <1>1, <3>1 DEF Delete1, Absent, TypeOK
    <3>2. CASE ~ Absent(y)
      <4>1. PICK d \in Doc : store[y] = <<d>>
        BY <1>0, <2>1, <3>2, OnlyFound
      <4>2. Tail(store[y]) = <<>>
        BY <4>1
      <4> QED BY <1>0, <1>1, <4>2 DEF Delete1, TypeOK
    <3> QED BY <3>1, <3>2
  <2> QED
    BY <1>0, <1>1, <1>2, <2>1, <2>2, OnceStored, TracedFrame DEF TypeOK
<1> QED BY <1>3, <1>4

(* The deleted event is stored over the document it has been raised on.    *)
LEMMA MarkVersions ==
  ASSUME VersionInv, NEW a \in Admins, Mark(a)
  PROVE  OwnForms' /\ \A y \in Ids : Unreused(y)' => Traced(y)'
<1>a. PICK x \in Ids, doc \in Doc : x = job[a].of /\ doc = job[a].doc
  BY JobType DEF VersionInv, ItemsInv, Mark
<1>0. TypeOK /\ at[a] = "mark"
  BY DEF VersionInv, ItemsInv, Mark
<1>1. /\ Replace(x, doc)
      /\ at' = [at EXCEPT ![a] = "remove"]
      /\ UNCHANGED <<form, job, created>>
  BY <1>a DEF Mark
<1>2. \A b \in Admins : b # a => at'[b] = at[b]
  BY <1>0, <1>1 DEF TypeOK
<1>3. at'[a] = "remove"
  BY <1>0, <1>1 DEF TypeOK
<1>4. OwnForms'
  BY <1>1, <1>2, <1>3 DEF VersionInv, OwnForms, Updating
<1>5. ASSUME NEW y \in Ids, Unreused(y)'
      PROVE  Traced(y)'
  <2>1. Traced(y) /\ Unreused(y)
    BY <1>1, <1>5 DEF VersionInv, Unreused
  <2>2. CASE y # x
    <3>1. store'[y] = store[y] /\ created'[y] = created[y] /\ created[y] \in Nat
      BY <1>0, <1>1, <2>2, ReplaceElsewhere DEF TypeOK
    <3> QED
      BY <1>a, <1>0, <1>1, <1>2, <1>3, <2>1, <2>2, <3>1, OnceStored, TracedFrame
  <2>3. CASE y = x
    <3> DEFINE old == Found(x)
               new == Found(x)'
    <3>1. /\ ~ Absent(x) /\ old.stamp = doc.stamp /\ old \in Doc
          /\ Len(store'[x]) = 1 /\ created[x] = 1
          /\ new \in Doc /\ Content(new) = Content(doc) /\ new.stamp = doc.stamp + 1
      BY <1>0, <1>1, <2>1, <2>3, Replaced
    <3>2. Content(doc) = Content(old)
      BY <1>a, <1>0, <2>1, <2>3, <3>1 DEF Traced, MarksFollow
    <3>3. /\ Content(old).version = old.version
          /\ Content(new).version = new.version
          /\ old.stamp \in Nat /\ new.stamp \in Nat
      BY <3>1, ContentOf
    <3>4. Content(new) = Content(old) /\ new.version = old.version /\ new.stamp = old.stamp + 1
      BY <3>1, <3>2, <3>3
    <3>5. /\ FormsAgree(x)
          /\ \A b \in Admins : form[b].of = x =>
               /\ form[b].dto.version <= old.version
               /\ form[b].dto.version = old.version => form[b].dto = Content(old)
          /\ \A b \in Admins : Updating(b) /\ job[b].of = x =>
               /\ form[b].dto.version <= job[b].doc.version
               /\ form[b].dto.version = job[b].doc.version => form[b].dto = Content(job[b].doc)
               /\ job[b].doc.stamp <= old.stamp
          /\ \A b \in Admins : at[b] = "mark" /\ job[b].of = x =>
               job[b].doc.stamp <= old.stamp
      BY <2>1, <2>3, <3>1 DEF Traced, FormsBehind, UpdatesFollow, MarksFollow
    <3>6. \A b \in Admins : at[b] # "idle" => job[b].doc.stamp \in Nat
      BY <1>0, JobType, ContentOf
    <3> HIDE DEF old, new
    <3>7. FormsAgree(x)'
      BY <1>1, <3>5 DEF FormsAgree
    <3>8. FormsBehind(x)'
      BY <1>1, <3>4, <3>5 DEF FormsBehind, new
    <3>9. UpdatesFollow(x)'
      <4>1. ASSUME NEW b \in Admins, at'[b] \in {"sync", "write"}, job'[b].of = x
            PROVE  /\ form'[b].dto.version <= job'[b].doc.version
                   /\ form'[b].dto.version = job'[b].doc.version => form'[b].dto = Content(job'[b].doc)
                   /\ job'[b].doc.stamp < new.stamp
        <5>1. at[b] \in {"sync", "write"} /\ at[b] # "idle" /\ job[b].of = x
          BY <1>1, <1>2, <1>3, <4>1
        <5> QED BY <1>1, <3>3, <3>4, <3>5, <3>6, <5>1 DEF Updating
      <4>2. \A b \in Admins : at'[b] \in {"sync", "write"} => job'[b].doc.stamp \in Nat
        BY <1>1, <1>2, <1>3, <3>6
      <4> QED BY <3>3, <4>1, <4>2 DEF UpdatesFollow, Updating, new
    <3>10. MarksFollow(x)'
      <4>1. ASSUME NEW b \in Admins, at'[b] = "mark", job'[b].of = x
            PROVE  job'[b].doc.stamp < new.stamp /\ job'[b].doc.stamp \in Nat
        BY <1>1, <1>2, <1>3, <3>3, <3>4, <3>5, <3>6, <4>1
      <4> QED BY <3>3, <4>1 DEF MarksFollow, new
    <3>11. (Len(store[x]) <= created[x])' /\ Untouched(x)'
      BY <1>1, <3>1 DEF Untouched
    <3> QED
      BY <2>3, <3>7, <3>8, <3>9, <3>10, <3>11 DEF Traced
  <2> QED BY <2>2, <2>3
<1> QED BY <1>4, <1>5

(* The first document of an identifier. *)
LEMMA InsertFirst ==
  ASSUME TypeOK, NEW x \in Ids, NEW doc, Insert(x, doc), Unreused(x)', Unreused(x) => Traced(x)
  PROVE  /\ created[x] = 0 /\ created'[x] = 1 /\ store'[x] = <<doc>>
         /\ Traced(x) /\ Untouched(x)
<1>1. created'[x] = created[x] + 1 /\ created[x] \in Nat
  BY DEF Insert, TypeOK
<1>2. created[x] = 0 /\ created'[x] = 1 /\ Unreused(x)
  BY <1>1 DEF Unreused
<1>3. Len(store[x]) <= created[x] /\ store[x] \in Seq(Doc) /\ Traced(x) /\ Untouched(x)
  BY <1>2 DEF Traced, TypeOK
<1>4. Len(store[x]) <= 0
  BY <1>2, <1>3
<1>5. store[x] = <<>>
  BY <1>3, <1>4
<1>6. store'[x] = Append(<<>>, doc)
  BY <1>5 DEF Insert, TypeOK
<1>7. Append(<<>>, doc) = <<doc>>
  OBVIOUS
<1> QED BY <1>2, <1>3, <1>6, <1>7

LEMMA InsertElsewhere ==
  ASSUME TypeOK, NEW x \in Ids, NEW y \in Ids \ {x}, NEW doc, Insert(x, doc)
  PROVE  store'[y] = store[y] /\ created'[y] = created[y] /\ created[y] \in Nat
BY DEF Insert, TypeOK

LEMMA AddVersions ==
  ASSUME VersionInv, NEW a \in Admins, Add(a)
  PROVE  OwnForms' /\ \A y \in Ids : Unreused(y)' => Traced(y)'
<1>a. PICK x \in Ids, doc \in Doc : x = job[a].of /\ doc = job[a].doc
  BY JobType DEF VersionInv, ItemsInv, Add
<1>0. TypeOK
  BY DEF VersionInv, ItemsInv
<1>1. /\ Insert(x, doc)
      /\ form' = [form EXCEPT ![a] = [of |-> x, dto |-> Content(doc)]]
      /\ at' = [at EXCEPT ![a] = "idle"] /\ job' = [job EXCEPT ![a] = NoJob]
  BY <1>a DEF Add, Show, Answer
<1>2. \A b \in Admins : at'[b] # "idle" =>
        b # a /\ at'[b] = at[b] /\ job'[b] = job[b] /\ form'[b] = form[b] /\ at[b] # "idle"
  BY <1>0, <1>1 DEF TypeOK
<1>3. form'[a].of = x /\ form'[a].dto = Content(doc)
      /\ \A b \in Admins : b # a => form'[b] = form[b]
  BY <1>0, <1>1 DEF TypeOK
<1>4. OwnForms'
  BY <1>2 DEF VersionInv, OwnForms, Updating
<1>5. ASSUME NEW y \in Ids, Unreused(y)'
      PROVE  Traced(y)'
  <2>1. CASE y # x
    <3>1. store'[y] = store[y] /\ created'[y] = created[y] /\ created[y] \in Nat
      BY <1>0, <1>1, <2>1, InsertElsewhere
    <3>2. Traced(y)
      BY <1>5, <3>1 DEF VersionInv, Unreused
    <3>3. \A b \in Admins : form'[b].of = y => form'[b] = form[b]
      BY <1>3, <2>1
    <3> QED
      BY <1>0, <1>2, <3>1, <3>2, <3>3, OnceStored, TracedFrame
  <2>2. CASE y = x
    <3>1. /\ created[x] = 0 /\ created'[x] = 1 /\ store'[x] = <<doc>> /\ Untouched(x)
      BY <1>0, <1>1, <1>5, <2>2, InsertFirst DEF VersionInv
    <3>2. /\ \A b \in Admins : form'[b].of = x => form'[b].dto = Content(doc)
          /\ \A b \in Admins : at'[b] # "idle" /\ job'[b].of = x => at'[b] = "add"
      BY <1>2, <1>3, <3>1 DEF Untouched
    <3> QED
      BY <2>2, <3>1, <3>2, TracedNew
  <2> QED BY <2>1, <2>2
<1> QED BY <1>4, <1>5

(* An event of an update: the next version of what it is working on.       *)
LEMMA EventVersions ==
  ASSUME VersionInv, NEW a \in Admins, at[a] = "sync", NEW doc \in Doc,
         NEW point \in {"sync", "write"},
         at' = [at EXCEPT ![a] = point],
         \E j : /\ job' = [job EXCEPT ![a] = j]
                /\ j.of = job[a].of /\ j.doc = doc,
         doc.stamp = job[a].doc.stamp,
         doc = job[a].doc \/ doc.version = job[a].doc.version + 1,
         UNCHANGED <<store, form, created>>
  PROVE  OwnForms' /\ \A y \in Ids : Unreused(y)' => Traced(y)'
<1>a. PICK j : job' = [job EXCEPT ![a] = j] /\ j.of = job[a].of /\ j.doc = doc
  OBVIOUS
<1>0. TypeOK /\ job[a].doc \in Doc /\ job[a].of \in Ids /\ Updating(a)
  BY JobType DEF VersionInv, ItemsInv, Updating
<1>1. /\ at'[a] = point /\ job'[a].of = job[a].of /\ job'[a].doc = doc
      /\ \A b \in Admins : b # a => at'[b] = at[b] /\ job'[b] = job[b]
  BY <1>a, <1>0 DEF TypeOK
<1>2. \A b \in Admins : /\ at'[b] # "idle" => at[b] # "idle" /\ job'[b].of = job[b].of
                        /\ Updating(b)' <=> Updating(b)
                        /\ at'[b] = "mark" => b # a
                        /\ at'[b] = "add" <=> at[b] = "add"
  BY <1>1 DEF Updating
<1>3. OwnForms'
  BY <1>0, <1>1, <1>2 DEF VersionInv, OwnForms
<1>4. ASSUME NEW y \in Ids, Unreused(y)'
      PROVE  Traced(y)'
  <2>1. Traced(y)
    BY <1>4 DEF VersionInv, Unreused
  <2>2. (Len(store[y]) <= created[y])' /\ FormsAgree(y)' /\ FormsBehind(y)'
    BY <2>1 DEF Traced, FormsAgree, FormsBehind, Absent, Found
  <2>3. Untouched(y)'
    BY <1>2, <2>1 DEF Traced, Untouched
  <2>4. MarksFollow(y)'
    BY <1>1, <1>2, <2>1 DEF Traced, MarksFollow, Absent, Found
  <2>5. UpdatesFollow(y)'
    <3> SUFFICES ASSUME NEW b \in Admins, Updating(b)', job'[b].of = y
                 PROVE  /\ form[b].dto.version <= job'[b].doc.version
                        /\ form[b].dto.version = job'[b].doc.version => form[b].dto = Content(job'[b].doc)
                        /\ ~ Absent(y) =>
                             /\ job'[b].doc.stamp <= Found(y).stamp
                             /\ job'[b].doc.stamp = Found(y).stamp => form[b].dto = Content(Found(y))
      BY DEF UpdatesFollow, Absent, Found
    <3>1. Updating(b) /\ job[b].of = y
      BY <1>1, <1>2
    <3>2. /\ form[b].dto.version <= job[b].doc.version
          /\ form[b].dto.version = job[b].doc.version => form[b].dto = Content(job[b].doc)
          /\ ~ Absent(y) =>
               /\ job[b].doc.stamp <= Found(y).stamp
               /\ job[b].doc.stamp = Found(y).stamp => form[b].dto = Content(Found(y))
      BY <2>1, <3>1 DEF Traced, UpdatesFollow
    <3>3. CASE b # a
      BY <1>1, <3>2, <3>3
    <3>4. CASE b = a
      <4>1. form[a].of = y
        BY <1>0, <3>1, <3>4 DEF VersionInv, OwnForms
      <4>2. form[a].dto.version \in Nat /\ job[a].doc.version \in Nat
        BY <1>0, <4>1, FormType, ContentOf
      <4>3. doc = job[a].doc \/ doc.version > form[a].dto.version
        BY <3>2, <3>4, <4>2
      <4>4. job'[b].doc = doc
        BY <1>1, <3>4
      <4> QED BY <3>2, <3>4, <4>2, <4>3, <4>4
    <3> QED BY <3>3, <3>4
  <2> QED
    BY <2>2, <2>3, <2>4, <2>5 DEF Traced
<1> QED BY <1>3, <1>4

LEMMA SyncVersions ==
  ASSUME VersionInv, NEW a \in Admins, at[a] = "sync", Sync(a) \/ Finish(a)
  PROVE  OwnForms' /\ \A y \in Ids : Unreused(y)' => Traced(y)'
<1>0. /\ TypeOK /\ job[a] \in Jobs /\ job[a].doc \in Doc
      /\ job[a].doc.items \in Seq(Item) /\ Unique(job[a].doc.items)
      /\ job[a].wanted \in ItemLists
      /\ job[a].wanted \in Seq(Item) /\ Unique(job[a].wanted)
  BY JobType, ListsUnique DEF VersionInv, ItemsInv, ItemsOnce, Doc
<1>1. ASSUME NEW l \in Seq(Item)
      PROVE  \E j : /\ [job EXCEPT ![a].doc = WithItems(@, l)] = [job EXCEPT ![a] = j]
                    /\ j.of = job[a].of /\ j.doc = WithItems(job[a].doc, l)
  <2> DEFINE d == WithItems(job[a].doc, l)
             j == [job[a] EXCEPT !.doc = d]
  <2>1. [job EXCEPT ![a].doc = WithItems(@, l)] = [job EXCEPT ![a] = j]
    BY <1>0 DEF TypeOK
  <2> HIDE DEF d
  <2>2. j.of = job[a].of /\ j.doc = d
    BY <1>0 DEF Jobs
  <2> HIDE DEF j
  <2> QED BY <2>1, <2>2 DEF d
<1>2. ASSUME NEW l \in Seq(Item), Apply(a, l)
      PROVE  OwnForms' /\ \A y \in Ids : Unreused(y)' => Traced(y)'
  <2>1. /\ at' = [at EXCEPT ![a] = "sync"]
        /\ job' = [job EXCEPT ![a].doc = WithItems(@, l)]
        /\ UNCHANGED <<store, form, created>>
    BY <1>0, <1>2 DEF Apply, TypeOK
  <2> DEFINE d == WithItems(job[a].doc, l)
  <2>2. d \in Doc /\ d.stamp = job[a].doc.stamp /\ d.version = job[a].doc.version + 1
    BY <1>0, WithItemsType
  <2>3. \E j : job' = [job EXCEPT ![a] = j] /\ j.of = job[a].of /\ j.doc = d
    BY <1>1, <2>1
  <2> HIDE DEF d
  <2> QED BY <2>1, <2>2, <2>3, EventVersions
<1>3. CASE Sync(a)
  <2>1. \A id \in IdsOf(job[a].wanted) :
          ItemOf(job[a].wanted, id) \in Item /\ ItemOf(job[a].wanted, id).id = id
    BY <1>0, ItemFound
  <2>2. CASE \E id \in Gone(job[a].doc.items, job[a].wanted) :
               Apply(a, Removed(job[a].doc.items, id))
    BY <1>0, <1>2, <2>2, RemovedUnique DEF Gone
  <2>3. CASE \E id \in Changed(job[a].doc.items, job[a].wanted) :
               Apply(a, Refreshed(job[a].doc.items, ItemOf(job[a].wanted, id)))
    BY <1>0, <1>2, <2>1, <2>3, RefreshedUnique DEF Changed
  <2>4. CASE \E id \in Added(job[a].doc.items, job[a].wanted) :
               Apply(a, Placed(job[a].doc.items, ItemOf(job[a].wanted, id)))
    BY <1>0, <1>2, <2>1, <2>4, PlacedUnique DEF Added
  <2> QED
    BY <1>3, <2>2, <2>3, <2>4 DEF Sync
<1>4. CASE Finish(a)
  <2> DEFINE items == job[a].doc.items
             wanted == job[a].wanted
  <2>1. /\ Gone(items, wanted) \cup Changed(items, wanted) \cup Added(items, wanted) = {}
        /\ at' = [at EXCEPT ![a] = "write"]
        /\ job' = IF OrderOf(items) = OrderOf(wanted) THEN job
                  ELSE [job EXCEPT ![a].doc = WithItems(@, Reordered(items, OrderOf(wanted)))]
        /\ UNCHANGED <<store, form, created>>
    BY <1>4 DEF Finish
  <2>2. Reordered(items, OrderOf(wanted)) = wanted
    BY <1>0, <2>1, OnlyOrder
  <2>3. CASE OrderOf(items) = OrderOf(wanted)
    <3>1. job' = [job EXCEPT ![a] = job[a]]
      BY <1>0, <2>1, <2>3 DEF TypeOK
    <3> QED BY <1>0, <2>1, <3>1, EventVersions
  <2>4. CASE OrderOf(items) # OrderOf(wanted)
    <3>1. job' = [job EXCEPT ![a].doc = WithItems(@, job[a].wanted)]
      BY <2>1, <2>2, <2>4
    <3> DEFINE d == WithItems(job[a].doc, job[a].wanted)
    <3>2. d \in Doc /\ d.stamp = job[a].doc.stamp /\ d.version = job[a].doc.version + 1
      BY <1>0, WithItemsType
    <3>3. \E j : job' = [job EXCEPT ![a] = j] /\ j.of = job[a].of /\ j.doc = d
      BY <1>0, <1>1, <3>1
    <3> HIDE DEF d
    <3> QED BY <2>1, <3>2, <3>3, EventVersions
  <2> QED BY <2>3, <2>4
<1> QED BY <1>3, <1>4

LEMMA RequestVersions ==
  ASSUME VersionInv, NEW a \in Admins, Request(a)
  PROVE  OwnForms' /\ \A y \in Ids : Unreused(y)' => Traced(y)'
<1>0. TypeOK
  BY DEF VersionInv, ItemsInv
<1>1. ASSUME NEW text \in Texts \cup {None}, NEW wanted \in ItemLists \cup {None},
             Update(a, text, wanted)
      PROVE  OwnForms' /\ \A y \in Ids : Unreused(y)' => Traced(y)'
  <2>1. PICK x \in Ids : x = form[a].of
    BY <1>0, <1>1 DEF Update, TypeOK, Forms
  <2>2. PICK point \in {"sync", "write"} : Await(a, point, x, Retexted(Found(x), text), wanted)
    BY <1>1, <2>1 DEF Update
  <2>3. ~ Absent(x) /\ Found(x).version = form[a].dto.version
    BY <1>1, <2>1 DEF Update, IsCurrent
  <2>4. Found(x) \in Doc
    BY <1>0, <2>3, FoundType
  <2>5. /\ Retexted(Found(x), text) \in Doc /\ Retexted(Found(x), text).stamp = Found(x).stamp
        /\ \/ Retexted(Found(x), text) = Found(x)
           \/ Retexted(Found(x), text).version = Found(x).version + 1
    BY <2>4, RetextedType
  <2> QED BY <2>1, <2>2, <2>3, <2>5, AwaitVersions
<1>2. ASSUME NEW x \in Ids, NEW text \in Texts, NEW items \in ItemLists, Create(a, x, text, items)
      PROVE  OwnForms' /\ \A y \in Ids : Unreused(y)' => Traced(y)'
  BY <1>2, NewDocType, AwaitVersions DEF Create
<1>3. ASSUME NEW x \in Ids, NEW checked \in BOOLEAN, Delete(a, x, checked)
      PROVE  OwnForms' /\ \A y \in Ids : Unreused(y)' => Traced(y)'
  BY <1>0, <1>3, FoundType, AwaitVersions DEF Delete
<1> QED
  BY <1>1, <1>2, <1>3, ViewVersions, WriteVersions, AddVersions, MarkVersions, EndVersions
     DEF Request

(* Files are stored only where there is nothing, and resets only empty.    *)
LEMMA SeedVersions ==
  ASSUME VersionInv, NEW x \in Ids, Insert(x, SeedDoc(x)), UNCHANGED requestVars
  PROVE  OwnForms' /\ \A y \in Ids : Unreused(y)' => Traced(y)'
<1>0. TypeOK /\ SeedDoc(x) \in Doc /\ UNCHANGED <<form, at, job>>
  BY SeedDocType DEF VersionInv, ItemsInv, requestVars
<1>1. OwnForms'
  BY <1>0 DEF VersionInv, OwnForms, Updating
<1>2. ASSUME NEW y \in Ids, Unreused(y)'
      PROVE  Traced(y)'
  <2>1. CASE y # x
    <3>1. store'[y] = store[y] /\ created'[y] = created[y] /\ created[y] \in Nat
      BY <1>0, <2>1, InsertElsewhere
    <3>2. Traced(y)
      BY <1>2, <3>1 DEF VersionInv, Unreused
    <3> QED
      BY <1>0, <3>1, <3>2, OnceStored, TracedFrame
  <2>2. CASE y = x
    <3>1. /\ created[x] = 0 /\ created'[x] = 1 /\ store'[x] = <<SeedDoc(x)>> /\ Untouched(x)
      BY <1>0, <1>2, <2>2, InsertFirst DEF VersionInv
    <3>2. \A b \in Admins : /\ form'[b].of # x
                            /\ at'[b] # "idle" /\ job'[b].of = x => at'[b] = "add"
      BY <1>0, <3>1 DEF Untouched
    <3> QED
      BY <1>0, <2>2, <3>1, <3>2, TracedNew
  <2> QED BY <2>1, <2>2
<1> QED BY <1>1, <1>2

LEMMA ResettingVersions ==
  ASSUME VersionInv, Resetting
  PROVE  OwnForms' /\ \A y \in Ids : Unreused(y)' => Traced(y)'
<1>0. TypeOK /\ created \in [Ids -> Nat]
  BY DEF VersionInv, ItemsInv, TypeOK
<1>1. ASSUME UNCHANGED <<requestVars, created>>,
             \A y \in Ids : store'[y] = store[y] \/ store'[y] = <<>>
      PROVE  OwnForms' /\ \A y \in Ids : Unreused(y)' => Traced(y)'
  <2>1. UNCHANGED <<form, at, job, created>>
    BY <1>1 DEF requestVars
  <2>2. OwnForms'
    BY <2>1 DEF VersionInv, OwnForms, Updating
  <2>3. ASSUME NEW y \in Ids, Unreused(y)'
        PROVE  Traced(y)'
    <3>1. Traced(y)
      BY <2>1, <2>3 DEF VersionInv, Unreused
    <3> QED
      BY <1>0, <1>1, <2>1, <3>1, OnceStored, TracedFrame
  <2> QED BY <2>2, <2>3
<1>2. CASE Begin \/ Done \/ \E x \in Seeds : Seed(x)
  BY <1>1, <1>2 DEF Begin, Done, Seed
<1>3. CASE Drop
  <2>1. \A y \in Ids : store'[y] = store[y] \/ store'[y] = <<>>
    <3>1. PICK S : store' = [x \in Ids |-> IF x \in S THEN <<>> ELSE store[x]]
      <4>1. PICK dropped \in BOOLEAN, p \in {"definitions", "templates"} :
              LET here == IF p = "definitions" THEN Definitions ELSE Templates
              IN store' = [x \in Ids |-> IF dropped /\ x \in here THEN <<>> ELSE store[x]]
        BY <1>3 DEF Drop
      <4> DEFINE here == IF p = "definitions" THEN Definitions ELSE Templates
                 S == {x \in Ids : dropped /\ x \in here}
      <4>2. store' = [x \in Ids |-> IF x \in S THEN <<>> ELSE store[x]]
        BY <4>1
      <4> QED BY <4>2
    <3> QED BY <3>1
  <2> QED BY <1>1, <1>3, <2>1 DEF Drop
<1>4. CASE AddSeed
  <2>1. reset.adding \in Ids /\ UNCHANGED requestVars
    BY <1>0, <1>4, BlueprintsAssumption DEF AddSeed, Reset, TypeOK
  <2>2. CASE Insert(reset.adding, SeedDoc(reset.adding))
    BY <2>1, <2>2, SeedVersions
  <2>3. CASE UNCHANGED <<store, created>>
    BY <1>1, <2>1, <2>3
  <2> QED BY <1>4, <2>2, <2>3 DEF AddSeed
<1> QED
  BY <1>2, <1>3, <1>4 DEF Resetting

LEMMA RestartVersions ==
  ASSUME VersionInv, Restart
  PROVE  OwnForms' /\ \A y \in Ids : Unreused(y)' => Traced(y)'
<1>0. TypeOK /\ created \in [Ids -> Nat]
  BY DEF VersionInv, ItemsInv, TypeOK
<1>1. PICK missing \in SUBSET {x \in Seeds : Absent(x)} :
      /\ store' = [x \in Ids |-> IF x \in missing THEN <<SeedDoc(x)>> ELSE store[x]]
      /\ created' = [x \in Ids |-> IF x \in missing THEN created[x] + 1 ELSE created[x]]
      /\ \A a \in Admins : at'[a] = "idle"
      /\ form' = form
  BY DEF Restart
<1>2. missing \subseteq {x \in Ids : Absent(x)}
  BY BlueprintsAssumption
<1>3. OwnForms'
  BY <1>1 DEF OwnForms, Updating
<1>4. ASSUME NEW y \in Ids, Unreused(y)'
      PROVE  Traced(y)'
  <2>1. Traced(y) /\ created'[y] \in {created[y], created[y] + 1} /\ created[y] \in Nat
    BY <1>0, <1>1, <1>4 DEF VersionInv, Unreused
  <2>2. CASE y \in missing
    <3>1. created[y] = 0 /\ created'[y] = 1 /\ store'[y] = <<SeedDoc(y)>>
      BY <1>0, <1>1, <1>4, <2>2 DEF Unreused
    <3>2. \A a \in Admins : form'[a].of # y
      BY <1>1, <2>1, <3>1 DEF Traced, Untouched
    <3> QED
      BY <1>1, <3>1, <3>2, SeedDocType, TracedNew
  <2>3. CASE y \notin missing
    <3>1. store'[y] = store[y] /\ created'[y] = created[y]
      BY <1>1, <2>3
    <3> QED
      BY <1>1, <2>1, <3>1, TracedFrame
  <2> QED BY <2>2, <2>3
<1> QED BY <1>3, <1>4

LEMMA VersionStep == VersionInv /\ [Next]_vars => VersionInv'
<1> SUFFICES ASSUME VersionInv, [Next]_vars PROVE VersionInv'
  OBVIOUS
<1>1. ItemsInv'
  BY ItemsStep DEF VersionInv
<1>2. OwnForms' /\ \A y \in Ids : Unreused(y)' => Traced(y)'
  <2>1. ASSUME NEW a \in Admins, Sync(a) \/ Finish(a)
        PROVE  OwnForms' /\ \A y \in Ids : Unreused(y)' => Traced(y)'
    BY <2>1, SyncVersions DEF Sync, Finish
  <2>2. CASE UNCHANGED vars
    <3>1. UNCHANGED <<store, form, at, job, created>>
      BY <2>2 DEF vars, requestVars
    <3>2. OwnForms'
      BY <3>1 DEF VersionInv, OwnForms, Updating
    <3>3. ASSUME NEW y \in Ids, Unreused(y)'
          PROVE  Traced(y)'
      BY <3>1, <3>3 DEF VersionInv, Unreused, Traced, Untouched, FormsAgree, FormsBehind,
                        UpdatesFollow, Updating, MarksFollow, Absent, Found
    <3> QED BY <3>2, <3>3
  <2> QED
    BY <2>1, <2>2, RequestVersions, ResettingVersions, RestartVersions DEF Next
<1> QED BY <1>1, <1>2 DEF VersionInv

LEMMA VersionsNameContents == VersionInv => VersionNamesContent
<1> SUFFICES ASSUME VersionInv, NEW x \in Ids, Unreused(x)
             PROVE  LET contents == {form[a].dto : a \in {b \in Admins : form[b].of = x}}
                                      \cup {Content(d) : d \in ToSet(store[x])}
                    IN \A c, d \in contents : c.version = d.version => c = d
  BY DEF VersionNamesContent
<1>0. TypeOK /\ Traced(x)
  BY DEF VersionInv, ItemsInv
<1>1. FormsAgree(x) /\ FormsBehind(x)
  BY <1>0 DEF Traced
<1>2. CASE Absent(x)
  <2>1. ToSet(store[x]) = {}
    BY <1>2 DEF Absent, ToSet
  <2> QED BY <1>1, <2>1 DEF FormsAgree
<1>3. CASE ~ Absent(x)
  <2>1. Found(x) \in Doc /\ store[x] = <<Found(x)>> /\ DOMAIN store[x] = {1}
    BY <1>0, <1>3, OnlyFound
  <2>2. ToSet(store[x]) = {Found(x)}
    BY <2>1 DEF ToSet, Found
  <2>3. Content(Found(x)).version = Found(x).version
    BY <2>1, ContentOf
  <2>4. \A a \in Admins :
          form[a].of = x /\ form[a].dto.version = Found(x).version
            => form[a].dto = Content(Found(x))
    BY <1>1, <1>3 DEF FormsBehind
  <2> QED BY <1>1, <2>2, <2>3, <2>4 DEF FormsAgree
<1> QED BY <1>2, <1>3

(* Optimistic concurrency by version is sound for any number of            *)
(* administrators: a version of an identifier stands for one content.      *)
THEOREM VersionsAreUnambiguous == Spec => []VersionNamesContent
<1>1. Spec => []VersionInv
  BY VersionInit, VersionStep, PTL DEF Spec
<1> QED BY <1>1, VersionsNameContents, PTL

(* No administrator's change is overwritten by a form that does not show   *)
(* it, as long as the identifier is not used again.                        *)
THEOREM NoChangeOverwritten == Spec => SavedAsSeen
<1>1. Spec => []VersionInv
  BY VersionInit, VersionStep, PTL DEF Spec
<1>2. VersionInv /\ [Next]_vars =>
        [\A a \in Admins :
           LET x == job[a].of
           IN Saved(a) /\ Unreused(x) => Content(Found(x)) = form[a].dto]_vars
  <2> SUFFICES ASSUME VersionInv, Next, NEW a \in Admins, Saved(a), Unreused(job[a].of)
               PROVE  Content(Found(job[a].of)) = form[a].dto
    BY DEF vars
  <2>0. TypeOK /\ at[a] = "write" /\ Updating(a)
    BY DEF VersionInv, ItemsInv, Saved, Updating
  <2>1. Write(a)
    <3>1. ASSUME NEW b \in Admins, b # a, Write(b) \/ Add(b)
          PROVE  form'[a] = form[a]
      BY <2>0, <3>1 DEF Write, Add, Show, TypeOK
    <3>2. ASSUME NEW b \in Admins, NEW x \in Ids, View(b, x)
          PROVE  form'[a] = form[a]
      BY <2>0, <3>2 DEF View, Show, TypeOK
    <3>3. ASSUME NEW b \in Admins, Request(b)
          PROVE  Write(a) \/ form'[a] = form[a]
      BY <2>0, <3>1, <3>2, <3>3 DEF Request, Update, Create, Delete, Await, Mark, Erase, Fail, Add
    <3>4. CASE Resetting \/ Restart
      BY <3>4 DEF Saved, Resetting, Begin, Drop, Seed, AddSeed, Done, Restart, requestVars
    <3>5. ASSUME NEW b \in Admins, Sync(b) \/ Finish(b)
          PROVE  form' = form
      BY <3>5 DEF Sync, Finish, Apply
    <3> QED
      BY <3>3, <3>4, <3>5 DEF Saved, Next
  <2>2. PICK x \in Ids, doc \in Doc : x = job[a].of /\ doc = job[a].doc
    BY <2>0, JobType
  <2>3. Traced(x) /\ Unreused(x)
    BY <2>2 DEF VersionInv
  <2>4. Replace(x, doc)
    BY <2>1, <2>2 DEF Write
  <2>5. ~ Absent(x) /\ Found(x).stamp = doc.stamp
    BY <2>0, <2>3, <2>4, Replaced
  <2> QED
    BY <2>0, <2>2, <2>3, <2>5 DEF Traced, UpdatesFollow
<1> QED
  BY <1>1, <1>2, PTL DEF Spec, SavedAsSeen

=============================================================================
