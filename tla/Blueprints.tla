----------------------------- MODULE Blueprints -----------------------------
(***************************************************************************)
(* The blueprints of conversations in agent-host: agent definitions and    *)
(* conversation templates, which administrators open in a form, change,    *)
(* create and delete while others do the same, and which are seeded from   *)
(* files when the server starts and when the database is reset.            *)
(*                                                                         *)
(* Every command reads the aggregate, checks and changes it without an     *)
(* await, and writes it.  at says which write a request is waiting for:    *)
(*   idle   no request              write  saving a changed blueprint      *)
(*   add    storing a new one       mark   saving the deleted event        *)
(*   remove removing the document   sync   none: the loops over the items  *)
(* Nothing else happens while a request is at sync.                        *)
(* A command that is refused before its write changes nothing.             *)
(***************************************************************************)
EXTENDS Naturals, Sequences, SequencesExt

CONSTANTS
  Definitions, Templates,  \* identifiers (slugs) of either kind
  Seeds,                   \* those that have a file
  Admins,                  \* administrators, each with one form and request
  Texts,                   \* contents of the fields other than the items
  ItemLists,               \* lists of items a form may hold
  First,                   \* the list of a seeded template
  None,                    \* nothing given
  MaxWrites,               \* bound: writes to a document that requests follow
  MaxCreated,              \* bound: documents stored when a new one is asked for
  MaxResets                \* bound: resets of the database and restarts

Ids == Definitions \cup Templates

Item == UNION {ToSet(l) : l \in ItemLists}

IdsOf(items) == {items[k].id : k \in DOMAIN items}

ASSUME BlueprintsAssumption ==
  /\ Definitions \cap Templates = {}
  /\ Seeds \subseteq Ids
  /\ Texts # {} /\ None \notin Texts \cup ItemLists \cup Ids
  /\ First \in ItemLists
  /\ \A l \in ItemLists : /\ l \in Seq(Item)
                          /\ \A j, k \in DOMAIN l : l[j].id = l[k].id => j = k
  /\ \A i \in Item : i.order \in Nat
  /\ MaxWrites \in [Ids -> Nat] /\ {MaxCreated, MaxResets} \subseteq Nat

VARIABLES
  store,    \* the documents kept under each identifier
  form,     \* what each administrator has on the screen
  at, job,  \* write a request waits for, and the documents it works on
  reset,    \* how far a reset of the database has got
  resets,   \* resets and restarts so far
  created   \* history: documents stored under each identifier so far

requestVars == <<form, at, job>>
resetVars == <<reset, resets>>
vars == <<store, requestVars, resetVars, created>>

\* stamp: the version the repository keeps, version: the one in the state
Doc == [stamp : Nat, version : Nat, text : Texts, items : Seq(Item)]

Dto == [version : Nat, text : Texts, items : Seq(Item)]

\* what an administrator sees of a document
Content(doc) == [version |-> doc.version, text |-> doc.text, items |-> doc.items]

Forms == [of : Ids, dto : Dto]

NoForm == [of |-> None]

\* doc: the document read, and changed since; wanted: the items asked for
Jobs == [of : Ids, doc : Doc, wanted : ItemLists \cup {None}]

NoJob == [of |-> None]

\* todo: files not yet looked at; adding: the one found to be missing
Reset == [phase : {"idle", "definitions", "templates", "seed"},
          todo : SUBSET Seeds, adding : Seeds \cup {None}]

NoReset == [phase |-> "idle", todo |-> {}, adding |-> None]

-----------------------------------------------------------------------------
(* The items of a template, and how an update replaces them: one event for *)
(* each item that is removed, changed or added, and one for the order.     *)

PositionOf(items, id) == CHOOSE k \in DOMAIN items : items[k].id = id

ItemOf(items, id) == items[PositionOf(items, id)]

OrderOf(items) == [k \in DOMAIN items |-> items[k].id]

Gone(items, wanted) == IdsOf(items) \ IdsOf(wanted)

Changed(items, wanted) ==
  {id \in IdsOf(items) \cap IdsOf(wanted) : ItemOf(items, id) # ItemOf(wanted, id)}

Added(items, wanted) == IdsOf(wanted) \ IdsOf(items)

Removed(items, id) == RemoveAt(items, PositionOf(items, id))

Refreshed(items, item) == [items EXCEPT ![PositionOf(items, item.id)] = item]

\* list.insert, or append, at the order the item asks for
Placed(items, item) ==
  InsertAt(items, 1 + (IF item.order < Len(items) THEN item.order ELSE Len(items)), item)

\* variant: without the order
ReorderedNot(items, order) == items

Reordered(items, order) == [k \in DOMAIN order |-> ItemOf(items, order[k])]

-----------------------------------------------------------------------------
(* The repository (MongoDB). *)

Absent(x) == store[x] = <<>>

Found(x) == store[x][1]

\* documents of x that have not been written since doc was read
Unchanged(x, doc) == {k \in DOMAIN store[x] : store[x][k].stamp = doc.stamp}

\* the first of them is replaced
Replace(x, doc) ==
  \E k \in Unchanged(x, doc) :
    /\ \A j \in Unchanged(x, doc) : k <= j
    /\ store' = [store EXCEPT ![x][k] = [doc EXCEPT !.stamp = @ + 1]]

Insert(x, doc) ==
  /\ store' = [store EXCEPT ![x] = Append(@, doc)]
  /\ created' = [created EXCEPT ![x] = @ + 1]

Delete1(x) == store' = [store EXCEPT ![x] = IF @ = <<>> THEN @ ELSE Tail(@)]

NewDoc(x, text, items) ==
  [stamp |-> 0, version |-> 1, text |-> text,
   items |-> IF x \in Templates THEN items ELSE <<>>]

\* a file always has the same content
SeedDoc(x) == NewDoc(x, CHOOSE t \in Texts : TRUE, First)

-----------------------------------------------------------------------------
(* Requests. *)

Await(a, point, x, doc, wanted) ==
  /\ at[a] = "idle"
  /\ at' = [at EXCEPT ![a] = point]
  /\ job' = [job EXCEPT ![a] = [of |-> x, doc |-> doc, wanted |-> wanted]]
  /\ UNCHANGED <<store, form, resetVars, created>>

\* variant: the job is kept
AnswerKept(a) ==
  /\ at' = [at EXCEPT ![a] = "idle"]
  /\ UNCHANGED <<job, resetVars>>

Answer(a) ==
  /\ at' = [at EXCEPT ![a] = "idle"]
  /\ job' = [job EXCEPT ![a] = NoJob]
  /\ UNCHANGED resetVars

Show(a, x, doc) == form' = [form EXCEPT ![a] = [of |-> x, dto |-> Content(doc)]]

\* variant: any version will do
IsCurrentAlways(a, x) == TRUE

\* the form is of the version that is stored
IsCurrent(a, x) == Found(x).version = form[a].dto.version

\* fields that are given are set, all in one event, which counts as a version
Retexted(doc, text) ==
  IF text = None THEN doc ELSE [doc EXCEPT !.text = text, !.version = @ + 1]

\* an administrator opens the form of x, or an export of it
View(a, x) ==
  /\ at[a] = "idle" /\ ~ Absent(x)
  /\ Show(a, x, Found(x))
  /\ UNCHANGED <<store, at, job, resetVars, created>>

\* the form is sent; a definition has no items, and one field counts for all
Update(a, text, wanted) ==
  LET x == form[a].of
  IN /\ form[a] # NoForm /\ ~ Absent(x) /\ IsCurrent(a, x)
     /\ text # None \/ wanted # None
     /\ x \in Definitions => wanted = None
     /\ Found(x).stamp < MaxWrites[x]
     /\ Await(a, IF wanted = None THEN "write" ELSE "sync", x, Retexted(Found(x), text), wanted)

\* variant: events about the items do not count as versions
WithItemsUncounted(doc, items) == [doc EXCEPT !.items = items]

\* the state after an event about the items
WithItems(doc, items) == [doc EXCEPT !.items = items, !.version = @ + 1]

Apply(a, items) ==
  /\ job' = [job EXCEPT ![a].doc = WithItems(@, items)]
  /\ UNCHANGED <<store, form, at, resetVars, created>>

\* the loops over the sets of ids, in whatever order those are iterated over
Sync(a) ==
  LET items == job[a].doc.items
      wanted == job[a].wanted
  IN /\ at[a] = "sync"
     /\ \/ \E id \in Gone(items, wanted) : Apply(a, Removed(items, id))
        \/ /\ Gone(items, wanted) = {}
           /\ \E id \in Changed(items, wanted) : Apply(a, Refreshed(items, ItemOf(wanted, id)))
        \/ /\ Gone(items, wanted) \cup Changed(items, wanted) = {}
           /\ \E id \in Added(items, wanted) : Apply(a, Placed(items, ItemOf(wanted, id)))

\* items that are not in the order asked for are reordered
Finish(a) ==
  LET wanted == job[a].wanted
      items == job[a].doc.items
  IN /\ at[a] = "sync"
     /\ Gone(items, wanted) \cup Changed(items, wanted) \cup Added(items, wanted) = {}
     /\ at' = [at EXCEPT ![a] = "write"]
     /\ job' = IF OrderOf(items) = OrderOf(wanted) THEN job
               ELSE [job EXCEPT ![a].doc = WithItems(@, Reordered(items, OrderOf(wanted)))]
     /\ UNCHANGED <<store, form, resetVars, created>>

Write(a) ==
  /\ at[a] = "write"
  /\ Replace(job[a].of, job[a].doc)
  /\ Show(a, job[a].of, job[a].doc)
  /\ Answer(a)
  /\ UNCHANGED created

\* the first of two requests for a free identifier, or of more
Create(a, x, text, items) ==
  /\ Absent(x)
  /\ created[x] < MaxCreated
  /\ x \in Definitions => items = First
  /\ Await(a, "add", x, NewDoc(x, text, items), None)

Add(a) ==
  /\ at[a] = "add"
  /\ Insert(job[a].of, job[a].doc)
  /\ Show(a, job[a].of, job[a].doc)
  /\ Answer(a)

\* a definition may be deleted as it is in the form, or whatever it is
Delete(a, x, checked) ==
  /\ ~ Absent(x)
  /\ checked => x \in Definitions /\ form[a].of = x /\ IsCurrent(a, x)
  /\ Found(x).stamp < MaxWrites[x]
  /\ Await(a, "mark", x, Found(x), None)

Mark(a) ==
  /\ at[a] = "mark"
  /\ Replace(job[a].of, job[a].doc)
  /\ at' = [at EXCEPT ![a] = "remove"]
  /\ UNCHANGED <<form, job, resetVars, created>>

Erase(a) ==
  /\ at[a] = "remove"
  /\ Delete1(job[a].of)
  /\ Answer(a)
  /\ UNCHANGED <<form, created>>

\* the write fails, or is refused since the document has been written
Fail(a) ==
  /\ at[a] \in {"write", "add", "mark", "remove"}
  /\ Answer(a)
  /\ UNCHANGED <<store, form, created>>

-----------------------------------------------------------------------------
(* Resets and starts. *)

Begin ==
  /\ reset = NoReset /\ resets < MaxResets
  /\ reset' = [NoReset EXCEPT !.phase = "definitions"]
  /\ resets' = resets + 1
  /\ UNCHANGED <<store, requestVars, created>>

\* the collections are dropped one after the other; one may fail to be
Drop ==
  \E dropped \in BOOLEAN, p \in {"definitions", "templates"} :
    /\ reset.phase = p
    /\ LET here == IF p = "definitions" THEN Definitions ELSE Templates
       IN store' = [x \in Ids |-> IF dropped /\ x \in here THEN <<>> ELSE store[x]]
    /\ reset' = IF p = "definitions" THEN [reset EXCEPT !.phase = "templates"]
                ELSE [reset EXCEPT !.phase = "seed", !.todo = Seeds]
    /\ UNCHANGED <<requestVars, resets, created>>

\* the definitions' files come first, in any order
Seed(x) ==
  /\ reset.phase = "seed" /\ reset.adding = None
  /\ x \in reset.todo
  /\ x \in Templates => reset.todo \cap Definitions = {}
  /\ reset' = [reset EXCEPT !.todo = @ \ {x}, !.adding = IF Absent(x) THEN x ELSE None]
  /\ UNCHANGED <<store, requestVars, resets, created>>

\* a file that cannot be stored is passed over
AddSeed ==
  /\ reset.adding # None
  /\ reset' = [reset EXCEPT !.adding = None]
  /\ \/ Insert(reset.adding, SeedDoc(reset.adding))
     \/ UNCHANGED <<store, created>>
  /\ UNCHANGED <<requestVars, resets>>

Done ==
  /\ reset.phase = "seed" /\ reset.adding = None /\ reset.todo = {}
  /\ reset' = NoReset
  /\ UNCHANGED <<store, requestVars, resets, created>>

\* the server stops, with the requests it was handling, and seeds at its start
\* what is missing, except for files that cannot be stored
Restart ==
  \E missing \in SUBSET {x \in Seeds : Absent(x)} :
    /\ resets < MaxResets
    /\ store' = [x \in Ids |-> IF x \in missing THEN <<SeedDoc(x)>> ELSE store[x]]
    /\ created' = [x \in Ids |-> IF x \in missing THEN created[x] + 1 ELSE created[x]]
    /\ at' = [a \in Admins |-> "idle"]
    /\ job' = [a \in Admins |-> NoJob]
    /\ reset' = NoReset
    /\ resets' = resets + 1
    /\ UNCHANGED form

-----------------------------------------------------------------------------

Init ==
  /\ store = [x \in Ids |-> IF x \in Seeds THEN <<SeedDoc(x)>> ELSE <<>>]
  /\ form = [a \in Admins |-> NoForm]
  /\ at = [a \in Admins |-> "idle"]
  /\ job = [a \in Admins |-> NoJob]
  /\ reset = NoReset
  /\ resets = 0
  /\ created = [x \in Ids |-> IF x \in Seeds THEN 1 ELSE 0]

Request(a) ==
  \/ \E x \in Ids : View(a, x)
  \/ \E text \in Texts \cup {None}, wanted \in ItemLists \cup {None} : Update(a, text, wanted)
  \/ \E x \in Ids, text \in Texts, items \in ItemLists : Create(a, x, text, items)
  \/ \E x \in Ids, checked \in BOOLEAN : Delete(a, x, checked)
  \/ Write(a) \/ Add(a) \/ Mark(a) \/ Erase(a) \/ Fail(a)

Resetting == Begin \/ Drop \/ (\E x \in Seeds : Seed(x)) \/ AddSeed \/ Done

Syncing == \E a \in Admins : at[a] = "sync"

Next ==
  \/ Syncing /\ \E a \in Admins : Sync(a) \/ Finish(a)
  \/ ~ Syncing /\ ((\E a \in Admins : Request(a)) \/ Resetting \/ Restart)

Spec == Init /\ [][Next]_vars

-----------------------------------------------------------------------------
(* Properties. *)

(* Type invariant. *)
TypeOK ==
  /\ store \in [Ids -> Seq(Doc)]
  /\ form \in [Admins -> Forms \cup {NoForm}]
  /\ at \in [Admins -> {"idle", "sync", "write", "add", "mark", "remove"}]
  /\ job \in [Admins -> Jobs \cup {NoJob}]
  /\ \A a \in Admins : at[a] = "idle" <=> job[a] = NoJob
  /\ reset \in Reset
  /\ resets \in 0 .. MaxResets
  /\ created \in [Ids -> Nat]

(* An update that gives items saves exactly those, in the order in which   *)
(* they are given, whatever was stored before, whatever order each item    *)
(* asks for, and in whatever order the set of new items is iterated over   *)
(* (_sync_items_differential).                                             *)
ItemsReplaced ==
  \A a \in Admins :
    at[a] = "write" /\ job[a].wanted # None => job[a].doc.items = job[a].wanted

Unreused(x) == created[x] <= 1

(* As long as an identifier is not used again, a version stands for one    *)
(* content: no two documents, on a screen or in the store, agree on the    *)
(* version and differ in what they say (optimistic concurrency by version, *)
(* with two writers that have read the same version).                      *)
VersionNamesContent ==
  \A x \in Ids : Unreused(x) =>
    LET contents == {form[a].dto : a \in {b \in Admins : form[b].of = x}}
                      \cup {Content(d) : d \in ToSet(store[x])}
    IN \A c, d \in contents : c.version = d.version => c = d

Saved(a) == at[a] = "write" /\ form'[a] # form[a]

(* A form is saved only over the document it was opened on: what another   *)
(* administrator has saved since is never overwritten, as long as the      *)
(* identifier has not been used again.                                     *)
SavedAsSeen ==
  [][\A a \in Admins :
       LET x == job[a].of
       IN Saved(a) /\ Unreused(x) => Content(Found(x)) = form[a].dto]_vars

=============================================================================
