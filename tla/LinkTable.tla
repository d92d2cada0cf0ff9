------------------------------- MODULE LinkTable -------------------------------
(***************************************************************************)
(* One many-one or many-many column of the library (tags, publisher,       *)
(* series, ...): the maps that calibre/db/tables.py keeps in memory, the   *)
(* two database tables behind them, and the operations of db/write.py,     *)
(* db/tables.py and db/cache.py that change both.                          *)
(*                                                                         *)
(* The operations run under the write lock, so they do not interleave; but *)
(* each executes several SQL statements that commit one by one, and the    *)
(* process may end, or an exception be raised, at any of them.  A call is  *)
(* therefore the sequence of its statements, each with the contents of the *)
(* database it leads to and of the memory when it is executed.             *)
(***************************************************************************)
EXTENDS Integers, Sequences, FiniteSets, SequencesExt

CONSTANTS
    NBooks,         \* the number of books
    MaxItem,        \* bound: the largest id of an item
    Names,          \* the names of items: a word, in capitals or not
    MaxValues,      \* bound: the values of one book, if it may have several
    MaxRenames,     \* bound: the items in one call of rename_items()
    Kinds,          \* the columns: many-many if TRUE, many-one if FALSE
    Ascii,          \* whether the names are of letters whose case SQLite knows
    Failing,        \* bound: the kinds of columns whose statements may fail
    Faults,         \* which of the failures below may happen
    None

Books == 1..NBooks
Items == 1..MaxItem

ASSUME LinkTableAssumption ==
    /\ NBooks \in Nat /\ MaxItem \in Nat /\ MaxRenames \in Nat
    /\ MaxValues \in Nat \ {0} /\ Kinds \subseteq BOOLEAN /\ Ascii \in BOOLEAN
    /\ \A n \in Names : n.caps \in BOOLEAN
    /\ None \notin Names
    /\ Failing \subseteq Kinds /\ Faults \subseteq {"crash", "duplicates"}

VARIABLES
    Multiple,       \* whether a book may have several values
    CustomSeries,   \* whether it is a series that the user defined; like
                    \* Multiple it never changes
    mem,            \* id_map, book_col_map and col_book_map of the table
    db,             \* the rows of the item table; the links of each book, by id
    call,           \* the operation in progress, or None
    intact          \* whether every call since the database was read succeeded

vars == <<Multiple, CustomSeries, mem, db, call, intact>>

\* A column without items; what reading a database gives (ManyToOneTable.read).
EmptyDb == [rows |-> [i \in Items |-> None], links |-> [b \in Books |-> <<>>]]

Read(d) ==
    [id_map       |-> d.rows,
     book_col_map |-> d.links,
     col_book_map |-> [i \in Items |-> {b \in Books : i \in ToSet(d.links[b])}]]

icu_lower(n) == n.word

Known(m) == {i \in Items : m.id_map[i] # None}
Rows(d)  == {i \in Items : d.rows[i] # None}

\* The constraints of the schema: no two items of one name, no link twice, and
\* no link without its item, which in a custom column is held to as well though
\* there a trigger would delete the link.  COLLATE NOCASE knows the case of ASCII
\* only.
SameToSQLite(n, o) == n = o \/ (Ascii /\ icu_lower(n) = icu_lower(o))

Accepted(d) ==
    /\ \A i, j \in Rows(d) : SameToSQLite(d.rows[i], d.rows[j]) => i = j
    /\ \A b \in Books : IsInjective(d.links[b]) /\ ToSet(d.links[b]) \subseteq Rows(d)

Distinct(m) ==
    \A i, j \in Known(m) : icu_lower(m.id_map[i]) = icu_lower(m.id_map[j]) => i = j

Room == IF Multiple THEN MaxValues ELSE 1

\* Libraries that other programs wrote may have items that differ in case only.
OtherLibraries ==
    {d \in [rows : [Items -> Names \cup {None}],
            links : [Books -> SeqOf(Items, Room)]] : Accepted(d)}

Init ==
    /\ Multiple \in Kinds
    /\ CustomSeries \in BOOLEAN /\ (CustomSeries => ~ Multiple)
    /\ db \in IF "duplicates" \in Faults THEN OtherLibraries ELSE {EmptyDb}
    /\ mem = Read(db)
    /\ call = None
    /\ intact = TRUE

-------------------------------------------------------------------------------
(* Building a call: s holds the memory and the database as the code so far *)
(* leaves them, its statements, and the books it has marked dirty.         *)

Begin(m, d) == [mem |-> m, db |-> d, statements |-> <<>>, dirtied |-> {}]

\* A statement; one that changes nothing is left out.
Execute(s, d) ==
    IF d = s.db THEN s
    ELSE [s EXCEPT !.db = d,
                   !.statements = Append(@, [mem |-> s.mem, db |-> d])]

Dirty(s, S) == [s EXCEPT !.dirtied = @ \cup S]

\* The members of S in ascending order; the values of seq at the places P.
InOrder(S) == [k \in 1..Cardinality(S) |->
                    CHOOSE x \in S : Cardinality({y \in S : y < x}) = k - 1]
At(seq, P) == [k \in 1..Cardinality(P) |-> seq[InOrder(P)[k]]]

Without(seq, S) == At(seq, {k \in DOMAIN seq : seq[k] \notin S})
Unlinked == [b \in Books |-> <<>>]

SetLinks(d, S, ids) ==
    [d EXCEPT !.links = [b \in Books |-> IF b \in S THEN ids[b] ELSE @[b]]]

DeleteRows(s, S) ==
    Execute(s, [s.db EXCEPT !.rows = [i \in Items |-> IF i \in S THEN None ELSE @[i]]])
DeleteItemLinks(s, S) ==
    Execute(s, [s.db EXCEPT !.links = [b \in Books |-> Without(@[b], S)]])
DeleteBookLinks(s, S)   == Execute(s, SetLinks(s.db, S, Unlinked))
InsertLinks(s, S, ids)  == Execute(s, SetLinks(s.db, S, ids))

Forget(f, S, nothing) == [i \in Items |-> IF i \in S THEN nothing ELSE f[i]]

\* A loop over seq, of which each round goes on with what the last one left.
Loop(round(_, _), s, seq) ==
    LET after[k \in 0..Len(seq)] ==
            IF k = 0 THEN s ELSE round(after[k - 1], seq[k])
    IN  after[Len(seq)]

\* uniq(): of the values with one key, the first.
uniq(vals, keys) ==
    At(vals, {k \in DOMAIN vals : \A j \in 1..(k - 1) : keys[j] # keys[k]})

Lowered(vals) == [k \in DOMAIN vals |-> icu_lower(vals[k])]

-------------------------------------------------------------------------------
(* Setting values: db/write.py *)

SameWord(m, i) == {j \in Known(m) : icu_lower(m.id_map[j]) = icu_lower(m.id_map[i])}

\* The books of the items v get main_id instead: one UPDATE, or for a book
\* with several of them a DELETE and an INSERT.
Relinked(orig, v, main_id) ==
    LET new == [k \in DOMAIN orig |-> IF orig[k] \in v THEN main_id ELSE orig[k]]
    IN  uniq(new, new)

StoreBook(s, b, orig) ==
    LET vals == s.mem.book_col_map IN
    InsertLinks(IF Len(vals[b]) = Len(orig) THEN s ELSE DeleteBookLinks(s, {b}), {b}, vals)

Relink(s, b, v, main_id) ==
    StoreBook([s EXCEPT !.mem.book_col_map[b] = Relinked(@, v, main_id)],
              b, s.mem.book_col_map[b])

\* fix_case_duplicates(), for the items v that differ from main_id in case
\* only.  The books of the items that go are not added to those of main_id.
MergeCase(s, main_id, v) ==
    LET relink(t, b) == Relink(t, b, v, main_id)
        books == UNION {s.mem.col_book_map[j] : j \in v}
    IN  DeleteRows(Loop(relink, [s EXCEPT !.mem.id_map = Forget(@, v, None),
                                          !.mem.col_book_map = Forget(@, v, {})],
                        InOrder(books)), v)

FixCase(s, main_id) == MergeCase(s, main_id, SameWord(s.mem, main_id) \ {main_id})

fix_case_duplicates(s) ==
    LET main == {i \in Known(s.mem) : \A j \in SameWord(s.mem, i) : i <= j}
    IN  Loop(FixCase, s, InOrder({i \in main : SameWord(s.mem, i) # {i}}))

\* get_db_id(): the item that differs from the name in case at most, or a new
\* one, which SQLite numbers after the last row.
HasItem(m, n) == \E i \in Known(m) : icu_lower(m.id_map[i]) = icu_lower(n)
ItemOf(m, n)  == CHOOSE i \in Known(m) : icu_lower(m.id_map[i]) = icu_lower(n)

InsertItem(s, i, n) ==
    [Execute(s, [s.db EXCEPT !.rows[i] = n]) EXCEPT !.mem.id_map[i] = n,
                                                    !.mem.col_book_map[i] = {}]

get_db_id(c, n) ==
    IF ~ HasItem(c.state.mem, n)
    THEN [c EXCEPT !.state = InsertItem(@, Max(Rows(@.db) \cup {0}) + 1, n)]
    ELSE IF c.state.mem.id_map[ItemOf(c.state.mem, n)] = n THEN c
    ELSE [c EXCEPT !.case_changes[ItemOf(c.state.mem, n)] = n]

\* change_case(): the new spelling shows in every book with the item.
Respell(f, changes) == [i \in Items |-> IF changes[i] # None THEN changes[i] ELSE f[i]]
Respelled(s, changes) ==
    [Execute(s, [s.db EXCEPT !.rows = Respell(@, changes)])
        EXCEPT !.mem.id_map = Respell(@, changes)]

\* Seeded fault: only the books being set are marked.
ChangeCaseUnmarked(s, changes) == Respelled(s, changes)

change_case(s, changes) ==
    Dirty(Respelled(s, changes),
          UNION {s.mem.col_book_map[i] : i \in {j \in Items : changes[j] # None}})

\* Seeded fault: the old items keep the books.
AssignNoDiscard(m, ids, S) ==
    [m EXCEPT
        !.book_col_map = [b \in Books |-> IF b \in S THEN ids[b] ELSE @[b]],
        !.col_book_map = [i \in Items |-> @[i] \cup {b \in S : i \in ToSet(ids[b])}]]

\* The maps in memory after the books of S got the items in ids.
Assign(m, ids, S) ==
    [m EXCEPT
        !.book_col_map = [b \in Books |-> IF b \in S THEN ids[b] ELSE @[b]],
        !.col_book_map = [i \in Items |->
            (@[i] \ {b \in S : i \in ToSet(m.book_col_map[b])})
                \cup {b \in S : i \in ToSet(ids[b])}]]

\* Seeded fault: a many-one column deletes first and inserts second too.
StoreLinksInTwo(s, S, ids) == InsertLinks(DeleteBookLinks(s, S), S, ids)

\* The links of a many-many column are deleted first and inserted second.
StoreLinks(s, S, ids) ==
    InsertLinks(DeleteBookLinks(s, IF Multiple THEN S ELSE {b \in S : ids[b] = <<>>}),
                S, ids)

RemoveItemsUnused(s, unused) ==
    [DeleteRows(s, unused) EXCEPT !.mem.id_map = Forget(@, unused, None)]
RemoveUnused(s) ==
    RemoveItemsUnused(s, {i \in Known(s.mem) : s.mem.col_book_map[i] = {}})

\* many_one() and many_many(): val_map gives some books the names of their new
\* values, none to clear the field.
AddNames(c, names_) == Loop(get_db_id, c, names_)

AddAllNames(s, vals) ==
    LET add(c, b) == AddNames(c, vals[b])
    IN  Loop(add, [state |-> s, case_changes |-> [i \in Items |-> None]],
             InOrder(DOMAIN vals))

AddedNames(c, allow_case_change) ==
    IF allow_case_change THEN change_case(c.state, c.case_changes) ELSE c.state

StoreItems(s, S, ids) ==
    RemoveUnused(StoreLinks(Dirty([s EXCEPT !.mem = Assign(@, ids, S)], S), S, ids))

\* many_many() takes () for a change where a book has no value.
Changed(m, ids) ==
    {b \in DOMAIN ids : ids[b] # m.book_col_map[b] \/ (Multiple /\ ids[b] = <<>>)}

StoreChanges(s, ids) == StoreItems(s, Changed(s.mem, ids), ids)

StoreNames(s, vals) ==
    StoreChanges(s, [b \in DOMAIN vals |->
                        [k \in DOMAIN vals[b] |-> ItemOf(s.mem, vals[b][k])]])

SetUnique(s, vals, allow_case_change) ==
    StoreNames(AddedNames(AddAllNames(s, vals), allow_case_change), vals)

set_books(s, val_map, allow_case_change) ==
    SetUnique(IF Distinct(s.mem) THEN s ELSE fix_case_duplicates(s),
              [b \in DOMAIN val_map |-> uniq(val_map[b], Lowered(val_map[b]))],
              allow_case_change)

-------------------------------------------------------------------------------
(* Renaming and removing: db/tables.py and db/cache.py *)

\* There is no other item of the new name.
RenameInPlace(s, i, n) ==
    Execute([s EXCEPT !.mem.id_map[i] = n],
            [s.db EXCEPT !.rows[i] = IF @ = None THEN None ELSE n])

\* Replacing an item by another; a many-many column first deletes the links
\* of the books that have the other one already.
Replaced(seq, i, j) == [k \in DOMAIN seq |-> IF seq[k] = i THEN j ELSE seq[k]]
ReplaceLinks(s, i, j) ==
    Execute(s, [s.db EXCEPT !.links = [b \in Books |-> Replaced(@[b], i, j)]])
DeleteLinks(s, S, I) ==
    Execute(s, SetLinks(s.db, S, [b \in Books |-> Without(s.db.links[b], I)]))

MergeInMemory(m, i, j) ==
    [id_map |-> [m.id_map EXCEPT ![i] = None],
     book_col_map |-> [b \in Books |->
        IF b \in m.col_book_map[i] THEN Replaced(Without(m.book_col_map[b], {j}), i, j)
        ELSE m.book_col_map[b]],
     col_book_map |-> [m.col_book_map EXCEPT ![i] = {}, ![j] = @ \cup m.col_book_map[i]]]

MergeInDb(s, i, j, books) ==
    DeleteRows(ReplaceLinks(IF Multiple THEN DeleteLinks(s, books, {j}) ELSE s, i, j), {i})

MergeItem(s, i, j) ==
    MergeInDb([s EXCEPT !.mem = MergeInMemory(@, i, j)], i, j, s.mem.col_book_map[i])

\* rename_item(): when there is an item of the new name already, it takes over
\* the books of this one.
rename_item(s, i, n) ==
    LET existing == {j \in Known(s.mem) : icu_lower(s.mem.id_map[j]) = icu_lower(n)} IN
    IF existing = {} \/ Max(existing) = i THEN RenameInPlace(s, i, n)
    ELSE MergeItem(s, i, Max(existing))

names(m, b) == [k \in DOMAIN m.book_col_map[b] |-> m.id_map[m.book_col_map[b][k]]]

\* rename_items() for all books: further names are added to the first.
AddToBooks(s, books, more) ==
    set_books(s, [b \in books |-> names(s.mem, b) \o more], TRUE)

RenameItem(s, i, new_names) ==
    LET t == Dirty(rename_item(s, i, new_names[1]), s.mem.col_book_map[i]) IN
    IF Len(new_names) = 1 THEN t
    ELSE AddToBooks(t, s.mem.col_book_map[i], Tail(new_names))

\* rename_items() for the books of a virtual library that has some of the
\* books of the item: these get new values.
Renamed(vals, old, new_names) ==
    IF Multiple THEN [k \in DOMAIN vals |-> IF vals[k] = old THEN new_names[1] ELSE vals[k]]
                        \o Tail(new_names)
    ELSE <<new_names[1]>>

RenameInBooks(s, i, new_names, S) ==
    set_books(s, [b \in S |-> Renamed(names(s.mem, b), s.mem.id_map[i], new_names)], TRUE)

\* Seeded fault: of several new names the first only is used.
RenameToFirst(s, item_id_to_new_names, restrict_to_book_ids) ==
    LET all(t, i) == Dirty(rename_item(t, i, item_id_to_new_names[i][1]),
                           t.mem.col_book_map[i])
    IN  Loop(all, s, InOrder(DOMAIN item_id_to_new_names))

\* With restrict_to_book_ids = Books: no restriction.  Items all of whose
\* books are in the restriction come later, and are renamed for all books.
rename_items(s, item_id_to_new_names, restrict_to_book_ids) ==
    LET books(c, i) == c.state.mem.col_book_map[i] \cap restrict_to_book_ids
        in_books(c, i) ==
            IF c.state.mem.col_book_map[i] \subseteq restrict_to_book_ids
            THEN [c EXCEPT !.later = @ \cup {i}]
            ELSE IF books(c, i) = {} THEN c
            ELSE [c EXCEPT !.state =
                    RenameInBooks(@, i, item_id_to_new_names[i], books(c, i))]
        all(t, i) == RenameItem(t, i, item_id_to_new_names[i])
        finish(c) == Loop(all, c.state, InOrder(c.later))
    IN  finish(Loop(in_books, [state |-> s, later |-> {}],
                        InOrder(DOMAIN item_id_to_new_names)))

\* Seeded fault: the rows go before the links.
DeleteRowsFirst(s, item_ids) == DeleteItemLinks(DeleteRows(s, item_ids), item_ids)

DeleteItems(s, item_ids) == DeleteRows(DeleteItemLinks(s, item_ids), item_ids)

RemoveInMemory(m, gone) ==
    [id_map |-> Forget(m.id_map, gone, None),
     col_book_map |-> Forget(m.col_book_map, gone, {}),
     book_col_map |-> [b \in Books |->
        IF \E i \in gone : b \in m.col_book_map[i] THEN Without(m.book_col_map[b], gone)
        ELSE m.book_col_map[b]]]

\* remove_items() for all books.
RemoveItems(s, item_ids) ==
    Dirty(DeleteItems([s EXCEPT !.mem = RemoveInMemory(@, item_ids \cap Known(@))], item_ids),
          UNION {s.mem.col_book_map[i] : i \in item_ids \cap Known(s.mem)})

\* remove_items() for the books of a virtual library: an item with other books
\* as well loses these; a many-many column deletes all the links at the end.
RemoveFromMaps(m, i, S) ==
    [m EXCEPT !.col_book_map[i] = @ \ S,
              !.book_col_map = [b \in Books |->
                IF b \in m.col_book_map[i] \cap S THEN Without(@[b], {i}) ELSE @[b]]]

RemoveFromBooks(s, i, S) ==
    LET books == s.mem.col_book_map[i] \cap S
        t == Dirty([s EXCEPT !.mem = RemoveFromMaps(@, i, S)], books)
    IN  IF Multiple THEN t ELSE DeleteBookLinks(t, books)

RemoveSpecial(s, special, item_ids, S) ==
    LET remove(t, i) == RemoveFromBooks(t, i, S)
        finish(t) == IF Multiple THEN DeleteLinks(t, t.dirtied, item_ids) ELSE t
    IN  finish(Loop(remove, s, InOrder(special)))

RemoveTwoParts(s, special, item_ids, S) ==
    IF special = item_ids THEN RemoveSpecial(s, special, item_ids, S)
    ELSE RemoveItems(RemoveSpecial(s, special, item_ids, S), item_ids \ special)

\* The affected books are marked; in a custom series they get a new index
\* instead, which marks those only that have a series still.
MarkAffected(s) ==
    IF CustomSeries THEN [s EXCEPT !.dirtied = {b \in @ : s.mem.book_col_map[b] # <<>>}] ELSE s

remove_items(s, item_ids, restrict_to_book_ids) ==
    MarkAffected(RemoveTwoParts(
        s, {i \in item_ids : ~ s.mem.col_book_map[i] \subseteq restrict_to_book_ids},
        item_ids, restrict_to_book_ids))

\* remove_books(): the triggers of the table of books delete the links.  The
\* books are gone then, and are not marked.
remove_books(s, S) ==
    LET had == UNION {ToSet(s.mem.book_col_map[b]) : b \in S}
        clean(t) == {i \in had : t.mem.col_book_map[i] = {} /\ i \in Known(t.mem)}
        finish(t) == DeleteRows([t EXCEPT !.mem.id_map = Forget(@, clean(t), None)], clean(t))
    IN  finish([DeleteBookLinks(s, S) EXCEPT !.mem = Assign(@, Unlinked, S)])

-------------------------------------------------------------------------------
(* Calls *)

Words(d, b)  == {icu_lower(d.rows[i]) : i \in ToSet(d.links[b])}
NewWords(ns) == {icu_lower(n) : n \in ToSet(ns)}
Values       == BoundedSeq(Names, Room)

\* Bound: the names of S fit into the table, the items of I being renamed.
Fits(S, I) ==
    LET new == {icu_lower(n) : n \in S} \ {icu_lower(mem.id_map[i]) : i \in Known(mem) \ I}
    IN  Max(Rows(db) \cup {0}) + Cardinality(new) <= MaxItem

Operations == {"set_field", "rename_items", "remove_items", "remove_books"}

\* want: the words that the books are to have in the end.
Start(operation, s, want) ==
    /\ call = None
    /\ call' = [operation |-> operation,
                statements |-> s.statements, result |-> s.mem, dirtied |-> s.dirtied,
                before |-> [b \in Books |-> names(Read(db), b)], want |-> want]
    /\ UNCHANGED <<Multiple, CustomSeries, mem, db, intact>>

SetField ==
    \E S \in (SUBSET Books) \ {{}} : \E val_map \in [S -> Values], allow \in BOOLEAN :
        /\ Fits(UNION {ToSet(val_map[b]) : b \in S}, {})
        /\ Start("set_field", set_books(Begin(mem, db), val_map, allow),
                 [b \in Books |-> IF b \in S THEN NewWords(val_map[b]) ELSE Words(db, b)])

Wanted(f, S) ==
    [b \in Books |->
        LET had == {i \in DOMAIN f : b \in S /\ i \in ToSet(mem.book_col_map[b])}
        IN  (Words(db, b) \ {icu_lower(mem.id_map[i]) : i \in had})
                \cup UNION {NewWords(f[i]) : i \in had}]

RenameItems ==
    \E I \in (SUBSET Known(mem)) \ {{}},
       S \in SUBSET Books :
        /\ Cardinality(I) <= MaxRenames
        /\ \E f \in [I -> Values \ {<<>>}] :
            /\ Fits(UNION {ToSet(f[i]) : i \in I}, I)
            /\ Start("rename_items", rename_items(Begin(mem, db), f, S), Wanted(f, S))

RemoveSomeItems ==
    \E I \in (SUBSET Items) \ {{}}, S \in SUBSET Books :
        Start("remove_items", remove_items(Begin(mem, db), I, S),
              Wanted([i \in I |-> <<>>], S))

RemoveBooks ==
    \E S \in (SUBSET Books) \ {{}} :
        Start("remove_books", remove_books(Begin(mem, db), S),
              [b \in Books |-> IF b \in S THEN {} ELSE Words(db, b)])

\* The next statement of the call commits.
Statement ==
    /\ call # None
    /\ call.statements # <<>>
    /\ Accepted(Head(call.statements).db)
    /\ db' = Head(call.statements).db
    /\ mem' = Head(call.statements).mem
    /\ call' = [call EXCEPT !.statements = Tail(@)]
    /\ UNCHANGED <<Multiple, CustomSeries, intact>>

\* It raises an exception, which ends the call: memory stays as it is.
StatementFails ==
    /\ call # None
    /\ call.statements # <<>>
    /\ Multiple \in Failing \/ ~ Accepted(Head(call.statements).db)
    /\ mem' = Head(call.statements).mem
    /\ call' = None
    /\ intact' = FALSE
    /\ UNCHANGED <<Multiple, CustomSeries, db>>

Finished == call # None /\ call.statements = <<>>

Return ==
    /\ Finished
    /\ mem' = call.result
    /\ call' = None
    /\ UNCHANGED <<Multiple, CustomSeries, db, intact>>

\* The process ends; the next one reads the database.
Restart ==
    /\ "crash" \in Faults
    /\ call # None \/ ~ intact
    /\ mem' = Read(db)
    /\ call' = None
    /\ intact' = TRUE
    /\ UNCHANGED <<Multiple, CustomSeries, db>>

Next ==
    \/ SetField \/ RenameItems \/ RemoveSomeItems \/ RemoveBooks
    \/ Statement \/ StatementFails \/ Return \/ Restart

Spec == Init /\ [][Next]_vars

-------------------------------------------------------------------------------
(* Properties *)

Memory   == [id_map : [Items -> Names \cup {None}],
             book_col_map : [Books -> Seq(Items)], col_book_map : [Items -> SUBSET Books]]
Database == [rows : [Items -> Names \cup {None}], links : [Books -> Seq(Items)]]
Calls    == [operation : Operations, statements : Seq([mem : Memory, db : Database]),
             result : Memory, dirtied : SUBSET Books, before : [Books -> Seq(Names)],
             want : [Books -> SUBSET {icu_lower(n) : n \in Names}]]

ASSUME NoneIsNoCall == None \notin Calls

\* Every variable has its type.
TypeOK ==
    /\ Multiple \in Kinds /\ CustomSeries \in BOOLEAN
    /\ mem \in Memory /\ db \in Database /\ intact \in BOOLEAN
    /\ call # None => call \in Calls

\* tables.py:200-223: between calls the maps in memory are what reading the
\* database anew would give.
MemoryIsDatabase == call = None /\ intact => mem = Read(db)

\* No call executes a statement that a constraint of the database refuses:
\* one that leaves two items of one name, two links between the same book and
\* item, or a link without its item, in whatever order the statements come.
StatementsAccepted ==
    call # None /\ intact /\ call.statements # <<>> => Accepted(Head(call.statements).db)

\* Even after a statement failed, book_col_map and col_book_map are each
\* other's inverse, the items they name are known, and every variable has its
\* type.
MapsAgree ==
    /\ TypeOK
    /\ \A i \in Items : mem.col_book_map[i] = {b \in Books : i \in ToSet(mem.book_col_map[b])}
    /\ \A b \in Books : ToSet(mem.book_col_map[b]) \subseteq Known(mem)

\* cache.py:1031-1033, 1618-1626 and 1718-1722: when a call returns, every book
\* has the values that were asked for, and the other books have theirs still.
ValuesAsAsked == Finished /\ intact => \A b \in Books : Words(db, b) = call.want[b]

\* Not marked are the books that remove_books() removes, and those that lose a
\* custom series to remove_items().
Unmarked(custom, c) ==
    IF c.operation = "remove_books" \/ (c.operation = "remove_items" /\ custom)
    THEN {b \in Books : c.want[b] = {}} ELSE {}

\* cache.py:1076, 1715 and 1729-1733: a call marks every other book dirty whose
\* values it changed, those that share an item whose case it changed included.
ChangesMarked ==
    Finished /\ intact => \A b \in Books \ Unmarked(CustomSeries, call) :
        names(Read(db), b) # call.before[b] => b \in call.dirtied

\* At every moment, and so after a crash at any moment, a book has either the
\* values it had or those that were asked for.  In a many-many column a crash
\* may lose values, but it leaves no value that is of neither.
AllOrNothing ==
    call # None /\ intact => \A b \in Books :
        LET old == {icu_lower(n) : n \in ToSet(call.before[b])} IN
        IF Multiple THEN Words(db, b) \subseteq old \cup call.want[b]
        ELSE Words(db, b) \in {old, call.want[b]}

\* write.py:358 and 461: "Remove no longer used items", and no others: an item
\* that a book has before and after a statement is not deleted by it.
OnlyUnusedRemoved ==
    call # None /\ call.statements # <<>> =>
        LET next == Head(call.statements).db IN
        \A b \in Books : ToSet(db.links[b]) \cap ToSet(next.links[b]) \subseteq Rows(next)
===============================================================================
