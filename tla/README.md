# maxQL in TLA+

maxQL is a small SQL engine in C: one process, one directory of files, a REPL.
This directory models the parts of it that keep state, checks them with TLC on
small instances and proves some of what holds with TLAPS.  Paths below are
relative to the repository (`src/` is its source directory).

## The system

One thread runs everything: `repl_run` reads a line, `engine_run` parses it and
runs the stages of its statement (validate, analyze, plan, execute), each stage
stopping at the first error; a fatal error exits the process.  Nothing runs
concurrently.  What makes the program hard is that **every statement is a
sequence of writes to several files**, that nothing ties these writes together
(no journal, no rename, files are truncated in place), and that SIGINT is
answered with `_exit` in the handler (`src/cli/repl.c:125`), whatever runs.

| component | state it keeps | operations | what must be right |
|---|---|---|---|
| database (`database/`, `context/`) | the tables in memory; `maxql.catalog` | load at start, add, remove, save | the catalog lists the tables; the program starts again |
| schema (`schema/`, `index/index_io.c`) | `<t>.schema`, `IndexMeta` in memory | load, save (also of every table at every start) | the file is what the memory holds; what CREATE takes, a start takes |
| storage (`storage/`, `serializer/`) | `<t>.data`: rows with a flag byte | append, flag, read, create, remove | offsets stay good; rows are never overwritten |
| index set, index (`index/index_set.c`, `index.c`) | the indexes a statement has loaded | load, insert, delete, search, conflicts, save, purge, backfill | each index holds the live rows; unique means unique |
| B-tree (`index/btree.c`) | nodes on the heap, `<t>-<i>.idx` | insert, delete, search in memory and in the file, save, load | order, balance, parent pointers; it is a dictionary |
| DML (`engine/dml/`) | the rows and pairs of the running statement | select, insert, delete, update; before that names to columns, literals to values | the answer; data and indexes change together |
| scan (`scan/`) | a position | table scan, index scan | both yield the rows the WHERE clause asks for |
| DDL (`engine/ddl/`) | - | create/drop table, create/drop index, truncate | files appear and go together; every index has a key that fits its nodes |
| REPL (`cli/`) | the line, its cursor, the history ring, `.maxql_history`, browse position | edit, browse, search, record | whole characters; the last lines, in order, across restarts |
| parser (`parser/`, `core/lexer.c`) | one token of look-ahead, the first error | statements and schema files to trees | the language and no more; nothing lost; it ends |
| types (`types/`, `serializer/`) | - | literal to value to bytes and back, to keys, to literals | these conversions agree with one another |
| view, DAL, core, lib | - | printing and helpers | |

A statement reads the tables from memory (`database_table_by_name`), **loads
every index of its table from its file, changes them in memory and writes them
back whole at its end**; rows go straight to the data file.  So within a
statement there are three versions of an index (the file, the tree in memory,
the rows it should mirror), and a crash keeps one of them.

Hard behaviours, the reason for the models: crashes between any two writes; index
entries that are stale when used; batches (an UPDATE of several rows checks all,
then moves one by one); operations on several indexes of which one fails; B-tree
deletion; boundaries (31 characters, a ring that is full, an index file of
length 0, a key of 1020 bytes); one thing decided in two places (a column
definition by CREATE and by the load, a value by WHERE and by an index key); keys
that arrive byte by byte.  `PROJECT.json` lists each with its line and the properties that are
about it.

## The modules

| module | models | checked against |
|---|---|---|
| `Table` | one table: data file, unique indexes as sets of entries, SELECT/INSERT/UPDATE/DELETE, CREATE/DROP INDEX, TRUNCATE | its properties |
| `TableInvariants` | the inductive strengthening of `Table`'s invariants | TLC, `TableProofs` |
| `TableProofs` | theorems about `Table`: rows and entries, then keys, indexes and answers, then its refinement | TLAPS |
| `AbstractTable` | what a table promises: statements that happen at once | |
| `MCTable` | values of `Table`'s constants for TLC | |
| `BTree` | `btree.c`: nodes, parents, splits, steals, merges, file image, both searches | `Dictionary` |
| `Dictionary` | what an index promises: insertion and deletion as functions of the entries | |
| `MCBTree` | `BTree` from a tree already grown | |
| `BTreeInsertProofs` | what a tree in order is; search and insertion | TLAPS |
| `BTreeProofs` | deletion, the file, and the theorems about `BTree` | TLAPS |
| `Catalog` | catalog, schema, data and index files as they come and go; DDL and the start, write by write | `Registry` |
| `Registry` | what the catalog promises | |
| `History` | the REPL's history ring, its file, Up, Down, Ctrl+R | `RecentLines` |
| `RecentLines` | what a history promises | |
| `Editor` | `repl_run` and `read_key`: bytes, keys, the line, the cursor and the terminal's | `Characters` |
| `Characters` | what a line editor promises: edits of whole characters | |
| `Lexer` | `lexer.c` on texts of characters | |
| `Values` | literals, values, cells of a row, key parts, saved literals | |
| `Analyzer` | the analyzer's choices and checks on names and literals | |
| `Record` | one literal through all of these, over INSERT, UPDATE, DELETE and restarts | its properties |
| `Grammar` | every `parse_*` function as the steps it takes | |
| `Parser` | these steps at work on a stream of tokens | `Language` |
| `Language` | the statements and schema files, as sets of sentences | |
| `Definitions` | CREATE TABLE, CREATE/DROP INDEX and the load of a schema, as to content | its properties |
| `NodeLayout` | `btree_layout_create` in 16 bits | |
| `NodeLayoutProofs` | theorems about `NodeLayout` | TLAPS |
| `CatalogProofs`, `HistoryProofs`, `EditorProofs`, `DefinitionsProofs` | theorems about the module of that name, with its inductive invariant | TLAPS |
| `MCEditor`, `MCRecord`, `MCParser`, `MCDefinitions` | values of the constants for TLC | |

`Table` uses the dictionary an index promises (`file[i]` and `mem[i]` are sets of
entries with a kind: a tree, a 0-length file, a torn file, none), and `BTree`
shows for which deletions `btree.c` keeps that promise.  `Catalog` treats what
is inside a data file or an index file as `Table`'s business and looks at which
files exist; the statements of both models are the same, cut at different writes.
`Definitions` looks at what a schema file says, `Parser` at its tokens, `Record` at
the one literal in it, the default.  `Record` EXTENDS `Analyzer`, which EXTENDS
`Values`, which EXTENDS `Lexer`.  `Definitions` EXTENDS `NodeLayout`.

### Table

`pc` is the place in the handler, `kind` the statement, `todo` the rows still to
be written (offset and new values), `target` the offsets it found, `queue` the
index files still to be written.  `reply` is the answer.  `base` and `damage` are
history: the rows live when the statement began, and what the crashes so far may
have left for good (`"stale"` entries of deleted rows, rows `"lost"` to an index
or an index file cut short, a half-done `"truncate"`).

| code | actions |
|---|---|
| `execute_insert` | `Insert`/`InsertDuplicate`, `AppendRow`, then the save |
| `execute_delete` | `Delete`, `Collect` (one index delete per row), `CollectDone`, `FlagRow`, `FlagDone`, save |
| `execute_update` | `Update`/`UpdateConflict` (all checks), `MoveRow` (flag), `PlaceRow` (append, index delete, index insert), `MoveDone`, save |
| `btree_save` per index | `OpenIndex` (fopen "w"), `WriteNodes`, `WriteRoot` (root is written last) |
| `execute_create_index` | `CreateIndex`/`CreateIndexDuplicate`, save, `DefineIndex` |
| `execute_drop_index` | `DropIndex`, `DropIndexFile` |
| `execute_truncate_table` | `Truncate`/`TruncateNoFile`, `RecreateData`, `PurgeIndex`, `PurgeDone`, save |
| `execute_select` | `Select` |
| planner, row sources | `Covered`, `Best`, `Hits`, `StreamAnswers` |
| SIGINT, or the end of a process with a corrupt heap | `Crash` |

Abstractions: an offset is the number of the row that starts there, a row is
written whole (one buffered `fwrite` and `fflush`), values are a small set.  Two
parameters keep what conversion does to them: `Trim[v]` is `v` as it is read back
(`deserialize_char` cuts trailing spaces), `KeyPart[i][c][v]` what an index key
keeps of it (`prepare_index_key` cuts at `part_len`).  Loading a 0-length index
file hands out a tree that has already been freed (`btree.c:242-267`): the
outcomes kept are an empty tree and the death of the process (`doomed`).
The trailing rows an aborted statement leaves in memory are gone with it.

`IsRelation` maps a table to the bag of its rows: the rows of `Live` between
statements, those from before the statement (`base`) while one runs.  A statement
then is two steps of `AbstractTable`, asked and done, and all of its effect on the
rows is in the second, but for TRUNCATE, which has emptied the table with its first
write.  In between, `Table` takes one step per file write.  A death while a statement
runs is `Die`: all of its effect or none, unless it leaves `damage`, and a step that does
is not compared.

### BTree

Nodes have addresses, entries, children and a parent.  Every loop of the code
that looks for a position in a node is `Slot`.  A loop or recursion through the levels is
a recursive function of the number of its rounds: `Seek` and `Down` go one level down,
`Raise` is one round of the loop that splits upwards, `Lower` one call of
`delete_recursive`, `Visit` one of `btree_to_bin`, `StreamSeek` one node read from the
file.  A round that comes after the end changes nothing, so as many rounds as there are
nodes are enough, which the proofs show.  `Reload` is the save at the end of a
statement and the load in the next.  Whatever goes through a null or a dangling
child is `Wreck`, where the model stops.  `btree_delete` makes four mistakes.  Three are
about a separator found on the way down: it is merged into the child by
`ensure_min_keys`, or moved there by a steal, and another entry is then overwritten in
its place; or its child is no leaf, and the last entry of the child, which is not the
predecessor, replaces it.  The fourth is the merge of internal nodes.  `SoundSpec` runs the
same tree with the deletions that do not meet any of them, recognised by
`Descent(tree, k).sound`.

`IsDictionary` says call by call what an operation makes of the entries: in every
tree that is reached, for every key, the tree that `Deleted` or `Inserted` returns holds
what `Dictionary` says (`Without`, `With`), and `Reloaded` holds the same as before.  It
is an invariant, since the model's operations are functions of the tree.
`MaxKeys` is 3 or 4 instead of the hundreds that a 4096-byte node gives: every
path of the code depends only on counts being at, above or below `min_keys` and
`max_keys`.

### Catalog

`catalog` is the lines of `maxql.catalog`, `schema[t]` is missing, torn (between
`fopen "w"` and the write) or whole with the names of its indexes, `rows` and
`idx` are the data and index files that exist, `tables` the memory.  The start is
modelled too: it loads everything, then rewrites every schema in place.
`CatalogText` is what `database_save` really prints.  `Long` are the names of 31
characters, `Odd` the tables with column names that `CREATE TABLE` accepts and
`schema_validate_column_name` refuses.  SIGINT may come between any two writes
(`MayCrash`); `hurt` is history and says what deaths there were: none inside a
statement, some, or one in a window, the places (`InWindow`) where the files of a
listed table disagree.  Initially the directory has an empty
catalog: nothing in the program creates it.

### History

The ring as the code keeps it, with `count` and `write`; `Recent` is what it
means.  Editing between two history keys is one step, `Type`; `Editor` is about
those steps.

### Editor

The user presses a key, which is the bytes `Sent` for it; `Take` is `read_key`
followed by one branch of the loop.  `read_key` blocks in the middle of a sequence
(`Needed` says how many bytes it wants), so a lone Escape takes the next byte with
it, and of a sequence it does not know the rest is typed.  The search loop reads
bytes, not keys.  `column` is where the terminal shows the cursor: Left and Right
move it by one, everything else sets it anew.  `spoilt` records the three things
after which a line is no longer whole: a character of which Escape `"swallowed"` a
byte, one that was `"cut"` by the full buffer, and a `"rubout"` byte stored by
Backspace in column 0.  `EditsCharacters` maps bytes to `Characters`, where an edit
is an edit of one character or word, and ends with the line's first of these.
`Shown`, `Sent` and `Width` are the terminal's and UTF-8's.

### Lexer, Values, Analyzer, Record

Characters are one-character strings, values records with a type.  A float is a
number of units of 10^-`Decimals` and prints like `%.7g` with `Precision` digits, with an
exponent if it needs more of them or has more than `PlainZeros` zeros in front.  A literal is
read up to `FloatBuf` characters, so that the dot of a longer one may be lost and the
value with it.  An UPDATE that compares a literal with bits of another type may find
them equal or not (`Equal`).  A cell of a row whose
bytes were written by a value of another type is `Garbage`.  `Record` types a
text, uses it as the default of a column and in statements, and keeps beside the
row what the statements meant (`given`).

### Grammar, Language, Parser

A parse function is the sequence of the primitives it calls (`Expect`, `Skip`,
`Flag`, `Field`, `If`, `While`, ...).  `Parser` keeps what is still to be done as a
stack of steps and takes one step at a time; the tokens come from a vocabulary and
are chosen when they are read.  `Language` lists the sentences independently, with
sets and concatenation of sets.  After an error what is built is dropped, since
the caller drops it.

### Definitions and NodeLayout

`declared` is what the user wrote; memory and file must go on saying it.  The checks of
the planner (`PlansColumn`, `PlansIndex`) and of the loader (`LoadsColumn`,
`LoadsIndex`) are separate definitions because they are separate code.  A length goes through
the planner's cast to `uint8_t` (`AsByte`) behind its range check (`LengthInByte`):
without the check `varchar(257)` would become `varchar(1)`.  A file is
what `parse_schema` returns.  `Layout` is `btree_layout_create` with every
`uint16_t` wrapped (`W16`).

## The runs

| run | instance | shows |
|---|---|---|
| `table_crash` | 1 column, 2 values, 1 index, 3 rows, crashes, fairness | `EntriesPointHome`, `KeysUnique`, `SelectExact`, `AppendOnly` survive every crash to the extent their premises say; `TableInv` and `RelationInv` hold; the table is an `AbstractTable` until a crash does damage; every statement that does not hang ends |
| `table_batch` | 2 columns, 2 values, 1 index, 4 rows | multi-row UPDATE and DELETE keep the index exact, refuse only real duplicates, touch no other row |
| `table_two_indexes` | 2 columns, indexes on `a` and on `a, b`, 2 rows | each index is complete and enforced while the other comes and goes |
| `btree_deep` | 9 keys seeded, 11 in all, deletions down to 8, 3 per node | three levels: order, balance, parent pointers, search; every call has the effect on the entries that `Dictionary` gives it |
| `btree_even` | from empty, 7 keys, 4 per node, 2 offsets | the even layout; the file image answers as memory does |
| `btree_key_lost` | from empty, every deletion allowed | what `btree_delete` does not keep, below |
| `catalog` | 3 tables, 1 index, crashes anywhere | the files agree, the program starts and the register is kept (`Registry`), but for deaths in the windows; what a process that comes up after those can rely on |
| `definitions` | 95 column lists, 56 index statements, 2 indexes at once | accepted definitions survive restarts as they were declared; keys fit nodes |
| `literals` | texts of 4 of 7 characters, 12 more literals, 5 column types, floats with 3 decimals | the conversions agree |
| `statements` | 10 vocabularies, up to 22 tokens | the parser accepts `Language` and no more, loses nothing, ends |
| `line_editing` | all 20 keys, 5 bytes, characters of 1 to 3 bytes | refinement of `Characters`; cursor, line and terminal agree |
| `history_ring` | 3 lines, a ring of 3 | ring and file refine `RecentLines` |

Bounds.  `MaxRows` counts deleted rows too, since nothing is ever reclaimed;
three rows are enough for a row to be inserted, moved, moved again or replaced
with stale entries of the first still in the index, four for an UPDATE to move
two rows at once.  A second index is what `index_set_delete` needs to stop half
way; a third adds nothing new.  Crashes are unbounded: the model may die in every
statement.  Three tables make the shift in `database_remove_table` move two.  A
ring of three wraps round, and reloads when full, half full and empty.
Nine descending keys in nodes of three are on the edge of a third level; two more
keys and three deletions reach splits of internal nodes and steals between them
from both sides, and the leaf merges.
In `literals` the constants of the code are small (integers to 99 read from 3
characters instead of 2147483647 from 15, 3 bytes to a string), so that a text of
four characters crosses each: `Probes` has a literal for every boundary that needs
more.  In `statements` each vocabulary has the keywords its statements could
confuse; `MaxItems` (6), `MaxDefinitions` (4) and `MaxLines` (2) bound the sentences
to what the token counts reach, so that no sentence within them is missing, and
`AfterError` (3) tokens after an error are enough to return to a loop with it.
Five bytes of line (`Size` 6) hold two wide characters and a space, or are too
few for them.  On a spoilt line only `KeyAfter` is pressed.  `definitions` has the
lengths 0, 1, 128, 129, 255, 256, 257 for every type, and at most 4 columns and 2
indexes instead of 16 and 8; the node size is the real one.

Deadlock is checked in every run; no model stops (a refused start can be tried
again, a full table still answers SELECT).

Fairness.  `StatementEnds` needs weak fairness of `Step`, the continuation of the
running handler, and `Ends` that of `Advance`, the next step of the parser.  The
program has one thread and no lock, so a handler that can go on does.  Nothing is
assumed of the user or of crashes.

## What the code does not keep

One run must find its property violated; `PROJECT.json` quotes the line it
contradicts.

- `btree_key_lost`: deleting a separator whose children are both minimal merges
  it into the child; the second `node_key_position` then points at another entry,
  which is overwritten.  That key is lost and the deleted key is still found.

The same modules show these, without a run of their own:

- After a crash inside `btree_save` an index scan of the torn file loops for ever
  (`Hang`): `StatementEnds` excepts it.
- A `char` value typed with a trailing space leaves its index entry behind when its
  row is deleted, and cannot be inserted again: `KeyAgrees` excepts it
  (`EndsInSpace`); in `Table`, `NoSpuriousDuplicate` with a `Trim` that is not the
  identity.
- One UPDATE can give two rows the same key of an index on prefixes, since the
  check within the batch compares whole values: `KeysUnique` with such a `KeyPart`.
- A column name with a digit or a capital makes the next start fail, and the
  whole database with it: `DefinitionsKept` excepts it (`OddColumns`), and shows that
  nothing else does.
- The float default `1.0` is saved as `1`, loaded as an integer, saved as a float with
  those bits, and then does not load.  The default `0.00001234` is saved as `1.234e-05`,
  which the lexer does not read as a number, and the next start fails; so does
  `12345678.5`, saved as `1.234568e+07`.  `DefaultsSurvive` excepts floats that print
  without a dot or with an exponent.
- A float literal of more than 31 characters is cut without a word: if its dot is
  behind them, the value is that of its first 31 digits (`Units`).  `LiteralsExact` speaks
  of floats that are no longer than what is read.
- UPDATE does not validate its values: a value of another type writes its bytes, a
  longer one into a `char` or `binary` kills the process (`MayOverrun`).
- A cut key part of an int or float column is compared together with the bytes
  behind it (`Words`): `KeysDecide` excepts it.
- Escape swallows the byte that follows, a full buffer keeps half a character, and
  Backspace at the beginning of a line stores a byte 127 (`spoilt`).
- A crash inside DDL, or inside the start, can make the whole database unusable:
  `AlwaysOpens` excepts deaths in the windows.
- Dropping the last table writes an uninitialised buffer into the catalog:
  `AlwaysOpens` with `DropLast = TRUE`.
- A table name of 31 characters hides the tables after it from the next start:
  `IsRegistry` with a table in `Long`.
- `btree_merge` of internal nodes puts the right node's children one slot too far
  (`Merge`, `Wreck`): `Spec` of `BTree` in place of `SoundSpec`.
- An empty line entered while browsing leaves `browse_offset` behind
  (`EnterEmpty`): Down at the next prompt brings back an older input.
- `src/README.md:31` creates an index without `unique`, which `plan_create_index`
  refuses (`PlansIndex`), and `src/README.md:32` quotes a string with `'`, which is
  no symbol of the lexer (`ReadSymbol`).

## What is proved

`TableProofs`, for any columns, values, indexes, clauses, assignments and bound,
with and without crashes:

- `TypeCorrect`: `Spec => []TypeOK`.  `TypeOK` alone is not inductive: `AppendRow`
  needs `todo` to hold a row, `FlagRow` needs offsets inside the file, the save
  needs a queue that is not empty.  `Shape` says where each statement can be, and
  `TypeOK /\ Shape` is inductive.
- `RowsStay`: `Spec => AppendOnly`, from the same invariant.
- `EntriesAlwaysPointHome`: `Spec => []EntriesPointHome` where values are read
  back as written (`FaithfulValues`, stated as the theorem's assumption).  The strengthening adds `TruncateInv`
  (what TRUNCATE has emptied) and `HomeInv` (the loaded trees and the one being
  built point home as well).  It needs every write order: an entry for a row is
  in memory only once the row is in the file, and in the file only after that.

From there on it is about keys.  `TableInductive` proves the whole of `TableInv`,
which `table_crash` checks, and the rest follows from it:

- `KeysStayUnique` (`KeysUnique`): no two live rows have one key of a unique index,
  until a crash loses rows to an index or cuts its file.
- `IndexesExact` (`IndexExact`): between statements an undamaged index file holds the
  entries of the live rows and no others.
- `SelectsExact` (`SelectExact`) and `DuplicatesReal` (`NoSpuriousDuplicate`): the
  answer is that of the rows, whichever way the planner takes, and only a live row
  has an INSERT refused.
- `OthersStay` (`OthersUntouched`): rows that a statement did not select stay live.

All of these but `OthersStay` assume `FaithfulKeys`: values are read back as they were written,
and a key tells apart what its columns tell apart.  That leaves out two of the findings
above and nothing else, trailing spaces and indexes on prefixes; `OthersStay`
assumes nothing.  Why `TableInv` must be so long: an UPDATE checks all of its new keys
and then writes row by row, so that its uniqueness rests on what is still to be
written (`UpdateInv`), what is already written, and which old entries are gone.
`UniqueInv` has a part for each statement (`InsertInv`, `DeleteInv`, `UpdateInv`,
`CreateInv`), for the index files not yet saved (`SavingInv`) and for those that
are (`FilesInv`), all in terms of a `Sound` index: one entry for each live row, and
any other entry points at a deleted one.  It holds while no crash has done worse
than leave stale entries (`KeysInv`).  `TargetInv` and `AnswerInv` tie the rows a
statement chose and its answer to the rows at its beginning.

The refinement, under `FaithfulKeys` as well:

- `TableIsRelation` (`IsRelation`): until a crash does damage the table is a bag of
  rows with unique keys, whose statements happen at once.
- `RelationInductive` (`RelationInv`): the invariant it needs beyond `TableInv`.
  `ReadableInv` says that the next statement finds its files.  `EffectInv` says how far the
  running statement has come: what an INSERT has added, which rows a DELETE has
  flagged, and for an UPDATE a one-to-one map from the rows at its beginning to those that are
  there now, along which each row is itself or has the new values.  The offsets
  alone do not say it, since a moved row has a new one.

A bag is a count for each row, so that the steps compare cardinalities: of the
offsets with one row after an append (`BagPlus`), after the flags of a DELETE
(`BagMinus`), and along the map of an UPDATE (`BagMoved`).  The rest is one lemma per
kind of step (`AskStep`, `DefineStep`, `DoneStep`, `DieStep`, ...): the writes of a
statement before its last step do not show, and its last step is `Done`.

`BTreeProofs`, for any set of integer keys, any offsets and any `MaxKeys` from 3 on, with
trees of any depth and under `SoundSpec`, that is for every insertion and reload
and every deletion but those that meet a mistake of `btree_delete` (the run
`btree_key_lost` and the finding about `btree_merge`):

- `TreeIsDictionary` (`IsDictionary`): an insertion adds its key with its offset, a
  deletion takes its own key away, saving and loading change nothing, and none of them touches
  another key.  The lemmas behind it (`InsertGood`, `DeleteGood`) are about the returned
  tree, so that no step which does less would do.
- `TreeSearchExact` (`SearchExact`) and `TreeStreamExact` (`StreamExact`): the search in memory and
  the one in the file find exactly the keys that are there.
- `TreeStaysBalanced`, `TreeStaysOrdered`, `TreeKeepsParents` (`Balanced`, `Ordered`,
  `ParentsRight`).

The properties speak of paths and of subtrees, which no prover here can reason about
by induction over the tree.  The inductive invariant, `TreeInv`, does without: a tree is
`Good` if each node can be given a level and a span (`Formed`) and no node is too full or
too empty (`Sized`).  Leaves have level 0, a child one less than its parent; the span of the
root is all keys, that of a child the keys of its parent's span between the keys
beside it; every node but the root is a child of its parent.  So all of it is about a
node and its children, and an operation has to be checked only where it
changes something.  From there induction is on a number, the rounds of a loop
(`LeastOf`, `SeekLoop`, `DownLoop`, `RaiseLoop`, `LowerLoop`, `VisitLoop`, `StreamLoop`):
after `i` rounds of a search the node is on level `top - i` and the key is in its span.

- Insertion: in the middle of `Raise` the tree is not in order, a full node being split
  while its parent does not know.  The proof looks at the tree that would be in
  order there, the one with a node one entry too wide (`Grafted`, `Full`), and shows
  that a split of that one is what the code makes (`Splits`).
- Deletion: `EnsureMinKeys` is three operations (a steal from either side, a merge) that each
  keep the entries, the spans and the sizes (`DidMove`, `Mended`, `Kept`), and leave the
  child on the way down with an entry to spare (`Spares`).  `Descends` has two
  cases: the key is still to be found (`Seeking`), or it was a separator, is already
  overwritten and its predecessor has to go (`Swapping`).
- The file: the walk of `btree_to_bin` visits each node once (`Walked`, by the disjoint spans
  of siblings), so that what is loaded is the tree with other addresses (`Renamed`).
- `Balanced` and `Ordered`: `Height` is the level, and what `Below` reaches stays in the span.

`CatalogProofs`, for any tables and indexes and with deaths between any two writes:

- `OpenAlwaysAgrees` (`OpenAgrees`), `FilesAlwaysAgree` (`FilesAgree`): what a process
  that is up can rely on, and what the files are between statements.  They assume
  no 31-character name (`Long = {}`) and no use of the uninitialised catalog buffer
  (`DropLast = FALSE`), which are findings; columns that the load refuses may be there.
- `StartsAlwaysOpen` (`AlwaysOpens`): a start fails only after a death in a window.
- `CatalogIsRegistry` (`IsRegistry`): the catalog implements `Registry`, step by step.
  These two also assume `Odd = {}`, the third finding.

`CatalogInv` says where each handler and the start are (`ShapeInv`, `StepInv`, `WorkInv`,
`ProgressInv`), that the catalog is the list in memory except while it is written
(`NamesInv`), which files a table must have at each place (`OpenInv`, `KeptInv`), and
that without a death inside a statement there are no others (`PureInv`).  A
death keeps `KeptInv` only where it has no exception for the running statement,
which is everywhere but in the windows.

`HistoryProofs`, for any ring size:

- `FileStaysCurrent` (`FileCurrent`) and `RingKeepsRecent` (`KeepsRecent`): the
  file is the ring, and the ring implements `RecentLines`.  `RingInv` and
  `FileInv` are short; the work is the arithmetic of slots modulo `Capacity`: writing the
  next slot of a full ring drops the oldest line and moves no other.

`EditorProofs`, for a buffer of any size and any keys:

- `LineAlwaysFits` (`LineFits`): the line keeps room for its final zero and the cursor
  stays in it.  Nothing is assumed.
- `CursorStaysWhole` (`CursorWhole`) and `CursorStaysShown` (`CursorShown`), from
  `EditorInductive`: the cursor is never inside a character unless Escape took a
  byte, and the terminal shows it where it is.  They assume `PastWhole`: the lines of
  the history are whole characters without a byte 127.  The program can store others, since
  Escape and Backspace spoil lines (above); a line recalled from such a history is
  outside of the theorem.  `LineInv` and `ColumnInv` say what holds of line, cursor and column until a key
  has spoilt the line; `HeadInv` and `InnerInv` are about the bytes not yet read, since a
  wide character enters the line byte by byte: the rest of one follows its beginning,
  or both have no room.

`DefinitionsProofs`, for any tables, indexes, names, column lists and bounds:

- `DefinitionsSurvive` (`DefinitionsKept`): after any statements, ends and
  starts the table is what was declared.  `DefinitionsInductive` is the invariant: the
  memory is what the declaration builds, the file what the memory saves, and loading that
  is the inverse, for every definition the planner accepts (lemma `RoundTrip`).  It is the
  proof that two separate sets of checks agree, but for `OddColumns`.
- `KeysAlwaysFit` (`KeysFitNodes`): every index in memory has parts of its columns and a
  key that `btree_layout_create` has a sound layout for.  It cites `SectionsAlwaysFit` and
  `CountsAlwaysFit` and assumes that the block has room for the longest key
  (`BlocksHoldKeys`), as `EveryKeyHasALayout` shows of 4096 bytes and 4 parts.

`NodeLayoutProofs`, for the sixteen-bit arithmetic of `btree_layout_create`:

- `SectionsAlwaysFit` and `CountsAlwaysFit`: in every block below 65536 bytes with room
  for three keys (`Room`) no sum wraps, the sections of a node are disjoint and
  inside the block, and splits and merges make legal nodes.
- `EveryKeyHasALayout`: so it is for every key size from 1 to 4 * 255 in 4096 bytes.

The argument is one inequality, `KeysFit`: with `q` keys, `q * (key_size + 16)` is at
most the block without its header and first child; every offset and size is a
part of that sum, so it is below 65536 and `% 65536` keeps it (`Fits`).

The lemmas of each proof say what one operator preserves (`DataGrows`, `HomeInsert`,
`HomeSubset`, `DeleteSubset`, ...); the step lemmas have one step per action.  Where a
fact needs induction over the places of a sequence (the first cell of a character, the
sum of the lengths of the parts), the proof takes the least place at which it fails,
which exists because `<` on the naturals is well-founded (lemma `Least`), or a property of
the recursive function itself.

Only model-checked: `EditsCharacters` (`SelectSeq` is recursive); what `Lexer`, `Values`, `Record` and
`Parser` define by recursion or folds over texts, tokens and parts, which needs
induction over data; and liveness (`StatementEnds`, `Ends`), since the provers have no
rules for fairness.

## Not modelled

The column list of SELECT and the printing of rows and messages; `SHOW`
statements, which only print; the checks of the length of names in DML and of the
number of conditions (a refused statement changes nothing).  The bits of a float and the
sign of a number (the lexer has no minus).  End of input at the prompt, where the REPL loops
for ever.  Input that is not a terminal: lines go to the engine without editing.  Byte offsets
of rows and the copying of key bytes inside nodes.  Memory errors other than
the one of `btree_load`, the out-of-bounds slot of `btree_merge`, the unchecked length
of an UPDATE and the uninitialised catalog buffer.  Two processes in the same
directory.

## Plan

All items are done but for the end of 5.

1. `Table` with its invariants, runs and first theorems.
2. `BTree` and `Dictionary`.
3. `Catalog` and `Registry`.
4. `History` and `RecentLines`.
5. Proofs.  Done: `TableInv` and what follows from it, `BTree`, `Catalog`, `History`,
   `Editor` but for its refinement, `Definitions`, `NodeLayout`, and that `Table`
   implements `AbstractTable`.  Left: the conversions of `Record` that need no induction.
6. `Lexer`, `Values`, `Analyzer`, `Record`.
7. `NodeLayout` and its theorems; `Definitions` on top of it.
8. `AbstractTable`, which `Table` implements when no crash does damage.
9. `Grammar`, `Language`, `Parser`; `Editor` and `Characters`.
