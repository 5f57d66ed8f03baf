----------------------------- MODULE StannumIndex -----------------------------
(***************************************************************************)
(* StannumIndex handles over one database: which table and which index the *)
(* statements of create(), drop() and search() reach, while other sessions *)
(* create and drop tables, and views and indexes that may have the name of *)
(* a handle's index.  A handle names its table and its index twice: quoted *)
(* in the text of a statement, unquoted in a parameter that PostgreSQL     *)
(* casts to regclass and folds to lower case; and stannum.search() is      *)
(* joined to the table by ctid alone, so that another table's index is not *)
(* noticed.                                                                *)
(***************************************************************************)
EXTENDS Naturals, Sequences

CONSTANTS
    Schema,     \* schemas of the database
    Path,       \* search_path: a sequence of schemas
    TableName, IndexName,
    Table,      \* tables that the sessions create and drop
    Column,
    Tokenizers,
    Default,    \* [TableName \X Column -> IndexName]: the default name; concatenation
                \* and truncation do not keep different names apart
    Fold,       \* how PostgreSQL reads a name without quotes
    Handle,     \* the handles of the program
    NoSchema, NoName

ASSUME IndexAssumption ==
    /\ Path \in Seq(Schema)
    /\ Table \subseteq [schema : Schema, name : TableName]
    /\ Default \in [TableName \X Column -> IndexName]
    /\ Handle \subseteq [schema : Schema \cup {NoSchema}, table : TableName,
                         column : Column, given : IndexName \cup {NoName},
                         tokenizer : Tokenizers]
    /\ Fold \in [Schema \cup {NoSchema} \cup IndexName ->
                 Schema \cup {NoSchema} \cup IndexName]
    /\ NoSchema \notin Schema
    /\ NoName \notin IndexName
    /\ Fold[NoSchema] = NoSchema

VARIABLES
    extension, \* stannum is installed in the database
    tables,    \* tables that exist, of those the handles are on
    indexes,   \* stannum indexes that exist
    others     \* other relations: tables and views, or indexes of another kind

vars == <<extension, tables, indexes, others>>

Indexes == [schema : Schema, name : IndexName, table : Table, tokenizer : Tokenizers]
Others == [schema : Schema, name : IndexName, isIndex : BOOLEAN]

\* All that has a name which an index of a handle may have.  In one schema, a
\* relation of whatever kind has it for itself.
relations == indexes \cup others

TypeOK ==
    /\ extension \in BOOLEAN
    /\ tables \subseteq Table
    /\ indexes \subseteq Indexes
    /\ others \subseteq Others
    /\ \A i \in indexes : i.table \in tables
    /\ \A r, q \in relations : r.schema = q.schema /\ r.name = q.name => r = q

Init ==
    /\ extension = FALSE
    /\ tables = {}
    /\ indexes = {}
    /\ others = {}

-----------------------------------------------------------------------------
\* How names are resolved.

NameOf(h) == IF h.given # NoName THEN h.given ELSE Default[<<h.table, h.column>>]

\* A qualified name is looked up in its schema, another one in the first schema
\* of the search_path that has the name.
Visible(objects, schema, name) ==
    {x \in objects :
        /\ x.name = name
        /\ IF schema # NoSchema
           THEN x.schema = schema
           ELSE \E n \in DOMAIN Path :
                   /\ Path[n] = x.schema
                   /\ \A m \in 1..(n - 1), y \in objects :
                         y.name = name => y.schema # Path[m]}

\* The table in the text of a statement.
QuotedTable(h) == Visible(tables, h.schema, h.table)
\* What has the index's name in the text of DROP INDEX, and in a parameter.
QuotedIndex(h) == Visible(relations, h.schema, NameOf(h))
\* Mutant of CastIndex: the parameter leaves the schema out.
UnqualifiedIndex(h) == Visible(relations, NoSchema, Fold[NameOf(h)])
CastIndex(h) == Visible(relations, Fold[h.schema], Fold[NameOf(h)])

\* What search_count(), analysis() and check_health() read; on anything but a
\* stannum index they fail.
Reached(h) == {i \in CastIndex(h) \cap indexes : extension}
\* What a search joins: stannum.search() of one index, and one table.
Joined(h) == QuotedTable(h) \X Reached(h)

-----------------------------------------------------------------------------
\* DDL of the handles.

\* Mutant of Taken: IF NOT EXISTS sees a relation of any schema.
TakenAnywhere(schema, name) == \E r \in relations : r.name = name
Taken(schema, name) == \E r \in relations : r.schema = schema /\ r.name = name

\* create(): both statements in one transaction, the index in the schema of its
\* table, under the unqualified name.  If that is taken, by whatever it may be,
\* CREATE INDEX IF NOT EXISTS does nothing and create() returns all the same.
Create(h) ==
    /\ \E t \in QuotedTable(h) :
          indexes' = IF Taken(t.schema, NameOf(h))
                     THEN indexes
                     ELSE indexes \cup {[schema |-> t.schema, name |-> NameOf(h),
                                         table |-> t, tokenizer |-> h.tokenizer]}
    /\ extension' = TRUE
    /\ UNCHANGED <<tables, others>>

\* Mutant of Dropped: DROP INDEX leaves the schema out.
DroppedUnqualified(h) == Visible(relations, NoSchema, NameOf(h))
Dropped(h) == QuotedIndex(h)

\* drop() takes away an index of any kind and fails on a table or a view.
Drop(h) ==
    /\ indexes' = indexes \ Dropped(h)
    /\ others' = others \ {o \in Dropped(h) \cap others : o.isIndex}
    /\ UNCHANGED <<extension, tables>>

-----------------------------------------------------------------------------
\* Other sessions.

CreateTable(t) ==
    /\ t \notin tables
    /\ tables' = tables \cup {t}
    /\ UNCHANGED <<extension, indexes, others>>
DropTable(t) ==
    /\ t \in tables
    /\ tables' = tables \ {t}
    /\ indexes' = {i \in indexes : i.table # t}
    /\ UNCHANGED <<extension, others>>
CreateOther(o) ==
    /\ ~Taken(o.schema, o.name)
    /\ others' = others \cup {o}
    /\ UNCHANGED <<extension, tables, indexes>>
DropOther(o) ==
    /\ o \in others
    /\ others' = others \ {o}
    /\ UNCHANGED <<extension, tables, indexes>>

Next ==
    \/ \E h \in Handle : Create(h) \/ Drop(h)
    \/ \E t \in Table : CreateTable(t) \/ DropTable(t)
    \/ \E o \in Others : CreateOther(o) \/ DropOther(o)

Spec == Init /\ [][Next]_vars

-----------------------------------------------------------------------------
\* Properties.

Qualified(h) == h.schema # NoSchema
\* The name of the handle's index is that of no handle on another table.
Unambiguous(h) == \A g \in Handle : NameOf(g) = NameOf(h) => g.table = h.table
PlainIndex(h) == Fold[h.schema] = h.schema /\ Fold[NameOf(h)] = NameOf(h)
\* Handles that may have made an index of the name in the schema have its tokenizer.
OneTokenizer(h) ==
    \A g \in Handle :
        NameOf(g) = NameOf(h) /\ g.schema \in {h.schema, NoSchema} =>
            g.tokenizer = h.tokenizer

\* Whatever tables, indexes and views come and go in all the schemas, a handle with
\* a qualified lower-case table and an index name of its own joins its table to an
\* index of that table: hits are rows of the table that match.  And the query that
\* drop_stop_words takes apart with the handle's tokenizer meets an index made with
\* it ("tokenized with the index's tokenizer", _index.py:256), if all handles of
\* the name have the same one.
OwnIndexOnly ==
    \A h \in Handle :
        Qualified(h) /\ PlainIndex(h) /\ Unambiguous(h) =>
            \A pair \in Joined(h) :
                /\ pair[2].table = pair[1]
                /\ OneTokenizer(h) => pair[2].tokenizer = h.tokenizer

\* drop() by a qualified handle with an index name of its own takes away no stannum
\* index of another table.
DropsOwnIndexOnly ==
    [][\A h \in Handle :
         Drop(h) /\ Qualified(h) /\ Unambiguous(h) =>
             \A i \in indexes \ indexes' : i.table = [schema |-> h.schema, name |-> h.table]]_vars

\* After create(), a lower-case handle's search finds a table and a stannum index,
\* also along a search_path and if create() found the name taken: nothing but a
\* relation of another kind that has the name can be in its way.
CreateMakesSearchable ==
    [][\A h \in Handle :
         Create(h) /\ PlainIndex(h) =>
             Joined(h)' # {} \/ CastIndex(h)' \cap others # {}]_vars
=============================================================================
