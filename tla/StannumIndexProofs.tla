-------------------------- MODULE StannumIndexProofs --------------------------
(***************************************************************************)
(* Theorems of StannumIndex, for any schemas, search_path, handles, default *)
(* names and folding of names.                                             *)
(***************************************************************************)
EXTENDS StannumIndex, WellFoundedInduction, NaturalsInduction, TLAPS

\* An index is in the schema of its table, with name and tokenizer of a handle on a
\* table of that name.
MadeBy(g, i) ==
    /\ NameOf(g) = i.name
    /\ g.table = i.table.name
    /\ g.schema \in {i.schema, NoSchema}
    /\ g.tokenizer = i.tokenizer
NamedByHandles ==
    \A i \in indexes : i.schema = i.table.schema /\ \E g \in Handle : MadeBy(g, i)

IndexInv == TypeOK /\ NamedByHandles

\* A name is one object at most.
LEMMA VisibleIsOne ==
    ASSUME NEW objects, NEW schema, NEW name,
           \A x, y \in objects : x.schema = y.schema /\ x.name = y.name => x = y,
           NEW x \in Visible(objects, schema, name),
           NEW y \in Visible(objects, schema, name)
    PROVE  x = y
<1>1. /\ x \in objects /\ y \in objects /\ x.name = name /\ y.name = name
  BY DEF Visible
<1>2. CASE schema # NoSchema
  BY <1>1, <1>2 DEF Visible
<1>3. CASE schema = NoSchema
  <2>1. PICK n \in DOMAIN Path : /\ Path[n] = x.schema
                                 /\ \A m \in 1..(n - 1) : y.schema # Path[m]
    BY <1>1, <1>3 DEF Visible
  <2>2. PICK k \in DOMAIN Path : /\ Path[k] = y.schema
                                 /\ \A m \in 1..(k - 1) : x.schema # Path[m]
    BY <1>1, <1>3 DEF Visible
  <2>3. DOMAIN Path = 1..Len(Path) /\ Len(Path) \in Nat
    BY IndexAssumption
  <2>4. n = k
    <3>1. CASE n < k
      BY <2>1, <2>2, <2>3, <3>1
    <3>2. CASE k < n
      BY <2>1, <2>2, <2>3, <3>2
    <3>3. QED
      BY <2>3, <3>1, <3>2
  <2>5. QED
    BY <1>1, <2>1, <2>2, <2>4
<1>4. QED
  BY <1>2, <1>3

Below == {ss \in Nat \X Nat : ss[1] < ss[2]}

\* Where a name is found at all, along the search path or in its schema, it is
\* an object.
LEMMA VisibleExists ==
    ASSUME NEW objects, NEW schema, NEW x \in objects,
           \/ schema # NoSchema /\ x.schema = schema
           \/ schema = NoSchema /\ \E n \in DOMAIN Path : Path[n] = x.schema
    PROVE  Visible(objects, schema, x.name) # {}
<1>1. CASE schema # NoSchema /\ x.schema = schema
  BY <1>1 DEF Visible
<1>2. CASE schema = NoSchema /\ \E n \in DOMAIN Path : Path[n] = x.schema
  <2> DEFINE At == {n \in DOMAIN Path : \E y \in objects : y.name = x.name /\ Path[n] = y.schema}
  <2>1. At \subseteq Nat /\ At # {}
    BY <1>2, IndexAssumption
  <2>2. IsWellFoundedOn(Below, Nat)
    BY NatLessThanWellFounded DEF OpToRel, Below
  <2> HIDE DEF At
  <2>3. PICK n \in At : \A m \in At : <<m, n>> \notin Below
    BY <2>1, <2>2, WFMin
  <2>4. \A m \in At : ~(m < n)
    BY <2>1, <2>3 DEF Below
  <2>5. PICK y \in objects : y.name = x.name /\ Path[n] = y.schema
    BY DEF At
  <2>6. DOMAIN Path = 1..Len(Path) /\ Len(Path) \in Nat /\ n \in DOMAIN Path
    BY IndexAssumption DEF At
  <2>7. ASSUME NEW m \in 1..(n - 1), NEW z \in objects, z.name = x.name
        PROVE  z.schema # Path[m]
    <3>1. m \in DOMAIN Path /\ m < n
      BY <2>6
    <3>2. QED
      BY <2>4, <2>7, <3>1 DEF At
  <2>8. y \in Visible(objects, schema, x.name)
    BY <1>2, <2>5, <2>6, <2>7 DEF Visible
  <2>9. QED
    BY <2>8
<1>3. QED
  BY <1>1, <1>2

LEMMA TablesAreOne ==
    ASSUME TypeOK, NEW schema, NEW name,
           NEW t \in Visible(tables, schema, name), NEW u \in Visible(tables, schema, name)
    PROVE  t = u
<1>1. \A x, y \in tables : x.schema = y.schema /\ x.name = y.name => x = y
  BY IndexAssumption DEF TypeOK
<1>2. QED
  BY <1>1, VisibleIsOne

LEMMA NameIsIndexName ==
    ASSUME NEW h \in Handle
    PROVE  NameOf(h) \in IndexName /\ h.tokenizer \in Tokenizers
<1>1. h \in [schema : Schema \cup {NoSchema}, table : TableName, column : Column,
             given : IndexName \cup {NoName}, tokenizer : Tokenizers]
  BY IndexAssumption
<1>2. /\ h.table \in TableName /\ h.column \in Column
      /\ h.given \in IndexName \cup {NoName} /\ h.tokenizer \in Tokenizers
  BY <1>1
<1>3. Default[<<h.table, h.column>>] \in IndexName
  BY <1>2, IndexAssumption
<1>4. QED
  BY <1>2, <1>3 DEF NameOf

\* Indexes and other relations are records of different fields.
LEMMA KindsDiffer ==
    ASSUME NEW i \in Indexes, NEW o \in Others
    PROVE  i # o
<1>1. DOMAIN i = {"schema", "name", "table", "tokenizer"}
  BY DEF Indexes
<1>2. DOMAIN o = {"schema", "name", "isIndex"}
  BY DEF Others
<1>3. QED
  BY <1>1, <1>2

LEMMA IndexInit == Init => IndexInv
  BY DEF Init, IndexInv, TypeOK, NamedByHandles, relations

LEMMA CreateStep ==
    ASSUME IndexInv, NEW h \in Handle, Create(h)
    PROVE  IndexInv'
<1> USE DEF IndexInv
<1>1. PICK t \in QuotedTable(h) :
          indexes' = IF Taken(t.schema, NameOf(h))
                     THEN indexes
                     ELSE indexes \cup {[schema |-> t.schema, name |-> NameOf(h),
                                         table |-> t, tokenizer |-> h.tokenizer]}
  BY DEF Create
<1>2. /\ t \in tables /\ t \in Table /\ t.name = h.table /\ t.schema \in Schema
      /\ h.schema \in {t.schema, NoSchema}
  BY IndexAssumption DEF QuotedTable, Visible, TypeOK
<1>3. extension' = TRUE /\ UNCHANGED <<tables, others>>
  BY DEF Create
<1>4. CASE Taken(t.schema, NameOf(h))
  BY <1>1, <1>3, <1>4 DEF TypeOK, NamedByHandles, relations
<1>5. CASE ~Taken(t.schema, NameOf(h))
  <2>1. PICK new : /\ new = [schema |-> t.schema, name |-> NameOf(h),
                             table |-> t, tokenizer |-> h.tokenizer]
                   /\ indexes' = indexes \cup {new}
    BY <1>1, <1>5
  <2>2. /\ new \in Indexes /\ new.table = t /\ new.schema = t.schema
        /\ new.name = NameOf(h) /\ new.tokenizer = h.tokenizer
    BY <1>2, <2>1, NameIsIndexName DEF Indexes
  <2>3. \A q \in relations : ~(q.schema = new.schema /\ q.name = new.name)
    BY <1>5, <2>2 DEF Taken
  <2>4. relations' = relations \cup {new}
    BY <1>3, <2>1 DEF relations
  <2>5. \A q, p \in relations' : q.schema = p.schema /\ q.name = p.name => q = p
    BY <2>3, <2>4 DEF TypeOK
  <2>6. TypeOK'
    BY <1>2, <1>3, <2>1, <2>2, <2>5 DEF TypeOK
  <2>7. MadeBy(h, new)
    BY <1>2, <2>2 DEF MadeBy
  <2>8. NamedByHandles'
    BY <1>2, <2>1, <2>2, <2>7 DEF NamedByHandles, MadeBy, NameOf
  <2>9. QED
    BY <2>6, <2>8
<1>6. QED
  BY <1>4, <1>5

LEMMA IndexStep == IndexInv /\ [Next]_vars => IndexInv'
<1> SUFFICES ASSUME IndexInv, [Next]_vars PROVE IndexInv'
  OBVIOUS
<1> USE DEF IndexInv
<1>1. CASE UNCHANGED vars
  BY <1>1 DEF vars, TypeOK, NamedByHandles, relations
\* Less of what there was.
<1>2. ASSUME extension' = extension, tables' \subseteq Table, indexes' \subseteq indexes,
             others' \subseteq others, \A i \in indexes' : i.table \in tables'
      PROVE  IndexInv'
  BY <1>2 DEF TypeOK, NamedByHandles, relations, MadeBy, NameOf
<1>3. ASSUME NEW h \in Handle, Drop(h) PROVE IndexInv'
  BY <1>2, <1>3 DEF Drop, TypeOK
<1>4. ASSUME NEW t \in Table, CreateTable(t) PROVE IndexInv'
  BY <1>2, <1>4 DEF CreateTable, TypeOK
<1>5. ASSUME NEW t \in Table, DropTable(t) PROVE IndexInv'
  BY <1>2, <1>5 DEF DropTable, TypeOK
<1>6. ASSUME NEW o \in Others, CreateOther(o) PROVE IndexInv'
  <2>1. /\ relations' = relations \cup {o} /\ others' = others \cup {o}
        /\ UNCHANGED <<extension, tables, indexes>>
        /\ \A q \in relations : ~(q.schema = o.schema /\ q.name = o.name)
    BY <1>6 DEF CreateOther, relations, Taken
  <2>2. QED
    BY <2>1 DEF TypeOK, NamedByHandles, MadeBy, NameOf
<1>7. ASSUME NEW o \in Others, DropOther(o) PROVE IndexInv'
  BY <1>2, <1>7 DEF DropOther, TypeOK
<1>8. QED
  BY <1>1, <1>3, <1>4, <1>5, <1>6, <1>7, CreateStep DEF Next

LEMMA IndexInvariant == Spec => []IndexInv
  BY IndexInit, IndexStep, PTL DEF Spec

\* The variables keep their types, and no two relations of a schema have one name.
THEOREM TypeCorrect == Spec => []TypeOK
<1>1. IndexInv => TypeOK
  BY DEF IndexInv
<1>2. QED
  BY <1>1, IndexInvariant, PTL

\* A qualified lower-case handle with an index name of its own never joins
\* another table's index, whatever comes and goes in whichever schema.
THEOREM SearchesStayAtHome == Spec => []OwnIndexOnly
<1>1. IndexInv => OwnIndexOnly
  <2> SUFFICES ASSUME IndexInv, NEW h \in Handle,
                      Qualified(h), PlainIndex(h), Unambiguous(h),
                      NEW t \in QuotedTable(h), NEW i \in CastIndex(h) \cap indexes
               PROVE  i.table = t /\ (OneTokenizer(h) => i.tokenizer = h.tokenizer)
    BY DEF OwnIndexOnly, Joined, Reached
  <2>1. t \in Table /\ t.schema = h.schema /\ t.name = h.table
    BY DEF QuotedTable, Visible, Qualified, IndexInv, TypeOK
  <2>2. i \in indexes /\ i.schema = h.schema /\ i.name = NameOf(h)
    BY DEF CastIndex, Visible, Qualified, PlainIndex
  <2>3. PICK g \in Handle : MadeBy(g, i)
    BY <2>2 DEF IndexInv, NamedByHandles
  <2>4. i.table \in Table /\ i.table.schema = h.schema /\ i.table.name = h.table
    BY <2>2, <2>3 DEF IndexInv, NamedByHandles, TypeOK, Indexes, Unambiguous, MadeBy
  <2>5. OneTokenizer(h) => i.tokenizer = h.tokenizer
    BY <2>2, <2>3 DEF OneTokenizer, MadeBy
  <2>6. QED
    BY <2>1, <2>4, <2>5, IndexAssumption
<1>2. QED
  BY <1>1, IndexInvariant, PTL

\* Nor does its drop() take an index away from another table.
THEOREM DropsStayAtHome == Spec => DropsOwnIndexOnly
<1>1. ASSUME IndexInv, NEW h \in Handle, Drop(h), Qualified(h), Unambiguous(h),
             NEW i \in indexes \ indexes'
      PROVE  i.table = [schema |-> h.schema, name |-> h.table]
  <2>1. i \in indexes /\ i.schema = h.schema /\ i.name = NameOf(h)
    BY <1>1 DEF Drop, Dropped, QuotedIndex, Visible, Qualified
  <2>2. PICK g \in Handle : MadeBy(g, i)
    BY <1>1, <2>1 DEF IndexInv, NamedByHandles
  <2>3. i.table \in Table /\ i.table.schema = h.schema /\ i.table.name = h.table
    BY <1>1, <2>1, <2>2 DEF IndexInv, NamedByHandles, TypeOK, Indexes, Unambiguous, MadeBy
  <2>4. QED
    BY <2>3, IndexAssumption
<1>2. IndexInv => [\A h \in Handle :
         Drop(h) /\ Qualified(h) /\ Unambiguous(h) =>
             \A i \in indexes \ indexes' : i.table = [schema |-> h.schema, name |-> h.table]]_vars
  BY <1>1
<1>3. QED
  BY <1>2, IndexInvariant, PTL DEF DropsOwnIndexOnly

\* create() leaves its table, something of the name in the table's schema and the
\* extension: a lower-case handle's search then finds the table and a relation,
\* which is a stannum index or was there before.
THEOREM CreatedIsSearchable == Spec => CreateMakesSearchable
<1>1. ASSUME IndexInv, NEW h \in Handle, Create(h), PlainIndex(h)
      PROVE  Joined(h)' # {} \/ CastIndex(h)' \cap others # {}
  <2>1. PICK t \in QuotedTable(h) :
            indexes' = IF Taken(t.schema, NameOf(h))
                       THEN indexes
                       ELSE indexes \cup {[schema |-> t.schema, name |-> NameOf(h),
                                           table |-> t, tokenizer |-> h.tokenizer]}
    BY <1>1 DEF Create
  <2>2. extension' = TRUE /\ tables' = tables /\ others' = others
    BY <1>1 DEF Create
  <2>3. PICK q \in relations' : q.schema = t.schema /\ q.name = NameOf(h)
    <3>1. CASE Taken(t.schema, NameOf(h))
      BY <2>1, <2>2, <3>1 DEF Taken, relations
    <3>2. CASE ~Taken(t.schema, NameOf(h))
      <4> DEFINE new == [schema |-> t.schema, name |-> NameOf(h), table |-> t,
                         tokenizer |-> h.tokenizer]
      <4>1. new \in relations'
        BY <2>1, <3>2 DEF relations
      <4>2. new.schema = t.schema /\ new.name = NameOf(h)
        OBVIOUS
      <4>3. QED
        BY <4>1, <4>2
    <3>3. QED
      BY <3>1, <3>2
  <2>4. \/ h.schema # NoSchema /\ t.schema = h.schema
        \/ h.schema = NoSchema /\ \E n \in DOMAIN Path : Path[n] = t.schema
    BY DEF QuotedTable, Visible
  <2>5. Visible(relations', h.schema, NameOf(h)) # {}
    BY <2>3, <2>4, VisibleExists
  <2>6. Visible(relations', Fold[h.schema], Fold[NameOf(h)]) # {}
    BY <1>1, <2>5 DEF PlainIndex
  <2>7. CastIndex(h)' = Visible(relations', Fold[h.schema], Fold[NameOf(h)])
    BY DEF CastIndex, Visible, NameOf
  <2>8. PICK j \in CastIndex(h)' : TRUE
    BY <2>6, <2>7
  <2>9. j \in indexes' \/ j \in others
    BY <2>2, <2>7, <2>8 DEF Visible, relations
  <2>10. CASE j \in indexes'
    <3>1. j \in Reached(h)'
      BY <2>2, <2>8, <2>10 DEF Reached
    <3>2. t \in QuotedTable(h)'
      BY <2>2 DEF QuotedTable, Visible
    <3>3. <<t, j>> \in QuotedTable(h)' \X Reached(h)'
      BY <3>1, <3>2
    <3>4. QED
      BY <3>3 DEF Joined
  <2>11. QED
    BY <2>8, <2>9, <2>10
<1>2. IndexInv =>
        [\A h \in Handle :
           Create(h) /\ PlainIndex(h) =>
               Joined(h)' # {} \/ CastIndex(h)' \cap others # {}]_vars
  BY <1>1
<1>3. QED
  BY <1>2, IndexInvariant, PTL DEF CreateMakesSearchable
=============================================================================
