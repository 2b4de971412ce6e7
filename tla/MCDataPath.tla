----------------------------- MODULE MCDataPath -----------------------------
(***************************************************************************)
(* The data path of the library for TLC.  A behaviour is that of the       *)
(* connections to partner accounts, or of one call over a connection: a    *)
(* query, a paged read, an update, a batch get, a batch write, or the way  *)
(* of one attribute into the table and back, or of a migration.            *)
(***************************************************************************)
EXTENDS QueryPlan, PagedRead, UpdateExpr, BatchGet, BatchWrite, ItemCodec, MultiAccount, Migration

\* No call is made: the behaviour is one of the connections.
NoCall == QueryUnused /\ ReadUnused /\ UpdateUnused /\ GetUnused /\ BatchUnused /\ CodecUnused
          /\ MigrationUnused

DataInit ==
    /\ AccountInit
    /\ \/ QueryInit /\ ReadUnused /\ UpdateUnused /\ GetUnused /\ BatchUnused /\ CodecUnused /\ MigrationUnused
       \/ QueryUnused /\ ReadInit /\ UpdateUnused /\ GetUnused /\ BatchUnused /\ CodecUnused /\ MigrationUnused
       \/ QueryUnused /\ ReadUnused /\ UpdateInit /\ GetUnused /\ BatchUnused /\ CodecUnused /\ MigrationUnused
       \/ QueryUnused /\ ReadUnused /\ UpdateUnused /\ GetInit /\ BatchUnused /\ CodecUnused /\ MigrationUnused
       \/ QueryUnused /\ ReadUnused /\ UpdateUnused /\ GetUnused /\ BatchInit /\ CodecUnused /\ MigrationUnused
       \/ QueryUnused /\ ReadUnused /\ UpdateUnused /\ GetUnused /\ BatchUnused /\ CodecInit /\ MigrationUnused
       \/ QueryUnused /\ ReadUnused /\ UpdateUnused /\ GetUnused /\ BatchUnused /\ CodecUnused /\ MigrationInit
       \/ NoCall

DataNext ==
    \/ QueryNext /\ UNCHANGED <<readVars, updateVars, getVars, batchVars, codecVars, migrationVars, accountVars>>
    \/ ReadNext /\ UNCHANGED <<queryVars, updateVars, getVars, batchVars, codecVars, migrationVars, accountVars>>
    \/ UpdateNext /\ UNCHANGED <<queryVars, readVars, getVars, batchVars, codecVars, migrationVars, accountVars>>
    \/ GetNext /\ UNCHANGED <<queryVars, readVars, updateVars, batchVars, codecVars, migrationVars, accountVars>>
    \/ BatchNext /\ UNCHANGED <<queryVars, readVars, updateVars, getVars, codecVars, migrationVars, accountVars>>
    \/ CodecNext /\ UNCHANGED <<queryVars, readVars, updateVars, getVars, batchVars, migrationVars, accountVars>>
    \/ MigrationNext /\ UNCHANGED <<queryVars, readVars, updateVars, getVars, batchVars, codecVars, accountVars>>
    \/ /\ NoCall /\ AccountNext
       /\ UNCHANGED <<queryVars, readVars, updateVars, getVars, batchVars, codecVars, migrationVars>>

dataVars ==
    <<queryVars, readVars, updateVars, getVars, batchVars, codecVars, migrationVars, accountVars>>

DataSpec == DataInit /\ [][DataNext]_dataVars /\ ReadFairness /\ GetFairness /\ BatchFairness

-----------------------------------------------------------------------------
(* Updates: every form of a change, an encrypted field x and a reserved n. *)
(* They come first because TLC compares the fields of records in the order *)
(* in which it meets their names, and values of different forms do not     *)
(* compare.                                                                *)

UpperCaseDef == ("n" :> "N") @@ ("a" :> "A")
Upd(form, f, i, val) == [form |-> form, field |-> f, index |-> i, value |-> val]
Cond(f, o, val) == [field |-> f, op |-> o, value |-> val]
StoredRowsDef ==
    {("n" :> 1) @@ ("l" :> <<1, 2>>),
     ("n" :> 2) @@ ("l" :> <<>>) @@ ("x" :> 101) @@ ("t" :> <<1>>)}
UpdateCallsDef ==
    {Upd("set", "n", 0, 5), Upd("ifNotExists", "m", 0, 6), Upd("add", "n", 0, 1),
     Upd("remove", "n", 0, 0), Upd("append", "l", 0, <<7>>), Upd("prepend", "l", 0, <<8>>),
     Upd("set", "l", 1, 9), Upd("set", "l", 2, 9), Upd("remove", "l", 1, 0), Upd("set", "x", 0, 3),
     Upd("ifNotExists", "x", 0, 4), Upd("add", "x", 0, 1), Upd("remove", "x", 0, 0),
     Upd("remove", "x", 1, 0),
     Upd("delete", "t", 0, <<1>>)}
UpdateCondsDef == {Cond("n", "=", 1), Cond("m", "attribute_not_exists", 0), Cond("x", "=", 1)}
WriteCondsDef == {Cond("n", "<", 2), Cond("x", "=", 1)}
\* A raw condition with a placeholder of its own, and one named like the builder's first.
RawCondsDef == {[ref |-> r, field |-> "n", op |-> "=", value |-> 1] : r \in {1, 90}}

(* Queries: a table with a sparse index of each kind.                      *)

KeyPair(p, s) == ("pk" :> p) @@ ("sk" :> s)
TablesDef ==
    {{KeyPair(1, 1) @@ ("a" :> 1) @@ ("g" :> 1), KeyPair(1, 2) @@ ("a" :> 2),
      KeyPair(2, 1) @@ ("a" :> 1) @@ ("g" :> 2), KeyPair(1, 3) @@ ("g" :> 1)}}
IndexesDef ==
    <<[name |-> "gsi", pk |-> "g", sk |-> "", type |-> "GSI", projection |-> ""],
      [name |-> "byA", pk |-> "pk", sk |-> "a", type |-> "GSI", projection |-> ""],
      [name |-> "lsi", pk |-> "pk", sk |-> "g", type |-> "LSI", projection |-> ""]>>
ModelsDef == {Empty, ("pk" :> 1), KeyPair(1, 2)}
WheresDef ==
    {Cond("pk", "=", 1), Cond("pk", "=", 2), Cond("pk", "<>", 2), Cond("sk", "<", 3), Cond("sk", "=", 1),
     Cond("sk", "<>", 1), Cond("a", "=", 1), Cond("g", "=", 1), Cond("s", "=", 1)}
FiltersDef ==
    {Cond("a", "<", 2), Cond("sk", "=", 2), Cond("g", "attribute_exists", 0), Cond("s", "=", 1)}
GroupsDef == {<<Link("AND", Cond("a", "=", 2)), Link("OR", Cond("g", "=", 1))>>}

(* Paged reads: rows with zero, negative and equal amounts.                *)
StartingDef == {{}, {1, 2, 4}, {1, 2, 3, 4}}
AmountDef == <<2, 0, -1, 2>>
TeamDef == <<1, 1, 2, 0>>

(* Batch gets and writes: keys that repeat or have no item, an item that   *)
(* does not marshal.                                                       *)
KeyListsDef == {<<>>, <<1, 2, 3>>, <<3, 4, 1>>, <<2, 2>>, <<1, 1, 2>>}
InvalidSets == {{}, {2}}

(* Migrations: a value the transform refuses.                              *)
SourceRowsDef == {(1 :> 1) @@ (2 :> 2)}

(* Attributes: every kind of value, zero and not, with the tags that       *)
(* change how it is written.                                               *)
Type(k) == [k |-> k]
TypeOf(k, e) == [k |-> k, e |-> e]
Street ==
    [k |-> "struct",
     f |-> ("Street" :> [t |-> Type("string"), json |-> "", omit |-> FALSE])
             @@ ("Code" :> [t |-> Type("int"), json |-> "zip", omit |-> TRUE])]
Stay ==
    [k |-> "struct",
     f |-> ("Tags" :> [t |-> TypeOf("slice", Type("string")), json |-> "", omit |-> TRUE])
             @@ ("Seen" :> [t |-> Type("time"), json |-> "", omit |-> TRUE])]
CamelCaseDef == ("Street" :> "street") @@ ("Code" :> "code") @@ ("Tags" :> "tags") @@ ("Seen" :> "seen")
TypedValues ==
    {<<Type("string"), 0>>, <<Type("string"), 1>>, <<Type("int"), 0>>, <<Type("int"), 3>>,
     <<Type("bool"), 0>>, <<Type("time"), 0>>, <<Type("time"), 15>>,
     <<Type("bytes"), GoNil>>, <<Type("bytes"), <<1, 0>>>>,
     <<TypeOf("slice", Type("string")), GoNil>>, <<TypeOf("slice", Type("string")), <<>>>>,
     <<TypeOf("slice", Type("string")), <<1, 2>>>>, <<TypeOf("slice", Type("int")), <<4>>>>,
     <<TypeOf("map", Type("string")), GoNil>>, <<TypeOf("map", Type("string")), "a" :> 1>>,
     <<TypeOf("map", Type("int")), GoNil>>,
     <<TypeOf("map", TypeOf("slice", Type("int"))), "a" :> <<1>>>>,
     <<TypeOf("ptr", Type("int")), GoNil>>, <<TypeOf("ptr", Type("int")), <<0>>>>,
     <<TypeOf("ptr", Type("string")), <<2>>>>, <<TypeOf("ptr", Type("time")), <<15>>>>,
     <<Street, ("Street" :> 1) @@ ("Code" :> 2)>>, <<Street, ("Street" :> 0) @@ ("Code" :> 0)>>,
     <<TypeOf("slice", Street), <<("Street" :> 1) @@ ("Code" :> 0)>>>>,
     <<Stay, ("Tags" :> <<>>) @@ ("Seen" :> 0)>>, <<Stay, ("Tags" :> <<1>>) @@ ("Seen" :> 15)>>}
Tagged(x, tags) == [t |-> x[1], v |-> x[2], tags |-> tags]
CasesDef ==
    {Tagged(x, [Untagged EXCEPT !.omit = o, !.encrypted = e]) :
        x \in TypedValues, o \in BOOLEAN, e \in BOOLEAN}
    \union {Tagged(x, [Untagged EXCEPT !.set = TRUE]) : x \in {y \in TypedValues : y[1].k = "slice"}}
    \union {Tagged(x, [Untagged EXCEPT !.ttl = TRUE, !.omit = o]) :
              x \in {y \in TypedValues : y[1].k = "time"}, o \in BOOLEAN}
    \union {Tagged(<<Type("time"), 15>>, [Untagged EXCEPT !.role = "updatedAt"]),
            Tagged(<<Type("int"), 0>>, [Untagged EXCEPT !.role = "version", !.omit = TRUE])}
=============================================================================
