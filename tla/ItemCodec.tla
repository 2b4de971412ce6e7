------------------------------- MODULE ItemCodec -------------------------------
(***************************************************************************)
(* One attribute of an item on its way into the table and back: the        *)
(* marshalers (pkg/marshal), the converters (pkg/types, internal/expr),    *)
(* the encryption of attributes (internal/encryption) and the readers of   *)
(* the two executors.                                                      *)
(*                                                                         *)
(* A Go type is a record with a kind k; a slice, a map or a pointer has an *)
(* element type e, a struct a function f from the Go names of its fields   *)
(* to their types and json tags.  A string, an integer, a boolean and a    *)
(* time are numbers, 0 being the zero value; a pointer to x is <<x>>.      *)
(***************************************************************************)
EXTENDS Integers, Sequences, CursorCodec

CONSTANTS
    GoNil, Absent, Fail,  \* nil, an attribute that is not written, an error
    Cases,        \* fields of a model: type, value and tags
    CamelCase,    \* CamelCase[name]: the attribute name of a Go field name
    Keys,         \* KMS keys
    Second,       \* ticks of a time in a second
    Now           \* the time of a write

VARIABLES
    field,     \* type t, value v and tags of the attribute
    path,      \* what marshals it: "safe", "unsafe", "converter" or "expr"
    writer,    \* the executor of the put: "session" or "main"
    key,       \* session.Config.KMSKeyARN of the writer, "" for none
    atRest,    \* the attribute in the table
    readKey,   \* KMSKeyARN of the reader
    dest,      \* what was read of it
    codecAt    \* "start", "stored", the reader, "error" or "unused"

codecVars == <<field, path, writer, key, atRest, readKey, dest, codecAt>>

Null == AV("NULL", 0)
Text(n) == AV("S", <<"text", n>>)
Rfc3339(n) == AV("S", <<"rfc3339", n>>)
Unix(n) == n \div Second
IntType == [k |-> "int"]
Untagged == [omit |-> FALSE, set |-> FALSE, ttl |-> FALSE, role |-> "", encrypted |-> FALSE]

Elems(v) == IF v = GoNil THEN <<>> ELSE v
ElemType(t) == IF t.k = "bytes" THEN IntType ELSE t.e
SliceKinds == {"slice", "bytes"}

RECURSIVE IsZero(_, _)
IsZero(t, v) ==
    CASE t.k \in {"slice", "bytes", "map", "ptr"} -> v = GoNil
      [] t.k = "struct" -> \A n \in DOMAIN t.f : IsZero(t.f[n].t, v[n])
      [] OTHER -> v = 0

RECURSIVE Zero(_)
Zero(t) ==
    CASE t.k \in {"slice", "bytes", "map", "ptr"} -> GoNil
      [] t.k = "struct" -> [n \in DOMAIN t.f |-> Zero(t.f[n].t)]
      [] OTHER -> 0

\* A list or a map of results, which fails with any of them.
Packed(tag, parts) == IF \E i \in DOMAIN parts : parts[i] = Fail THEN Fail ELSE AV(tag, parts)
Filled(parts) == IF \E i \in DOMAIN parts : parts[i] = Fail THEN Fail ELSE parts

Scalar(t, v) ==
    CASE t.k = "string" -> Text(v) [] t.k = "int" -> AV("N", v) [] t.k = "bool" -> AV("BOOL", v)
      [] OTHER -> Fail
StringSet(v) == IF Elems(v) = <<>> THEN Null ELSE AV("SS", v)

-----------------------------------------------------------------------------
(* SafeMarshaler.                                                          *)

RECURSIVE SafeMarshalValue(_, _, _)

\* marshalStruct: fields that are set, under their Go names.
SafeMarshalStruct(t, v) ==
    Packed("M", [n \in {m \in DOMAIN t.f : ~IsZero(t.f[m].t, v[m])} |->
                    SafeMarshalValue(t.f[n].t, v[n], Untagged)])

\* marshalSliceValue and marshalSlice: bytes are a list of numbers here.
SafeMarshalSlice(t, v, tags) ==
    CASE v = GoNil -> Null
      [] v # GoNil /\ tags.set /\ ElemType(t).k = "string" -> StringSet(v)
      [] OTHER -> Packed("L", [i \in DOMAIN v |-> SafeMarshalValue(ElemType(t), v[i], Untagged)])

SafeMarshalMap(t, v) ==
    IF v = GoNil THEN Null ELSE Packed("M", [n \in DOMAIN v |-> SafeMarshalValue(t.e, v[n], Untagged)])

\* Mutant of TimeValue: every time is written the way a TTL is.
TimeValueUnix(v, tags) == AV("N", Unix(v))

\* marshalTimeValue.
TimeValue(v, tags) == IF tags.ttl THEN AV("N", Unix(v)) ELSE Rfc3339(v)

SafeMarshalValue(t, v, tags) ==
    IF t.k = "ptr" /\ v = GoNil THEN Null
    ELSE LET d == IF t.k = "ptr" THEN t.e ELSE t
             x == IF t.k = "ptr" THEN v[1] ELSE v
         IN  CASE tags.omit /\ IsZero(d, x) -> Null
               [] ~(tags.omit /\ IsZero(d, x)) /\ d.k = "time" -> TimeValue(x, tags)
               [] ~(tags.omit /\ IsZero(d, x)) /\ d.k = "struct" -> SafeMarshalStruct(d, x)
               [] ~(tags.omit /\ IsZero(d, x)) /\ d.k \in SliceKinds -> SafeMarshalSlice(d, x, tags)
               [] ~(tags.omit /\ IsZero(d, x)) /\ d.k = "map" -> SafeMarshalMap(d, x)
               [] OTHER -> Scalar(d, x)

\* MarshalItem around the value of a field.
MarshalledItem(av, tags, v) ==
    CASE tags.role = "updatedAt" -> Rfc3339(Now)
      [] tags.role = "version" -> AV("N", v)
      [] OTHER -> IF av = Null /\ tags.omit THEN Absent ELSE av

-----------------------------------------------------------------------------
(* Marshaler, the one that works on pointers.                              *)

RECURSIVE UnsafeMarshalValue(_, _)

\* marshalStructAsMap: json tags or the naming convention, and json's omitempty.
UnsafeName(t, n) == IF t.f[n].json # "" THEN t.f[n].json ELSE CamelCase[n]
UnsafeMarshalStruct(t, v) ==
    LET kept == {n \in DOMAIN t.f : ~(t.f[n].omit /\ IsZero(t.f[n].t, v[n]))}
        Named(a) == CHOOSE n \in kept : UnsafeName(t, n) = a
    IN  Packed("M", [a \in {UnsafeName(t, n) : n \in kept} |->
                        UnsafeMarshalValue(t.f[Named(a)].t, v[Named(a)])])

\* marshalValue and marshalComplexValue.
UnsafeMarshalValue(t, v) ==
    CASE t.k = "ptr" -> IF v = GoNil THEN Null ELSE UnsafeMarshalValue(t.e, v[1])
      [] t.k \in SliceKinds -> IF v = GoNil THEN Null ELSE
            Packed("L", [i \in DOMAIN v |-> UnsafeMarshalValue(ElemType(t), v[i])])
      [] t.k = "map" -> IF v = GoNil THEN Null ELSE
            Packed("M", [n \in DOMAIN v |-> UnsafeMarshalValue(t.e, v[n])])
      [] t.k = "time" -> IF v = 0 THEN Null ELSE Rfc3339(v)
      [] t.k = "struct" -> UnsafeMarshalStruct(t, v)
      [] OTHER -> Scalar(t, v)

\* buildMarshalFunc: the function built for the type of a field.
RECURSIVE UnsafeMarshalField(_, _, _)
UnsafeMarshalField(t, v, tags) ==
    LET strings == t.k \in {"slice", "map"} /\ t.e.k = "string"
        empty == tags.omit /\ IsZero(t, v)
    IN  CASE t.k = "ptr" -> IF v = GoNil THEN Null ELSE UnsafeMarshalField(t.e, v[1], tags)
          [] t.k = "bool" -> Scalar(t, v)
          [] t.k = "slice" /\ strings /\ tags.set -> StringSet(v)
          [] t.k = "slice" /\ strings /\ ~tags.set ->
                IF tags.omit /\ Elems(v) = <<>> THEN Null
                ELSE Packed("L", [i \in DOMAIN Elems(v) |-> Text(v[i])])
          [] t.k = "map" /\ strings -> IF empty THEN Null
                ELSE Packed("M", [n \in DOMAIN Elems(v) |-> Text(v[n])])
          [] t.k = "time" -> IF empty THEN Null ELSE TimeValue(v, tags)
          [] OTHER -> IF empty THEN Null ELSE UnsafeMarshalValue(t, v)

\* MarshalItem of this marshaler treats roles and empty values as the other does.
UnsafeMarshalledItem(av, tags, v) == MarshalledItem(av, tags, v)

-----------------------------------------------------------------------------
(* types.Converter and expr.ConvertToAttributeValue, used by               *)
(* marshalItemReflect when the query has no marshaler.                     *)

RECURSIVE ToAttributeValue(_, _)
ToAttributeValue(t, v) ==
    IF t.k = "ptr" /\ v = GoNil THEN Null
    ELSE LET d == IF t.k = "ptr" THEN t.e ELSE t
             x == IF t.k = "ptr" THEN v[1] ELSE v
         IN  CASE d.k = "time" -> Rfc3339(x)
               [] d.k = "bytes" -> AV("B", Elems(x))
               [] d.k = "slice" -> Packed("L", [i \in DOMAIN Elems(x) |-> ToAttributeValue(d.e, x[i])])
               [] d.k = "map" -> Packed("M", [n \in DOMAIN Elems(x) |-> ToAttributeValue(d.e, x[n])])
               [] d.k = "struct" -> Packed("M", [n \in {m \in DOMAIN d.f : ~IsZero(d.f[m].t, x[m])} |->
                                                    ToAttributeValue(d.f[n].t, x[n])])
               [] OTHER -> Scalar(d, x)

ConvertToSet(t, v) ==
    CASE t.k \notin SliceKinds -> Fail
      [] t.k \in SliceKinds /\ Elems(v) = <<>> -> Null
      [] t.k = "slice" /\ Elems(v) # <<>> /\ t.e.k = "string" -> AV("SS", v)
      [] t.k \in SliceKinds /\ Elems(v) # <<>> /\ ElemType(t).k = "int" -> AV("NS", v)
      [] OTHER -> Fail

\* isZeroValue of expr: an empty slice, map or string, but no struct and no time.
ExprIsZero(t, v) ==
    CASE t.k \in SliceKinds \union {"map"} -> DOMAIN Elems(v) = {}
      [] t.k \in {"struct", "time"} -> FALSE
      [] OTHER -> IsZero(t, v)

\* convertStructToAttributeValue names fields by their tags.
TagName(t, n) == IF t.f[n].json # "" THEN t.f[n].json ELSE n
RECURSIVE ConvertToAttributeValue(_, _)
ConvertToAttributeValue(t, v) ==
    CASE t.k = "ptr" -> IF v = GoNil THEN Null ELSE ConvertToAttributeValue(t.e, v[1])
      [] t.k = "time" -> Rfc3339(v)
      [] t.k = "bytes" -> AV("B", Elems(v))
      [] t.k = "slice" -> Packed("L", [i \in DOMAIN Elems(v) |-> ConvertToAttributeValue(t.e, v[i])])
      [] t.k = "map" -> Packed("M", [n \in DOMAIN Elems(v) |-> ConvertToAttributeValue(t.e, v[n])])
      [] t.k = "struct" ->
            LET kept == {n \in DOMAIN t.f : ~(t.f[n].omit /\ ExprIsZero(t.f[n].t, v[n]))}
                Named(a) == CHOOSE n \in kept : TagName(t, n) = a
            IN  Packed("M", [a \in {TagName(t, n) : n \in kept} |->
                                ConvertToAttributeValue(t.f[Named(a)].t, v[Named(a)])])
      [] OTHER -> Scalar(t, v)

\* marshalFieldValueReflect.
ReflectField(converter, t, v, tags) ==
    LET unix == tags.ttl /\ t.k = "time" /\ v # 0
        st == IF tags.role = "updatedAt" THEN [k |-> "time"] ELSE IF unix THEN IntType ELSE t
        sv == IF tags.role = "updatedAt" THEN Now ELSE IF unix THEN Unix(v) ELSE v
        av == IF ~converter THEN ConvertToAttributeValue(st, sv)
              ELSE IF tags.set THEN ConvertToSet(st, sv) ELSE ToAttributeValue(st, sv)
    IN  IF tags.omit /\ (IsZero(t, v) \/ av = Null) THEN Absent ELSE av

\* marshalItem of a query.
Marshalled ==
    CASE path = "safe" -> MarshalledItem(SafeMarshalValue(field.t, field.v, field.tags), field.tags, field.v)
      [] path = "unsafe" -> UnsafeMarshalledItem(UnsafeMarshalField(field.t, field.v, field.tags), field.tags, field.v)
      [] OTHER -> ReflectField(path = "converter", field.t, field.v, field.tags)

-----------------------------------------------------------------------------
(* Encryption of an attribute.                                             *)

\* marshalAVJSON and unmarshalAVJSON: json leaves out an empty list or map.
RECURSIVE MarshalAVJSON(_)
MarshalAVJSON(av) ==
    CASE av.t \in {"L", "M"} /\ av.v # <<>> -> Json(av.t, [i \in DOMAIN av.v |-> MarshalAVJSON(av.v[i])])
      [] av.t \in {"L", "M", "SS", "NS"} /\ av.v = <<>> -> Json(av.t, Absent)
      [] OTHER -> Json(av.t, av.v)

RECURSIVE UnmarshalAVJSON(_)
UnmarshalAVJSON(j) ==
    CASE j.json = Absent -> AV(j.tag, <<>>)
      [] j.json # Absent /\ j.tag \in {"L", "M"} -> AV(j.tag, [i \in DOMAIN j.json |-> UnmarshalAVJSON(j.json[i])])
      [] OTHER -> AV(j.tag, j.json)

\* EncryptAttributeValue: an envelope with the data key under the session's KMS key; the
\* attribute's name is authenticated with the text.
EncryptAttributeValue(name, keyARN, av) ==
    AV("M", [v |-> AV("N", 1), edk |-> AV("B", keyARN), nonce |-> AV("B", 1),
             ct |-> AV("B", [aad |-> name, text |-> MarshalAVJSON(av)])])

IsEnvelope(av) == av.t = "M" /\ DOMAIN av.v = {"v", "edk", "nonce", "ct"}

\* DecryptAttributeValue: KMS refuses a data key of another key.
DecryptAttributeValue(name, keyARN, av) ==
    IF ~IsEnvelope(av) THEN Fail
    ELSE IF av.v.edk.v # keyARN \/ av.v.ct.v.aad # name THEN Fail
    ELSE UnmarshalAVJSON(av.v.ct.v.text)

-----------------------------------------------------------------------------
(* Readers: into a fresh destination.                                      *)

\* Converter.FromAttributeValue, used by the session's executor.
RECURSIVE FromAttributeValue(_, _)

\* Lists, maps and sets; mapToStruct names fields by the convention.
FromCollection(av, t) ==
    CASE av.t = "L" /\ t.k \in SliceKinds -> Filled([i \in DOMAIN av.v |-> FromAttributeValue(av.v[i], ElemType(t))])
      [] av.t = "M" /\ t.k = "map" -> Filled([n \in DOMAIN av.v |-> FromAttributeValue(av.v[n], t.e)])
      [] av.t = "M" /\ t.k = "struct" ->
            Filled([n \in DOMAIN t.f |-> IF CamelCase[n] \in DOMAIN av.v
                                         THEN FromAttributeValue(av.v[CamelCase[n]], t.f[n].t)
                                         ELSE Zero(t.f[n].t)])
      [] av.t = "SS" /\ t.k = "slice" /\ ElemType(t).k = "string" -> av.v
      [] av.t = "NS" /\ t.k \in SliceKinds /\ ElemType(t).k = "int" -> av.v
      [] OTHER -> Fail

FromAttributeValue(av, t) ==
    CASE av = Null -> Zero(t)
      [] av # Null /\ t.k = "ptr" ->
            LET x == IF t.e.k = "ptr" THEN Fail ELSE FromAttributeValue(av, t.e)
            IN  IF x = Fail THEN Fail ELSE <<x>>
      [] av.t = "S" /\ t.k = "time" -> IF av.v[1] = "rfc3339" THEN av.v[2] ELSE Fail
      [] av.t = "S" /\ t.k = "string" -> av.v[2]
      [] av.t = "N" /\ t.k = "int" -> av.v
      [] av.t = "BOOL" /\ t.k = "bool" -> av.v
      [] av.t = "B" /\ t.k = "bytes" -> av.v
      [] OTHER -> FromCollection(av, t)

\* unmarshalAttributeValue of the MainExecutor: a number or a map that does not fit
\* leaves the destination alone; struct fields go by their Go names.
RECURSIVE MainUnmarshal(_, _)

MainCollection(av, t) ==
    CASE av.t = "L" /\ t.k \in SliceKinds -> Filled([i \in DOMAIN av.v |-> MainUnmarshal(av.v[i], ElemType(t))])
      [] av.t = "M" /\ t.k = "map" -> Filled([n \in DOMAIN av.v |-> MainUnmarshal(av.v[n], t.e)])
      [] av.t = "M" /\ t.k = "struct" ->
            Filled([n \in DOMAIN t.f |-> IF n \in DOMAIN av.v THEN MainUnmarshal(av.v[n], t.f[n].t)
                                         ELSE Zero(t.f[n].t)])
      [] av.t = "M" /\ t.k \notin {"map", "struct", "ptr"} -> Zero(t)
      [] av.t = "SS" /\ t.k = "slice" /\ ElemType(t).k = "string" -> av.v
      [] av.t = "NS" /\ t.k \in SliceKinds /\ ElemType(t).k = "int" -> av.v
      [] OTHER -> Fail

MainUnmarshal(av, t) ==
    CASE av = Null -> Zero(t)
      [] av # Null /\ t.k = "ptr" -> LET x == MainUnmarshal(av, t.e) IN IF x = Fail THEN Fail ELSE <<x>>
      [] av.t = "S" /\ t.k = "time" -> IF av.v[1] = "rfc3339" THEN av.v[2] ELSE Fail
      [] av.t = "S" /\ t.k = "string" -> av.v[2]
      [] av.t = "N" /\ t.k # "ptr" -> IF t.k = "int" THEN av.v ELSE Zero(t)
      [] av.t = "BOOL" /\ t.k = "bool" -> av.v
      [] av.t = "B" /\ t.k = "bytes" -> av.v
      [] OTHER -> MainCollection(av, t)

\* expr.ConvertFromAttributeValue, used for the result of an update.
RECURSIVE ConvertFromAttributeValue(_, _)

ConvertFromCollection(av, t) ==
    CASE av.t = "L" /\ t.k \in SliceKinds -> Filled([i \in DOMAIN av.v |-> ConvertFromAttributeValue(av.v[i], ElemType(t))])
      [] av.t = "M" /\ t.k = "map" -> Filled([n \in DOMAIN av.v |-> ConvertFromAttributeValue(av.v[n], t.e)])
      [] av.t = "M" /\ t.k = "struct" ->
            Filled([n \in DOMAIN t.f |-> IF TagName(t, n) \in DOMAIN av.v
                                         THEN ConvertFromAttributeValue(av.v[TagName(t, n)], t.f[n].t)
                                         ELSE Zero(t.f[n].t)])
      [] OTHER -> FromCollection(av, t)

ConvertFromAttributeValue(av, t) ==
    CASE av = Null -> Zero(t)
      [] av # Null /\ t.k = "ptr" ->
            LET x == ConvertFromAttributeValue(av, t.e) IN IF x = Fail THEN Fail ELSE <<x>>
      [] av # Null /\ t.k # "ptr" /\ av.t \in {"S", "N", "BOOL", "B"} -> FromAttributeValue(av, t)
      [] OTHER -> ConvertFromCollection(av, t)

-----------------------------------------------------------------------------
(* Writing and reading the attribute.                                      *)

CodecInit ==
    /\ field \in Cases
    /\ path \in {"safe", "unsafe", "converter", "expr"}
    /\ writer \in {"session", "main"} /\ key \in Keys \union {""}
    /\ (field.tags.encrypted /\ writer = "session") \/ key = ""
    /\ atRest = Absent /\ readKey = "" /\ dest = Absent /\ codecAt = "start"

\* Nothing is written: for modules that compose this one with others.
CodecUnused ==
    /\ field = Absent /\ path = "" /\ writer = "" /\ key = "" /\ atRest = Absent
    /\ readKey = "" /\ dest = Absent /\ codecAt = "unused"

\* Mutant of EncryptItem: without a key the attribute is written as it is.
EncryptItemOpen(av) ==
    IF av \in {Fail, Absent} \/ ~field.tags.encrypted \/ key = "" THEN av
    ELSE EncryptAttributeValue("attr", key, av)

\* encryptItem, which FailClosedIfEncryptedWithoutKMSKeyARN precedes.
EncryptItem(av) ==
    CASE av = Fail \/ (field.tags.encrypted /\ key = "") -> Fail
      [] ~(av = Fail \/ (field.tags.encrypted /\ key = "")) /\ (av = Absent \/ ~field.tags.encrypted) -> av
      [] OTHER -> EncryptAttributeValue("attr", key, av)

\* MainExecutor.ExecutePutItem: the item goes to the table as it was marshalled.
MainPutItem(av) == av

\* The put of the writer's executor; KMS may fail.
WriteItem ==
    /\ codecAt = "start"
    /\ LET sent == IF writer = "session" THEN EncryptItem(Marshalled) ELSE MainPutItem(Marshalled)
       IN  \/ /\ sent = Fail \/ (writer = "session" /\ field.tags.encrypted /\ sent # Absent)
              /\ codecAt' = "error" /\ UNCHANGED atRest
           \/ /\ sent # Fail
              /\ codecAt' = "stored" /\ atRest' = sent
    /\ UNCHANGED <<field, path, writer, key, readKey, dest>>

\* unmarshalItem of the MainExecutor, which has no key and refuses an envelope.
MainOpened == IF field.tags.encrypted /\ atRest # Absent /\ IsEnvelope(atRest) THEN Fail ELSE atRest

\* decryptItem of the session's executor; it needs a key although the item may have no
\* encrypted attribute.
Opened(keyARN) ==
    CASE field.tags.encrypted /\ keyARN = "" -> Fail
      [] field.tags.encrypted /\ keyARN # "" /\ atRest # Absent ->
            DecryptAttributeValue("attr", keyARN, atRest)
      [] OTHER -> atRest

\* An attribute that is not there leaves the zero value.
ReadItem(reader, keyARN) ==
    /\ codecAt = "stored"
    /\ LET opened == IF reader = "main" THEN MainOpened ELSE Opened(keyARN)
           av == IF opened = Absent THEN Null ELSE opened
       IN  dest' = CASE av = Fail -> Fail
                     [] av # Fail /\ reader = "session" -> FromAttributeValue(av, field.t)
                     [] av # Fail /\ reader = "main" -> MainUnmarshal(av, field.t)
                     [] OTHER -> ConvertFromAttributeValue(av, field.t)
    /\ codecAt' = reader /\ readKey' = keyARN
    /\ UNCHANGED <<field, path, writer, key, atRest>>

Readers == {"session", "main", "update"}
CodecNext == WriteItem \/ \E reader \in Readers, keyARN \in Keys \union {""} : ReadItem(reader, keyARN)

-----------------------------------------------------------------------------
(* Properties.                                                             *)

\* The same value, but for nil against empty, and nil against a pointer to a zero value.
RECURSIVE Same(_, _, _)
Same(t, a, b) ==
    CASE a = Fail -> FALSE
      [] a # Fail /\ t.k = "ptr" ->
            IF a = GoNil THEN b = GoNil \/ IsZero(t.e, b[1]) ELSE b # GoNil /\ Same(t.e, a[1], b[1])
      [] a # Fail /\ t.k \in {"slice", "bytes", "map"} ->
            /\ DOMAIN Elems(a) = DOMAIN Elems(b)
            /\ \A i \in DOMAIN Elems(a) : Same(ElemType(t), a[i], b[i])
      [] a # Fail /\ t.k = "struct" -> \A n \in DOMAIN t.f : Same(t.f[n].t, a[n], b[n])
      [] OTHER -> a = b

RECURSIVE Nested(_)
Nested(t) == t.k = "struct" \/ (t.k \in {"slice", "map", "ptr"} /\ Nested(t.e))

\* Writers and readers that name the fields of a nested struct alike.
NamesAgree ==
    <<path, codecAt>> \in {<<"safe", "main">>, <<"converter", "main">>, <<"expr", "update">>}
Expected == IF field.tags.role = "updatedAt" THEN Now ELSE field.v

\* Who cannot read an encrypted attribute: the session's executor without a key, with
\* another key, or when nobody sealed the attribute; the main one when somebody did.
Barred ==
    /\ field.tags.encrypted
    /\ IF codecAt = "main" THEN atRest # Absent /\ writer = "session"
       ELSE readKey = "" \/ (atRest # Absent /\ (writer = "main" \/ readKey # key))

\* Every writer with every reader: what was written is what is read, for values of every
\* kind, and with the key that sealed it through encryption too, except that a time used
\* as a TTL comes back, if at all, as nothing (it is a number in the table), and that the
\* fields of a nested struct need a writer and a reader that name them alike.
ReadBack ==
    (codecAt \in Readers /\ ~Barred /\ field.tags.role # "version"
       /\ (Nested(field.t) => NamesAgree) /\ ~(field.tags.ttl /\ field.t.k = "time"))
        => Same(field.t, dest, Expected)

\* encryptItem and decryptItem, with or without a key, with KMS failing: an encrypted
\* attribute that the session's executor put in the table is an envelope, and a reader
\* without the key that sealed it, or of an attribute nobody sealed, fails: none takes an
\* envelope for the value, and none takes the plain value for an envelope.
SealedAtRest ==
    field # Absent => (field.tags.encrypted =>
        /\ (atRest # Absent /\ writer = "session") => IsEnvelope(atRest) /\ key # ""
        /\ (codecAt \in Readers /\ Barred) => dest = Fail)
=============================================================================
