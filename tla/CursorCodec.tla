----------------------------- MODULE CursorCodec -----------------------------
(***************************************************************************)
(* Pagination cursors, pkg/query/cursor.go: a key of tagged attribute      *)
(* values becomes JSON, with bytes in base64, and is read back.  The       *)
(* attributes of a key are scalars; lists and maps, which cursor.go        *)
(* converts element by element, are left out.                              *)
(***************************************************************************)
EXTENDS Integers, Sequences, FiniteSets

AV(tag, value) == [t |-> tag, v |-> value]
Json(tag, value) == [tag |-> tag, json |-> value]

\* encoding/base64, as a text that is not the bytes.
Base64(bytes) == <<"base64", bytes>>
Unbase64(text) == text[2]

AttributeValueBinarySetToJSON(values) == Json("BS", {Base64(b) : b \in values})

AttributeValueToJSON(av) ==
    IF av.t = "BS" THEN AttributeValueBinarySetToJSON(av.v)
    ELSE Json(av.t, IF av.t = "B" THEN Base64(av.v) ELSE IF av.t = "NULL" THEN TRUE ELSE av.v)

\* The sets of jsonToAttributeValue.
JsonSetToAttributeValue(j) ==
    AV(j.tag, IF j.tag = "BS" THEN {Unbase64(x) : x \in j.json} ELSE j.json)

JsonToAttributeValue(j) ==
    IF j.tag \in {"SS", "NS", "BS"} THEN JsonSetToAttributeValue(j)
    ELSE AV(j.tag, IF j.tag = "B" THEN Unbase64(j.json) ELSE IF j.tag = "NULL" THEN TRUE ELSE j.json)

EncodeCursor(lastKey, indexName, sortDirection) ==
    [lastKey |-> [a \in DOMAIN lastKey |-> AttributeValueToJSON(lastKey[a])],
     index |-> indexName, sort |-> sortDirection]

\* DecodeCursor and ToAttributeValues: only the key is used.
DecodeCursor(cursor) ==
    [a \in DOMAIN cursor.lastKey |-> JsonToAttributeValue(cursor.lastKey[a])]
=============================================================================
