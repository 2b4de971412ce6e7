---------------------------- MODULE VersionedItem ----------------------------
(***************************************************************************)
(* Optimistic locking on one item of a model with a version field: Create, *)
(* CreateOrUpdate, Update, Delete and First of pkg/query/query.go and      *)
(* ConditionVersion of pkg/query/update_builder.go, as several callers use *)
(* them on their own in-memory structs, over the executors of              *)
(* internal/theorydb/query_executor.go.                                    *)
(*                                                                         *)
(* The item's data is the set of the edits it contains: a caller reads the *)
(* item, adds one edit to its struct and writes the struct back.  An edit  *)
(* that leaves the set was overwritten.  A life is what lies between two   *)
(* whole-item puts; it and `last` are bookkeeping of the model, no         *)
(* condition of the code can see them.                                     *)
(***************************************************************************)
EXTENDS Integers, FiniteSets

CONSTANTS
    Writer,           \* callers, each with one struct of the model
    Ops,              \* the write operations they use
    Blind,            \* they also Update or Delete structs not read from the table
    MaxEdits,         \* bound: number of edits
    MaxWriteRetries,  \* bound: requests the SDK repeats within one call
    MaxLateWrites     \* bound: requests under way without a caller

Puts    == {"create", "createIfNotExists", "createOrUpdate"}
Updates == {"update", "builderAdd", "builder"}
AllOps  == Puts \union Updates \union {"delete"}

ASSUME OpsAssumption == Ops \subseteq AllOps /\ Blind \in BOOLEAN
ASSUME ItemBoundAssumption ==
    /\ MaxEdits \in Nat
    /\ MaxWriteRetries \in Nat
    /\ MaxLateWrites \in Nat

VARIABLES
    item,        \* the item in the table
    past,        \* every state the item has had while it existed
    model,       \* model[w]: the caller's struct
    write,       \* write[w]: the operation w is in
    lateWrites,  \* requests that outlived the call that sent them
    acked,       \* writes whose caller was told that they succeeded
    nextEdit

itemVars == <<item, past, model, write, lateWrites, acked, nextEdit>>

-----------------------------------------------------------------------------
(* Values.                                                                 *)

NoEdit == 0
NoLife == 0
Absent(life) == [exists |-> FALSE, ver |-> 0, content |-> {}, last |-> NoEdit,
                 life |-> life]

ItemState    == [exists : BOOLEAN, ver : Nat, content : SUBSET Nat, last : Nat, life : Nat]
Model        == [ver : Nat, content : SUBSET Nat, life : Nat]
WriteRequest == [op : AllOps, ver : Nat, content : SUBSET Nat, life : Nat, edit : Nat]
Ack          == [edit : Nat, ver : Nat, life : Nat]
NoWriteRequest == [op |-> "delete", ver |-> 0, content |-> {}, life |-> NoLife,
                   edit |-> NoEdit]
WriteCall    == [phase : {"idle", "sent", "ok", "refused"}, req : WriteRequest,
                 answer : ItemState, retries : Nat]
IdleWriter   == [phase |-> "idle", req |-> NoWriteRequest, answer |-> Absent(NoLife),
                 retries |-> 0]
NewModel     == [ver |-> 0, content |-> {}, life |-> NoLife]

WriteSent(r) == [phase |-> "sent", req |-> r, answer |-> Absent(NoLife), retries |-> 0]
WriteAnswered(c, phase, s) == [phase |-> phase, req |-> c.req, answer |-> s,
                               retries |-> c.retries]
WriteResent(c) == [phase |-> "sent", req |-> c.req, answer |-> Absent(NoLife),
                   retries |-> c.retries + 1]

ItemTypeOK ==
    /\ item \in ItemState
    /\ past \subseteq ItemState
    /\ model \in [Writer -> Model]
    /\ write \in [Writer -> WriteCall]
    /\ lateWrites \subseteq WriteRequest
    /\ acked \subseteq Ack
    /\ nextEdit \in Nat \ {0}

ItemInit ==
    /\ item = Absent(NoLife)
    /\ past = {}
    /\ model = [w \in Writer |-> NewModel]
    /\ write = [w \in Writer |-> IdleWriter]
    /\ lateWrites = {}
    /\ acked = {}
    /\ nextEdit = 1

-----------------------------------------------------------------------------
(* The caller's half of each operation.                                    *)

\* First with an eventually consistent read: some state the item has had.  A
\* read that finds nothing returns ErrItemNotFound and leaves the struct alone.
First(w) ==
    /\ write[w].phase = "idle"
    /\ \E s \in past :
          model' = [model EXCEPT ![w] =
              [ver |-> s.ver, content |-> s.content, life |-> s.life]]
    /\ UNCHANGED <<item, past, write, lateWrites, acked, nextEdit>>

\* The caller builds a new struct.
New(w) ==
    /\ write[w].phase = "idle"
    /\ model[w] # NewModel
    /\ model' = [model EXCEPT ![w] = NewModel]
    /\ UNCHANGED <<item, past, write, lateWrites, acked, nextEdit>>

Edited(w) == [ver |-> model[w].ver, content |-> model[w].content \union {nextEdit},
              life |-> model[w].life]

\* The request for the struct m.  The version is the struct's: marshalItem
\* stores it as it is, Update and ConditionVersion compare it.
Carrying(op, m, edit) ==
    [op |-> op, ver |-> m.ver, content |-> m.content, life |-> m.life, edit |-> edit]

\* The caller changes its struct and writes it back.
Send(w, op) ==
    /\ op \in Ops
    /\ write[w].phase = "idle"
    /\ nextEdit <= MaxEdits
    /\ model' = [model EXCEPT ![w] = Edited(w)]
    /\ write' = [write EXCEPT ![w] = WriteSent(Carrying(op, Edited(w), nextEdit))]
    /\ nextEdit' = nextEdit + 1
    /\ UNCHANGED <<item, past, lateWrites, acked>>

\* Create, IfNotExists().Create and CreateOrUpdate: the whole struct.
Create(w) == Send(w, "create")
CreateIfNotExists(w) == Send(w, "createIfNotExists")
CreateOrUpdate(w) == Send(w, "createOrUpdate")

\* Update(): sets the struct's fields, adds 1 to the version and requires the
\* struct's version.
Update(w) == (Blind \/ model[w].life # NoLife) /\ Send(w, "update")

\* UpdateBuilder().Set(...).ConditionVersion(v).Execute(), with or without
\* Add("Version", 1).
BuilderUpdate(w) ==
    /\ Blind \/ model[w].life # NoLife
    /\ \E op \in {"builder", "builderAdd"} : Send(w, op)

Delete(w) ==
    /\ "delete" \in Ops
    /\ Blind \/ model[w].life # NoLife
    /\ write[w].phase = "idle"
    /\ write' = [write EXCEPT ![w] = WriteSent(Carrying("delete", model[w], NoEdit))]
    /\ UNCHANGED <<item, past, model, lateWrites, acked, nextEdit>>

-----------------------------------------------------------------------------
(* The table: a conditional write is atomic.                               *)

\* Mutant of PutCondition: ifNotExists lost on the way to PutItem.
PutConditionDropped(r) == TRUE

\* IfNotExists: attribute_not_exists on the partition key.
PutCondition(r) == r.op = "createIfNotExists" => ~item.exists

\* Mutant of UpdateCondition: update without the version condition.
UpdateConditionNoVersion(r) == item.exists

\* The version condition of Update and ConditionVersion; it fails when there
\* is no item, whatever the version.
UpdateCondition(r) == item.exists /\ item.ver = r.ver

\* Mutant of DeleteCondition: delete without the version condition.
DeleteUnconditional(r) == TRUE

\* Delete adds the condition only when the struct's version is not zero.
DeleteCondition(r) == r.ver = 0 \/ (item.exists /\ item.ver = r.ver)

WriteCondition(r) ==
    \/ r.op \in Puts /\ PutCondition(r)
    \/ r.op \in Updates /\ UpdateCondition(r)
    \/ r.op = "delete" /\ DeleteCondition(r)

\* A put replaces the item, version included.
PutItem(r) == [exists |-> TRUE, ver |-> r.ver, content |-> r.content,
               last |-> r.edit, life |-> item.life + 1]

\* Mutant of VersionStep: update that leaves the version alone.
VersionStepNone(r) == 0

\* Mutant of VersionStep: the increment only with the builder.
VersionStepNotInUpdate(r) == IF r.op = "builderAdd" THEN 1 ELSE 0

\* SET of the data; "ADD #version 1" comes with Update, and with the builder
\* only when the caller asks for it.
VersionStep(r) == IF r.op = "builder" THEN 0 ELSE 1
UpdatedItem(r) == [exists |-> TRUE, ver |-> item.ver + VersionStep(r),
                   content |-> r.content, last |-> r.edit, life |-> item.life]

\* The item after r's write.
WrittenItem(r) ==
    IF r.op \in Puts THEN PutItem(r)
    ELSE IF r.op \in Updates THEN UpdatedItem(r)
    ELSE Absent(item.life)

\* r reaches the table.
Apply(r) ==
    /\ item' = IF WriteCondition(r) THEN WrittenItem(r) ELSE item
    /\ past' = IF item'.exists THEN past \union {item'} ELSE past

ServeWrite(w) ==
    /\ write[w].phase = "sent"
    /\ Apply(write[w].req)
    /\ write' = [write EXCEPT ![w] =
          WriteAnswered(write[w], IF WriteCondition(write[w].req) THEN "ok" ELSE "refused", item')]
    /\ UNCHANGED <<model, lateWrites, acked, nextEdit>>

\* A request whose caller is gone arrives.
ServeLateWrite(r) ==
    /\ Apply(r)
    /\ lateWrites' = lateWrites \ {r}
    /\ UNCHANGED <<model, write, acked, nextEdit>>

-----------------------------------------------------------------------------
(* The end of a call.                                                      *)

\* The struct as the call leaves it.  No operation stores the new version in
\* it; only ExecuteWithResult hands out the written item.
Returned(w) ==
    LET c == write[w]
    IN  IF c.phase = "ok" /\ c.req.op \in Puts
        THEN {[ver |-> model[w].ver, content |-> model[w].content,
               life |-> c.answer.life]}
        ELSE IF c.phase = "ok" /\ c.req.op \in {"builder", "builderAdd"}
        THEN {model[w], [ver |-> c.answer.ver, content |-> c.answer.content,
                         life |-> c.answer.life]}
        ELSE {model[w]}

\* nil, or ErrConditionFailed.
Return(w) ==
    /\ write[w].phase \in {"ok", "refused"}
    /\ \E m \in Returned(w) : model' = [model EXCEPT ![w] = m]
    /\ acked' = IF write[w].phase = "ok" /\ write[w].req.op # "delete"
                THEN acked \union {[edit |-> write[w].req.edit,
                                    ver |-> write[w].answer.ver,
                                    life |-> write[w].answer.life]}
                ELSE acked
    /\ write' = [write EXCEPT ![w] = IdleWriter]
    /\ UNCHANGED <<item, past, lateWrites, nextEdit>>

\* A request w still has under way stays in the network or is lost with it.
LeaveWriteBehind(w) ==
    \/ lateWrites' = lateWrites
    \/ /\ write[w].phase = "sent"
       /\ Cardinality(lateWrites) < MaxLateWrites
       /\ lateWrites' = lateWrites \union {write[w].req}

\* The SDK gives an attempt up and sends the same request again.
ResendWrite(w) ==
    /\ write[w].phase # "idle"
    /\ write[w].retries < MaxWriteRetries
    /\ LeaveWriteBehind(w)
    /\ write' = [write EXCEPT ![w] = WriteResent(write[w])]
    /\ UNCHANGED <<item, past, model, acked, nextEdit>>

\* "failed to put item", "failed to update item", "failed to delete item": any
\* other error.  The write may or may not have happened.
FailWrite(w) ==
    /\ write[w].phase # "idle"
    /\ LeaveWriteBehind(w)
    /\ write' = [write EXCEPT ![w] = IdleWriter]
    /\ UNCHANGED <<item, past, model, acked, nextEdit>>

ItemNext ==
    \/ \E w \in Writer :
          \/ First(w) \/ New(w)
          \/ Create(w) \/ CreateIfNotExists(w) \/ CreateOrUpdate(w)
          \/ Update(w) \/ BuilderUpdate(w) \/ Delete(w)
          \/ ServeWrite(w) \/ Return(w) \/ ResendWrite(w) \/ FailWrite(w)
    \/ \E r \in lateWrites : ServeLateWrite(r)

ItemSpec == ItemInit /\ [][ItemNext]_itemVars

-----------------------------------------------------------------------------
(* Properties.                                                             *)

\* No write overwrites an edit it has not seen, while callers create with
\* IfNotExists and update structs they read or created: stale reads, lost
\* answers and repeated requests included.
NoLostUpdate == [][item.content \subseteq item'.content]_itemVars

\* An edit whose Create or Update returned nil stays in the item.
AckedEditsPersist == \A a \in acked : a.edit \in item.content

\* Of the updates prepared from one version at most one returns nil: no two
\* successful writes produce the same version of the item.
OneWinnerPerVersion ==
    \A a, b \in acked : a.ver = b.ver /\ a.life = b.life => a = b

\* The version identifies the state: within one life the item never has the
\* same version with different data, so the version condition cannot be met by
\* an item other than the one the caller read.
VersionNamesState ==
    \A s, t \in past : s.ver = t.ver /\ s.life = t.life => s = t

WritesInFlight == lateWrites \union {write[w].req : w \in {v \in Writer : write[v].phase = "sent"}}

\* An Update, or a Delete with a version, whose struct comes from the item's
\* present life overwrites nothing its caller has not seen if it is applied
\* now: whatever puts, deletes and blind updates came before.
SafeToApply ==
    \A r \in WritesInFlight :
        (/\ r.op \in Updates \/ (r.op = "delete" /\ r.ver # 0)
         /\ item.exists
         /\ r.life = item.life
         /\ WriteCondition(r))
        => item.content \subseteq r.content

-----------------------------------------------------------------------------
(* Why they hold: the inductive invariants of module VersionedItemProofs.  *)

\* The present state is the latest of its life.
ItemIsLatest ==
    /\ item.exists => item \in past
    /\ \A s \in past : s.exists /\ s.life # NoLife /\ s.life <= item.life
    /\ item.exists => \A s \in past : s.life = item.life => s.ver <= item.ver

\* x holds at least the data of the state in P whose life and version it names.
BasedOn(P, x) ==
    x.life # NoLife =>
        \E s \in P : s.life = x.life /\ s.ver = x.ver /\ s.content \subseteq x.content

StructsBased ==
    /\ \A w \in Writer : BasedOn(past, model[w]) /\ BasedOn(past, write[w].req)
    /\ \A r \in lateWrites : BasedOn(past, r)

\* A request is of a kind the callers use and contains its own edit.
RequestOK(r) == r.op \in Ops /\ (r.op # "delete" => r.edit \in r.content)
RequestsOK ==
    /\ \A w \in Writer : write[w].phase # "idle" => RequestOK(write[w].req)
    /\ \A r \in lateWrites : RequestOK(r)

\* A struct does not change while its put is under way, and the answer to a
\* successful write is a state the item has had.
AnswersRecorded ==
    \A w \in Writer :
        LET c == write[w]
        IN  /\ c.phase # "idle" /\ c.req.op \in Puts =>
                  model[w].ver = c.req.ver /\ model[w].content = c.req.content
            /\ c.phase = "ok" /\ c.req.op # "delete" =>
                  /\ c.answer \in past
                  /\ c.answer.last = c.req.edit
                  /\ c.answer.content = c.req.content
                  /\ c.req.op \in Puts => c.answer.ver = c.req.ver

AcksRecorded ==
    \A a \in acked : \E s \in past :
        s.life = a.life /\ s.ver = a.ver /\ s.last = a.edit

ItemInv ==
    /\ ItemTypeOK /\ ItemIsLatest /\ VersionNamesState /\ StructsBased
    /\ RequestsOK /\ AnswersRecorded /\ AcksRecorded

\* Callers that create with IfNotExists and write back only what they read or
\* created.
Guarded == Ops \subseteq {"createIfNotExists", "update", "builderAdd"} /\ ~Blind

\* The item has one life, and successful edits are in it.
OneLife ==
    /\ item.exists => item.life = 1
    /\ ~item.exists => item = Absent(NoLife)
UpdatesBased ==
    /\ \A w \in Writer : write[w].req.op \in Updates => write[w].req.life # NoLife
    /\ \A r \in lateWrites : r.op \in Updates => r.life # NoLife
GrantsPersist ==
    \A w \in Writer : write[w].phase = "ok" => write[w].req.edit \in item.content

GInv == ItemInv /\ OneLife /\ UpdatesBased /\ GrantsPersist /\ AckedEditsPersist
=============================================================================
