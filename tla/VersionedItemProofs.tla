------------------------- MODULE VersionedItemProofs -------------------------
(* Proofs about module VersionedItem, for any set of callers and any       *)
(* bounds.                                                                 *)
EXTENDS VersionedItem, TLAPS

-----------------------------------------------------------------------------
(* Types.                                                                  *)

\* An item that is not there.
LEMMA AbsentType ==
    ASSUME NEW n \in Nat
    PROVE  Absent(n) \in ItemState
  BY DEF Absent, ItemState, NoEdit

\* The initial states have the types.
LEMMA InitTypeOK == ItemInit => ItemTypeOK
  <1>1. Absent(NoLife) \in ItemState
    BY AbsentType DEF NoLife
  <1>2. NewModel \in Model
    BY DEF NewModel, Model, NoLife
  <1>3. NoWriteRequest \in WriteRequest
    BY DEF NoWriteRequest, WriteRequest, NoLife, NoEdit, AllOps
  <1>4. IdleWriter \in WriteCall
    BY <1>1, <1>3 DEF IdleWriter, WriteCall
  <1>5. QED
    BY <1>1, <1>2, <1>4 DEF ItemInit, ItemTypeOK

\* The parts of a typed state.
LEMMA PartTypes ==
    ASSUME ItemTypeOK, NEW w \in Writer
    PROVE  /\ model[w] \in Model
           /\ write[w] \in WriteCall
           /\ write[w].req \in WriteRequest
           /\ write[w].answer \in ItemState
           /\ write[w].retries \in Nat
  <1>1. model[w] \in Model /\ write[w] \in WriteCall
    BY DEF ItemTypeOK
  <1>2. QED
    BY <1>1 DEF WriteCall

\* A writer that makes no call.
LEMMA IdleType == IdleWriter \in WriteCall
  <1>1. Absent(NoLife) \in ItemState
    BY AbsentType DEF NoLife
  <1>2. NoWriteRequest \in WriteRequest
    BY DEF NoWriteRequest, WriteRequest, NoLife, NoEdit, AllOps
  <1>3. QED
    BY <1>1, <1>2 DEF IdleWriter, WriteCall

\* A request that was sent.
LEMMA SentType ==
    ASSUME NEW r \in WriteRequest
    PROVE  WriteSent(r) \in WriteCall
  <1>1. Absent(NoLife) \in ItemState
    BY AbsentType DEF NoLife
  <1>2. QED
    BY <1>1 DEF WriteSent, WriteCall

\* What a write leaves in the table.
LEMMA WrittenType ==
    ASSUME ItemTypeOK, NEW r \in WriteRequest
    PROVE  WrittenItem(r) \in ItemState
  <1>1. item.ver \in Nat /\ item.life \in Nat
    BY DEF ItemTypeOK, ItemState
  <1>2. r.ver \in Nat /\ r.content \in SUBSET Nat /\ r.edit \in Nat
    BY DEF WriteRequest
  <1>3. PutItem(r) \in ItemState
    BY <1>1, <1>2 DEF PutItem, ItemState
  <1>4. UpdatedItem(r) \in ItemState
    BY <1>1, <1>2 DEF UpdatedItem, VersionStep, ItemState
  <1>5. Absent(item.life) \in ItemState
    BY <1>1, AbsentType
  <1>6. QED
    BY <1>3, <1>4, <1>5 DEF WrittenItem

\* A write leaves an item, and remembers one.
LEMMA ApplyTypes ==
    ASSUME ItemTypeOK, NEW r \in WriteRequest, Apply(r)
    PROVE  item' \in ItemState /\ past' \subseteq ItemState
  <1>1. item' \in ItemState
    BY WrittenType DEF Apply, ItemTypeOK
  <1>2. QED
    BY <1>1 DEF Apply, ItemTypeOK

\* The request and the struct of a Send.
LEMMA EditedType ==
    ASSUME ItemTypeOK, NEW w \in Writer
    PROVE  Edited(w) \in Model
  <1>1. model[w] \in Model
    BY PartTypes
  <1>2. nextEdit \in Nat
    BY DEF ItemTypeOK
  <1>3. QED
    BY <1>1, <1>2 DEF Edited, Model

\* What a request takes from a struct.
LEMMA CarryingType ==
    ASSUME NEW m \in Model, NEW op \in AllOps, NEW e \in Nat
    PROVE  Carrying(op, m, e) \in WriteRequest
  BY DEF Carrying, Model, WriteRequest

\* What a call leaves in the struct.
LEMMA ReturnedType ==
    ASSUME ItemTypeOK, NEW w \in Writer
    PROVE  Returned(w) \subseteq Model
  <1>1. model[w] \in Model /\ write[w].answer \in ItemState
    BY PartTypes
  <1>2. QED
    BY <1>1 DEF Returned, Model, ItemState

\* What a call leaves behind is a request.
LEMMA LeaveBehindType ==
    ASSUME ItemTypeOK, NEW w \in Writer, LeaveWriteBehind(w)
    PROVE  lateWrites' \subseteq WriteRequest
  BY PartTypes DEF LeaveWriteBehind, ItemTypeOK

\* Every step keeps the types.
LEMMA NextTypeOK == ItemTypeOK /\ [ItemNext]_itemVars => ItemTypeOK'
  <1> SUFFICES ASSUME ItemTypeOK, [ItemNext]_itemVars PROVE ItemTypeOK'
    OBVIOUS
  <1>1. ASSUME NEW w \in Writer, NEW op \in AllOps, Send(w, op) PROVE ItemTypeOK'
    <2>1. Edited(w) \in Model /\ nextEdit \in Nat /\ nextEdit + 1 \in Nat \ {0}
      BY EditedType DEF ItemTypeOK
    <2>2. WriteSent(Carrying(op, Edited(w), nextEdit)) \in WriteCall
      BY <2>1, CarryingType, SentType
    <2>3. QED
      BY <1>1, <2>1, <2>2 DEF Send, ItemTypeOK
  <1>2. ASSUME NEW w \in Writer, First(w) PROVE ItemTypeOK'
    <2>1. PICK s \in past :
            model' = [model EXCEPT ![w] =
                        [ver |-> s.ver, content |-> s.content, life |-> s.life]]
      BY <1>2 DEF First
    <2>2. [ver |-> s.ver, content |-> s.content, life |-> s.life] \in Model
      BY DEF ItemTypeOK, ItemState, Model
    <2>3. QED
      BY <1>2, <2>1, <2>2 DEF First, ItemTypeOK
  <1>3. ASSUME NEW w \in Writer, New(w) PROVE ItemTypeOK'
    <2>1. NewModel \in Model
      BY DEF NewModel, Model, NoLife
    <2>2. QED
      BY <1>3, <2>1 DEF New, ItemTypeOK
  <1>4. ASSUME NEW w \in Writer, Delete(w) PROVE ItemTypeOK'
    <2>1. WriteSent(Carrying("delete", model[w], NoEdit)) \in WriteCall
      BY PartTypes, CarryingType, SentType DEF AllOps, NoEdit
    <2>2. QED
      BY <1>4, <2>1 DEF Delete, ItemTypeOK
  <1>5. ASSUME NEW w \in Writer, ServeWrite(w) PROVE ItemTypeOK'
    <2>1. item' \in ItemState /\ past' \subseteq ItemState
      BY <1>5, PartTypes, ApplyTypes DEF ServeWrite
    <2>2. \A ph \in {"ok", "refused"} : WriteAnswered(write[w], ph, item') \in WriteCall
      BY <2>1, PartTypes DEF WriteAnswered, WriteCall
    <2>3. QED
      BY <1>5, <2>1, <2>2 DEF ServeWrite, ItemTypeOK
  <1>6. ASSUME NEW r \in lateWrites, ServeLateWrite(r) PROVE ItemTypeOK'
    <2>1. r \in WriteRequest
      BY DEF ItemTypeOK
    <2>2. QED
      BY <1>6, <2>1, ApplyTypes DEF ServeLateWrite, ItemTypeOK
  <1>7. ASSUME NEW w \in Writer, Return(w) PROVE ItemTypeOK'
    <2>1. PICK m \in Returned(w) : model' = [model EXCEPT ![w] = m]
      BY <1>7 DEF Return
    <2>2. m \in Model
      BY ReturnedType
    <2>3. [edit |-> write[w].req.edit, ver |-> write[w].answer.ver,
           life |-> write[w].answer.life] \in Ack
      BY PartTypes DEF WriteRequest, ItemState, Ack
    <2>4. acked' \subseteq Ack
      BY <1>7, <2>3 DEF Return, ItemTypeOK
    <2>5. QED
      BY <1>7, <2>1, <2>2, <2>4, IdleType DEF Return, ItemTypeOK
  <1>8. ASSUME NEW w \in Writer, ResendWrite(w) PROVE ItemTypeOK'
    <2>1. WriteResent(write[w]) \in WriteCall
      <3>1. Absent(NoLife) \in ItemState
        BY AbsentType DEF NoLife
      <3>2. QED
        BY <3>1, PartTypes DEF WriteResent, WriteCall
    <2>2. lateWrites' \subseteq WriteRequest
      BY <1>8, LeaveBehindType DEF ResendWrite
    <2>3. QED
      BY <1>8, <2>1, <2>2 DEF ResendWrite, ItemTypeOK
  <1>9. ASSUME NEW w \in Writer, FailWrite(w) PROVE ItemTypeOK'
    <2>1. lateWrites' \subseteq WriteRequest
      BY <1>9, LeaveBehindType DEF FailWrite
    <2>2. QED
      BY <1>9, <2>1, IdleType DEF FailWrite, ItemTypeOK
  <1>10. CASE UNCHANGED itemVars
    BY <1>10 DEF itemVars, ItemTypeOK
  <1>11. ASSUME NEW w \in Writer,
               \/ Create(w) \/ CreateIfNotExists(w) \/ CreateOrUpdate(w)
               \/ Update(w) \/ BuilderUpdate(w)
         PROVE  ItemTypeOK'
    <2>1. PICK op \in AllOps : Send(w, op)
      BY <1>11 DEF Create, CreateIfNotExists, CreateOrUpdate, Update,
                   BuilderUpdate, AllOps, Puts, Updates
    <2>2. QED
      BY <1>1, <2>1
  <1>12. QED
    BY <1>2, <1>3, <1>4, <1>5, <1>6, <1>7, <1>8, <1>9, <1>10, <1>11 DEF ItemNext

\* Every variable keeps its type, whatever operations the callers use.
THEOREM TypeCorrect == ItemSpec => []ItemTypeOK
  BY InitTypeOK, NextTypeOK, PTL DEF ItemSpec

-----------------------------------------------------------------------------
(* The version identifies the state.                                       *)

\* A struct based on the states in P is based on more states.
LEMMA BasedOnMore ==
    ASSUME NEW P, NEW Q, P \subseteq Q, NEW x, BasedOn(P, x)
    PROVE  BasedOn(Q, x)
  BY DEF BasedOn

\* The effect of a write on the history of the item.
LEMMA ApplyHistory ==
    ASSUME ItemInv, "builder" \notin Ops, NEW r \in WriteRequest, RequestOK(r), Apply(r)
    PROVE  /\ past \subseteq past'
           /\ ItemIsLatest'
           /\ VersionNamesState'
           /\ WriteCondition(r) /\ r.op # "delete" =>
                 /\ item' \in past'
                 /\ item'.last = r.edit
                 /\ item'.content = r.content
                 /\ r.op \in Puts => item'.ver = r.ver
  <1>1. item \in ItemState /\ item.ver \in Nat /\ item.life \in Nat
    BY DEF ItemInv, ItemTypeOK, ItemState
  <1>2. r.ver \in Nat
    BY DEF WriteRequest
  <1>3. \A s \in past : s.ver \in Nat /\ s.life \in Nat
    BY DEF ItemInv, ItemTypeOK, ItemState
  <1>4. past \subseteq past'
    BY DEF Apply
  <1>5. CASE ~WriteCondition(r)
    <2>1. item' = item
      BY <1>5 DEF Apply
    <2>2. past' = past
      BY <2>1 DEF Apply, ItemInv, ItemIsLatest
    <2>3. QED
      BY <1>4, <1>5, <2>1, <2>2 DEF ItemInv, ItemIsLatest, VersionNamesState
  <1>6. CASE WriteCondition(r) /\ r.op \in Puts
    <2>1. item' = PutItem(r)
      BY <1>6 DEF Apply, WrittenItem
    <2>2. /\ item'.exists /\ item'.ver = r.ver /\ item'.content = r.content
          /\ item'.last = r.edit /\ item'.life = item.life + 1
      BY <2>1 DEF PutItem
    <2>3. past' = past \union {item'}
      BY <2>2 DEF Apply
    <2>4. \A s \in past : s.life <= item.life /\ s.life # item'.life
      BY <1>1, <1>3, <2>2 DEF ItemInv, ItemIsLatest
    <2>5. ItemIsLatest'
      BY <1>1, <1>2, <1>3, <2>2, <2>3, <2>4 DEF ItemInv, ItemIsLatest, NoLife
    <2>6. VersionNamesState'
      BY <2>3, <2>4 DEF ItemInv, VersionNamesState
    <2>7. QED
      BY <1>4, <2>2, <2>3, <2>5, <2>6
  <1>7. CASE WriteCondition(r) /\ r.op \in Updates
    <2>1. r.op \notin Puts /\ r.op # "delete" /\ r.op # "builder"
      BY <1>7 DEF Puts, Updates, RequestOK
    <2>2. item.exists /\ item.ver = r.ver
      BY <1>7, <2>1 DEF WriteCondition, UpdateCondition
    <2>3. item' = UpdatedItem(r)
      BY <1>7, <2>1 DEF Apply, WrittenItem
    <2>4. /\ item'.exists /\ item'.ver = item.ver + 1 /\ item'.content = r.content
          /\ item'.last = r.edit /\ item'.life = item.life
      BY <1>1, <2>1, <2>3 DEF UpdatedItem, VersionStep
    <2>5. past' = past \union {item'}
      BY <2>4 DEF Apply
    <2>6. \A s \in past : s.life = item'.life => s.ver <= item.ver /\ s.ver # item'.ver
      BY <1>1, <1>3, <2>2, <2>4 DEF ItemInv, ItemIsLatest
    <2>7. item.life # NoLife
      BY <2>2 DEF ItemInv, ItemIsLatest
    <2>8. ItemIsLatest'
      BY <1>1, <1>3, <2>4, <2>5, <2>6, <2>7 DEF ItemInv, ItemIsLatest
    <2>9. VersionNamesState'
      BY <2>5, <2>6 DEF ItemInv, VersionNamesState
    <2>10. QED
      BY <1>4, <2>1, <2>4, <2>5, <2>8, <2>9
  <1>8. CASE WriteCondition(r) /\ r.op = "delete"
    <2>1. item' = Absent(item.life)
      BY <1>8 DEF Apply, WrittenItem, Puts, Updates
    <2>2. ~item'.exists /\ item'.life = item.life
      BY <2>1 DEF Absent
    <2>3. past' = past
      BY <2>2 DEF Apply
    <2>4. QED
      BY <1>4, <1>8, <2>2, <2>3 DEF ItemInv, ItemIsLatest, VersionNamesState
  <1>9. QED
    BY <1>5, <1>6, <1>7, <1>8 DEF WriteCondition

\* There is no item yet and nothing is under way.
LEMMA InitItemInv == ItemInit => ItemInv
  <1> SUFFICES ASSUME ItemInit PROVE ItemInv
    OBVIOUS
  <1>1. ItemTypeOK
    BY InitTypeOK
  <1>2. ItemIsLatest /\ VersionNamesState /\ AcksRecorded
    BY DEF ItemInit, ItemIsLatest, VersionNamesState, AcksRecorded, Absent
  <1>3. StructsBased
    BY DEF ItemInit, StructsBased, BasedOn, NewModel, IdleWriter, NoWriteRequest
  <1>4. RequestsOK /\ AnswersRecorded
    BY DEF ItemInit, RequestsOK, AnswersRecorded, IdleWriter
  <1>5. QED
    BY <1>1, <1>2, <1>3, <1>4 DEF ItemInv

\* A call that sends the struct of its caller.
LEMMA SendItemInv ==
    ASSUME ItemInv, NEW w \in Writer, NEW op \in AllOps \ {"delete"}, Send(w, op)
    PROVE  ItemInv'
  <1> DEFINE r == Carrying(op, Edited(w), nextEdit)
  <1>1. ItemTypeOK'
    <2>1. Edited(w) \in Model /\ nextEdit \in Nat /\ nextEdit + 1 \in Nat \ {0}
      BY EditedType DEF ItemInv, ItemTypeOK
    <2>2. WriteSent(r) \in WriteCall
      BY <2>1, CarryingType, SentType
    <2>3. QED
      BY <2>1, <2>2 DEF Send, ItemInv, ItemTypeOK
  <1>2. \A v \in Writer :
           /\ model'[v] = IF v = w THEN Edited(w) ELSE model[v]
           /\ write'[v] = IF v = w THEN WriteSent(r) ELSE write[v]
    BY DEF Send, ItemInv, ItemTypeOK
  <1>3. UNCHANGED <<item, past, lateWrites, acked>>
    BY DEF Send
  <1>4. ItemIsLatest' /\ VersionNamesState' /\ AcksRecorded'
    BY <1>3 DEF ItemInv, ItemIsLatest, VersionNamesState, AcksRecorded
  <1>5. BasedOn(past, Edited(w)) /\ BasedOn(past, r)
    <2>1. BasedOn(past, model[w])
      BY DEF ItemInv, StructsBased
    <2>2. QED
      BY <2>1 DEF BasedOn, Edited, Carrying
  <1>6. StructsBased'
    BY <1>2, <1>3, <1>5 DEF ItemInv, StructsBased, WriteSent
  <1>7. RequestOK(r)
    BY DEF Send, RequestOK, Carrying, Edited
  <1>8. RequestsOK'
    BY <1>2, <1>3, <1>7 DEF ItemInv, RequestsOK, WriteSent
  <1>9. AnswersRecorded'
    BY <1>2, <1>3 DEF ItemInv, AnswersRecorded, WriteSent, Carrying
  <1>10. QED
    BY <1>1, <1>4, <1>6, <1>8, <1>9 DEF ItemInv

\* A request left behind is one that was under way.
LEMMA LeftBehind ==
    ASSUME ItemInv, NEW w \in Writer, LeaveWriteBehind(w)
    PROVE  \A r \in lateWrites' : BasedOn(past, r) /\ RequestOK(r)
  BY DEF LeaveWriteBehind, ItemInv, StructsBased, RequestsOK

\* Every step keeps the invariant.
LEMMA NextItemInv ==
    ASSUME "builder" \notin Ops
    PROVE  ItemInv /\ [ItemNext]_itemVars => ItemInv'
  <1> SUFFICES ASSUME ItemInv, [ItemNext]_itemVars PROVE ItemInv'
    OBVIOUS
  <1> ItemTypeOK'
    BY NextTypeOK DEF ItemInv
  <1> ItemTypeOK
    BY DEF ItemInv
  <1>1. ASSUME NEW w \in Writer,
               \/ Create(w) \/ CreateIfNotExists(w) \/ CreateOrUpdate(w)
               \/ Update(w) \/ BuilderUpdate(w)
        PROVE  ItemInv'
    <2>1. PICK op \in AllOps \ {"delete"} : Send(w, op)
      BY <1>1 DEF Create, CreateIfNotExists, CreateOrUpdate, Update,
                  BuilderUpdate, AllOps, Puts, Updates
    <2>2. QED
      BY <2>1, SendItemInv
  <1>2. ASSUME NEW w \in Writer, First(w) \/ New(w) PROVE ItemInv'
    <2>1. UNCHANGED <<item, past, write, lateWrites, acked>> /\ write[w].phase = "idle"
      BY <1>2 DEF First, New
    <2>2. \A v \in Writer : v # w => model'[v] = model[v]
      BY <1>2 DEF First, New, ItemTypeOK
    <2>3. BasedOn(past, model'[w])
      BY <1>2 DEF First, New, ItemTypeOK, BasedOn, NewModel
    <2>4. ItemIsLatest' /\ VersionNamesState' /\ AcksRecorded' /\ RequestsOK'
      BY <2>1 DEF ItemInv, ItemIsLatest, VersionNamesState, AcksRecorded, RequestsOK
    <2>5. StructsBased'
      BY <2>1, <2>2, <2>3 DEF ItemInv, StructsBased
    <2>6. AnswersRecorded'
      BY <2>1, <2>2 DEF ItemInv, AnswersRecorded
    <2>7. QED
      BY <2>4, <2>5, <2>6 DEF ItemInv
  <1>3. ASSUME NEW w \in Writer, Delete(w) PROVE ItemInv'
    <2> DEFINE r == Carrying("delete", model[w], NoEdit)
    <2>1. UNCHANGED <<item, past, model, lateWrites, acked>>
      BY <1>3 DEF Delete
    <2>2. \A v \in Writer : write'[v] = IF v = w THEN WriteSent(r) ELSE write[v]
      BY <1>3 DEF Delete, ItemTypeOK
    <2>3. BasedOn(past, r)
      BY DEF ItemInv, StructsBased, BasedOn, Carrying
    <2>4. RequestOK(r)
      BY <1>3 DEF Delete, RequestOK, Carrying
    <2>5. ItemIsLatest' /\ VersionNamesState' /\ AcksRecorded'
      BY <2>1 DEF ItemInv, ItemIsLatest, VersionNamesState, AcksRecorded
    <2>6. StructsBased' /\ RequestsOK'
      BY <2>1, <2>2, <2>3, <2>4 DEF ItemInv, StructsBased, RequestsOK, WriteSent
    <2>7. AnswersRecorded'
      BY <2>1, <2>2 DEF ItemInv, AnswersRecorded, WriteSent, Carrying, Puts
    <2>8. QED
      BY <2>5, <2>6, <2>7 DEF ItemInv
  <1>4. ASSUME NEW w \in Writer, ServeWrite(w) PROVE ItemInv'
    <2> DEFINE r == write[w].req
    <2>1. r \in WriteRequest /\ RequestOK(r) /\ Apply(r)
      BY <1>4, PartTypes DEF ServeWrite, ItemInv, RequestsOK
    <2>2. /\ past \subseteq past' /\ ItemIsLatest' /\ VersionNamesState'
          /\ WriteCondition(r) /\ r.op # "delete" =>
                /\ item' \in past' /\ item'.last = r.edit
                /\ item'.content = r.content
                /\ r.op \in Puts => item'.ver = r.ver
      BY <2>1, ApplyHistory
    <2>3. UNCHANGED <<model, lateWrites, acked>>
      BY <1>4 DEF ServeWrite
    <2>4. \A v \in Writer :
             /\ write'[v].req = write[v].req
             /\ write[v].phase = "idle" => write'[v] = write[v]
             /\ v # w => write'[v] = write[v]
      BY <1>4 DEF ServeWrite, ItemTypeOK, WriteAnswered
    <2>5. /\ write'[w].phase = (IF WriteCondition(r) THEN "ok" ELSE "refused")
          /\ write'[w].answer = item' /\ write[w].phase = "sent"
      BY <1>4 DEF ServeWrite, ItemTypeOK, WriteAnswered
    <2>6. AcksRecorded'
      BY <2>2, <2>3 DEF ItemInv, AcksRecorded
    <2>7. StructsBased'
      BY <2>2, <2>3, <2>4, BasedOnMore DEF ItemInv, StructsBased
    <2>8. RequestsOK'
      BY <2>3, <2>4, <2>5 DEF ItemInv, RequestsOK
    <2>9. AnswersRecorded'
      <3> SUFFICES ASSUME NEW v \in Writer
                   PROVE  /\ write'[v].phase # "idle" /\ write'[v].req.op \in Puts =>
                               /\ model'[v].ver = write'[v].req.ver
                               /\ model'[v].content = write'[v].req.content
                          /\ write'[v].phase = "ok" /\ write'[v].req.op # "delete" =>
                               /\ write'[v].answer \in past'
                               /\ write'[v].answer.last = write'[v].req.edit
                               /\ write'[v].answer.content = write'[v].req.content
                               /\ write'[v].req.op \in Puts =>
                                     write'[v].answer.ver = write'[v].req.ver
        BY DEF AnswersRecorded
      <3>1. CASE v = w
        BY <2>2, <2>3, <2>4, <2>5, <3>1 DEF ItemInv, AnswersRecorded
      <3>2. CASE v # w
        BY <2>2, <2>3, <2>4, <3>2 DEF ItemInv, AnswersRecorded
      <3>3. QED
        BY <3>1, <3>2
    <2>10. QED
      BY <2>2, <2>6, <2>7, <2>8, <2>9 DEF ItemInv
  <1>5. ASSUME NEW r \in lateWrites, ServeLateWrite(r) PROVE ItemInv'
    <2>1. r \in WriteRequest /\ RequestOK(r) /\ Apply(r)
      BY <1>5 DEF ServeLateWrite, ItemInv, RequestsOK, ItemTypeOK
    <2>2. past \subseteq past' /\ ItemIsLatest' /\ VersionNamesState'
      BY <2>1, ApplyHistory
    <2>3. UNCHANGED <<model, write, acked>> /\ lateWrites' \subseteq lateWrites
      BY <1>5 DEF ServeLateWrite
    <2>4. AcksRecorded' /\ RequestsOK' /\ AnswersRecorded'
      BY <2>2, <2>3 DEF ItemInv, AcksRecorded, RequestsOK, AnswersRecorded
    <2>5. StructsBased'
      BY <2>2, <2>3, BasedOnMore DEF ItemInv, StructsBased
    <2>6. QED
      BY <2>2, <2>4, <2>5 DEF ItemInv
  <1>6. ASSUME NEW w \in Writer, Return(w) PROVE ItemInv'
    <2>1. PICK m \in Returned(w) : model' = [model EXCEPT ![w] = m]
      BY <1>6 DEF Return
    <2>2. UNCHANGED <<item, past, lateWrites>>
      BY <1>6 DEF Return
    <2>3. \A v \in Writer :
             /\ model'[v] = IF v = w THEN m ELSE model[v]
             /\ write'[v] = IF v = w THEN IdleWriter ELSE write[v]
      BY <1>6, <2>1 DEF Return, ItemTypeOK
    <2>4. BasedOn(past, m)
      BY <1>6 DEF Return, Returned, ItemInv, StructsBased, AnswersRecorded, BasedOn, Puts
    <2>5. BasedOn(past, IdleWriter.req)
      BY DEF BasedOn, IdleWriter, NoWriteRequest
    <2>6. ItemIsLatest' /\ VersionNamesState'
      BY <2>2 DEF ItemInv, ItemIsLatest, VersionNamesState
    <2>7. StructsBased'
      BY <2>2, <2>3, <2>4, <2>5 DEF ItemInv, StructsBased
    <2>8. RequestsOK' /\ AnswersRecorded'
      BY <2>2, <2>3 DEF ItemInv, RequestsOK, AnswersRecorded, IdleWriter
    <2>9. AcksRecorded'
      BY <1>6, <2>2 DEF Return, ItemInv, AnswersRecorded, AcksRecorded
    <2>10. QED
      BY <2>6, <2>7, <2>8, <2>9 DEF ItemInv
  <1>7. ASSUME NEW w \in Writer, ResendWrite(w) \/ FailWrite(w) PROVE ItemInv'
    <2>1. UNCHANGED <<item, past, model, acked>> /\ LeaveWriteBehind(w)
      BY <1>7 DEF ResendWrite, FailWrite
    <2>2. \A r \in lateWrites' : BasedOn(past, r) /\ RequestOK(r)
      BY <2>1, LeftBehind
    <2>3. \A v \in Writer :
             \/ write'[v] = write[v]
             \/ write'[v].phase = "idle" /\ write'[v].req = NoWriteRequest
             \/ /\ write'[v].phase = "sent" /\ write[v].phase # "idle"
                /\ write'[v].req = write[v].req
      BY <1>7 DEF ResendWrite, FailWrite, ItemTypeOK, WriteResent, IdleWriter
    <2>4. ItemIsLatest' /\ VersionNamesState' /\ AcksRecorded'
      BY <2>1 DEF ItemInv, ItemIsLatest, VersionNamesState, AcksRecorded
    <2>5. StructsBased'
      <3>1. BasedOn(past, NoWriteRequest)
        BY DEF BasedOn, NoWriteRequest
      <3>2. QED
        BY <2>1, <2>2, <2>3, <3>1 DEF ItemInv, StructsBased
    <2>6. RequestsOK'
      BY <2>2, <2>3 DEF ItemInv, RequestsOK
    <2>7. AnswersRecorded'
      BY <2>1, <2>3 DEF ItemInv, AnswersRecorded
    <2>8. QED
      BY <2>4, <2>5, <2>6, <2>7 DEF ItemInv
  <1>8. CASE UNCHANGED itemVars
    BY <1>8 DEF itemVars, ItemInv, ItemIsLatest, VersionNamesState, StructsBased,
                RequestsOK, AnswersRecorded, AcksRecorded
  <1>9. QED
    BY <1>1, <1>2, <1>3, <1>4, <1>5, <1>6, <1>7, <1>8 DEF ItemNext

\* The invariant holds throughout.
LEMMA SpecItemInv ==
    ASSUME "builder" \notin Ops
    PROVE  ItemSpec => []ItemInv
  <1>1. ItemInv /\ [ItemNext]_itemVars => ItemInv'
    BY NextItemInv
  <1>2. QED
    BY <1>1, InitItemInv, PTL DEF ItemSpec

\* As long as every update through the builder adds 1 to the version, the
\* version identifies the state of the item within one life.
THEOREM VersionIdentifies ==
    ASSUME "builder" \notin Ops
    PROVE  ItemSpec => []VersionNamesState
  <1>1. ItemInv => VersionNamesState
    BY DEF ItemInv
  <1>2. QED
    BY <1>1, SpecItemInv, PTL

\* Of the updates prepared from one version at most one returns nil.
THEOREM OneWinner ==
    ASSUME "builder" \notin Ops
    PROVE  ItemSpec => []OneWinnerPerVersion
  <1>1. ASSUME ItemInv, NEW a \in acked, NEW b \in acked, a.ver = b.ver, a.life = b.life
        PROVE  a = b
    <2>1. PICK s \in past : s.life = a.life /\ s.ver = a.ver /\ s.last = a.edit
      BY <1>1 DEF ItemInv, AcksRecorded
    <2>2. PICK t \in past : t.life = b.life /\ t.ver = b.ver /\ t.last = b.edit
      BY <1>1 DEF ItemInv, AcksRecorded
    <2>3. s = t
      BY <1>1, <2>1, <2>2 DEF ItemInv, VersionNamesState
    <2>4. a \in Ack /\ b \in Ack
      BY <1>1 DEF ItemInv, ItemTypeOK
    <2>5. QED
      BY <1>1, <2>1, <2>2, <2>3, <2>4 DEF Ack
  <1>2. ItemInv => OneWinnerPerVersion
    BY <1>1 DEF OneWinnerPerVersion
  <1>3. QED
    BY <1>2, SpecItemInv, PTL

\* What an update that passes its condition writes contains what it replaces,
\* if its struct is of the item's present life.
LEMMA BasedWrite ==
    ASSUME ItemInv, NEW r, BasedOn(past, r), r.life = item.life, item.exists,
           item.ver = r.ver
    PROVE  item.content \subseteq r.content
  <1>1. item \in past /\ item.life # NoLife
    BY DEF ItemInv, ItemIsLatest
  <1>2. PICK s \in past : s.life = r.life /\ s.ver = r.ver /\ s.content \subseteq r.content
    BY <1>1 DEF BasedOn
  <1>3. s = item
    BY <1>1, <1>2 DEF ItemInv, VersionNamesState
  <1>4. QED
    BY <1>2, <1>3

\* A guarded Update or Delete of the item's present life overwrites nothing
\* its caller has not seen, whatever else the callers do.
THEOREM GuardedWritesSafe ==
    ASSUME "builder" \notin Ops
    PROVE  ItemSpec => []SafeToApply
  <1>1. ASSUME ItemInv, NEW r \in WritesInFlight,
               r.op \in Updates \/ (r.op = "delete" /\ r.ver # 0),
               item.exists, r.life = item.life, WriteCondition(r)
        PROVE  item.content \subseteq r.content
    <2>1. BasedOn(past, r)
      BY <1>1 DEF WritesInFlight, ItemInv, StructsBased
    <2>2. item.ver = r.ver
      BY <1>1 DEF WriteCondition, UpdateCondition, DeleteCondition, Updates, Puts
    <2>3. QED
      BY <1>1, <2>1, <2>2, BasedWrite
  <1>2. ItemInv => SafeToApply
    BY <1>1 DEF SafeToApply
  <1>3. QED
    BY <1>2, SpecItemInv, PTL

-----------------------------------------------------------------------------
(* Guarded callers lose nothing.                                           *)

\* Guarded callers do not use ConditionVersion alone.
LEMMA GuardedNoBuilder == Guarded => "builder" \notin Ops
  BY DEF Guarded

\* There is no item yet, and nothing is under way.
LEMMA InitGInv == ItemInit => GInv
  <1> SUFFICES ASSUME ItemInit PROVE GInv
    OBVIOUS
  <1>1. ItemInv
    BY InitItemInv
  <1>2. OneLife /\ AckedEditsPersist
    BY DEF ItemInit, OneLife, AckedEditsPersist, Absent
  <1>3. UpdatesBased /\ GrantsPersist
    BY DEF ItemInit, UpdatesBased, GrantsPersist, IdleWriter, NoWriteRequest, Updates
  <1>4. QED
    BY <1>1, <1>2, <1>3 DEF GInv

\* A guarded write adds to the item's edits.
LEMMA ApplyAdds ==
    ASSUME Guarded, GInv, NEW r \in WriteRequest, RequestOK(r), BasedOn(past, r),
           r.op \in Updates => r.life # NoLife, Apply(r)
    PROVE  /\ item.content \subseteq item'.content
           /\ OneLife'
           /\ WriteCondition(r) => r.edit \in item'.content
  <1>1. item.ver \in Nat /\ item.life \in Nat /\ r.life \in Nat
    BY DEF GInv, ItemInv, ItemTypeOK, ItemState, WriteRequest
  <1>2. r.op = "createIfNotExists" \/ r.op \in {"update", "builderAdd"}
    BY DEF Guarded, RequestOK
  <1>3. r.edit \in r.content
    BY <1>2 DEF RequestOK
  <1>4. CASE ~WriteCondition(r)
    <2>1. item' = item
      BY <1>4 DEF Apply
    <2>2. QED
      BY <1>4, <2>1 DEF GInv, OneLife
  <1>5. CASE WriteCondition(r) /\ r.op = "createIfNotExists"
    <2>1. ~item.exists
      BY <1>5 DEF WriteCondition, PutCondition, Updates
    <2>2. item.content = {} /\ item.life = 0
      BY <2>1 DEF GInv, OneLife, Absent, NoLife
    <2>3. item'.exists /\ item'.content = r.content /\ item'.life = item.life + 1
      BY <1>5 DEF Apply, WrittenItem, PutItem, Puts
    <2>4. QED
      BY <1>3, <2>2, <2>3 DEF OneLife
  <1>6. CASE WriteCondition(r) /\ r.op \in {"update", "builderAdd"}
    <2>1. item.exists /\ item.ver = r.ver
      BY <1>6 DEF WriteCondition, UpdateCondition, Puts
    <2>2. item.life = 1
      BY <2>1 DEF GInv, OneLife
    <2>3. r.life = item.life
      <3>1. PICK s \in past : s.life = r.life
        BY <1>6 DEF BasedOn, Updates
      <3>2. s.life <= item.life /\ s.life # 0 /\ s.life \in Nat
        BY DEF GInv, ItemInv, ItemIsLatest, NoLife, ItemTypeOK, ItemState
      <3>3. QED
        BY <2>2, <3>1, <3>2
    <2>4. item.content \subseteq r.content
      BY <2>1, <2>3, BasedWrite DEF GInv
    <2>5. item'.exists /\ item'.content = r.content /\ item'.life = item.life
      BY <1>6 DEF Apply, WrittenItem, UpdatedItem, Puts, Updates
    <2>6. QED
      BY <1>3, <2>2, <2>4, <2>5 DEF OneLife
  <1>7. QED
    BY <1>2, <1>4, <1>5, <1>6

\* A step of guarded callers.
LEMMA NextGInv ==
    ASSUME Guarded
    PROVE  GInv /\ [ItemNext]_itemVars => GInv' /\ item.content \subseteq item'.content
  <1> SUFFICES ASSUME GInv, [ItemNext]_itemVars
               PROVE  GInv' /\ item.content \subseteq item'.content
    OBVIOUS
  <1> ItemTypeOK
    BY DEF GInv, ItemInv
  <1>0. ItemInv'
    BY NextItemInv, GuardedNoBuilder DEF GInv
  <1>1. ASSUME NEW w \in Writer,
               \/ Create(w) \/ CreateIfNotExists(w) \/ CreateOrUpdate(w)
               \/ Update(w) \/ BuilderUpdate(w) \/ Delete(w)
        PROVE  GInv' /\ item.content \subseteq item'.content
    <2>1. PICK op \in {"createIfNotExists", "update", "builderAdd"} :
             /\ Send(w, op)
             /\ op \in Updates => model[w].life # NoLife
      BY <1>1 DEF Guarded, Create, CreateIfNotExists, CreateOrUpdate, Update,
                  BuilderUpdate, Delete, Send, Updates
    <2>2. UNCHANGED <<item, lateWrites, acked>>
      BY <2>1 DEF Send
    <2>3. \A v \in Writer :
             write'[v] = IF v = w THEN WriteSent(Carrying(op, Edited(w), nextEdit))
                                 ELSE write[v]
      BY <2>1 DEF Send, ItemTypeOK
    <2>4. OneLife' /\ AckedEditsPersist'
      BY <2>2 DEF GInv, OneLife, AckedEditsPersist
    <2>5. UpdatesBased' /\ GrantsPersist'
      BY <2>1, <2>2, <2>3 DEF GInv, UpdatesBased, GrantsPersist, WriteSent, Carrying, Edited
    <2>6. QED
      BY <1>0, <2>2, <2>4, <2>5 DEF GInv
  <1>2. ASSUME NEW w \in Writer, First(w) \/ New(w)
        PROVE  GInv' /\ item.content \subseteq item'.content
    <2>1. UNCHANGED <<item, write, lateWrites, acked>>
      BY <1>2 DEF First, New
    <2>2. QED
      BY <1>0, <2>1 DEF GInv, OneLife, AckedEditsPersist, UpdatesBased, GrantsPersist
  <1>3. ASSUME NEW w \in Writer, ServeWrite(w)
        PROVE  GInv' /\ item.content \subseteq item'.content
    <2> DEFINE r == write[w].req
    <2>1. /\ r \in WriteRequest /\ RequestOK(r) /\ BasedOn(past, r) /\ Apply(r)
          /\ r.op \in Updates => r.life # NoLife
      BY <1>3, PartTypes DEF ServeWrite, GInv, ItemInv, RequestsOK, StructsBased, UpdatesBased
    <2>2. /\ item.content \subseteq item'.content /\ OneLife'
          /\ WriteCondition(r) => r.edit \in item'.content
      BY <2>1, ApplyAdds
    <2>3. UNCHANGED <<lateWrites, acked>>
      BY <1>3 DEF ServeWrite
    <2>4. \A v \in Writer :
             /\ write'[v].req = write[v].req
             /\ v # w => write'[v] = write[v]
      BY <1>3 DEF ServeWrite, ItemTypeOK, WriteAnswered
    <2>5. write'[w].phase = (IF WriteCondition(r) THEN "ok" ELSE "refused")
      BY <1>3 DEF ServeWrite, ItemTypeOK, WriteAnswered
    <2>6. AckedEditsPersist'
      BY <2>2, <2>3 DEF GInv, AckedEditsPersist
    <2>7. UpdatesBased'
      BY <2>3, <2>4 DEF GInv, UpdatesBased
    <2>8. GrantsPersist'
      BY <2>2, <2>4, <2>5 DEF GInv, GrantsPersist
    <2>9. QED
      BY <1>0, <2>2, <2>6, <2>7, <2>8 DEF GInv
  <1>4. ASSUME NEW r \in lateWrites, ServeLateWrite(r)
        PROVE  GInv' /\ item.content \subseteq item'.content
    <2>1. /\ r \in WriteRequest /\ RequestOK(r) /\ BasedOn(past, r) /\ Apply(r)
          /\ r.op \in Updates => r.life # NoLife
      BY <1>4 DEF ServeLateWrite, ItemTypeOK, GInv, ItemInv, RequestsOK, StructsBased, UpdatesBased
    <2>2. item.content \subseteq item'.content /\ OneLife'
      BY <2>1, ApplyAdds
    <2>3. UNCHANGED <<write, acked>> /\ lateWrites' \subseteq lateWrites
      BY <1>4 DEF ServeLateWrite
    <2>4. AckedEditsPersist' /\ UpdatesBased' /\ GrantsPersist'
      BY <2>2, <2>3 DEF GInv, AckedEditsPersist, UpdatesBased, GrantsPersist
    <2>5. QED
      BY <1>0, <2>2, <2>4 DEF GInv
  <1>5. ASSUME NEW w \in Writer, Return(w)
        PROVE  GInv' /\ item.content \subseteq item'.content
    <2>1. UNCHANGED <<item, lateWrites>>
      BY <1>5 DEF Return
    <2>2. \A v \in Writer : write'[v] = IF v = w THEN IdleWriter ELSE write[v]
      BY <1>5 DEF Return, ItemTypeOK
    <2>3. IdleWriter.phase = "idle" /\ IdleWriter.req.op \notin Updates
      BY DEF IdleWriter, NoWriteRequest, Updates
    <2>4. AckedEditsPersist'
      BY <1>5, <2>1 DEF Return, GInv, AckedEditsPersist, GrantsPersist
    <2>5. UpdatesBased' /\ GrantsPersist' /\ OneLife'
      BY <2>1, <2>2, <2>3 DEF GInv, UpdatesBased, GrantsPersist, OneLife
    <2>6. QED
      BY <1>0, <2>1, <2>4, <2>5 DEF GInv
  <1>6. ASSUME NEW w \in Writer, ResendWrite(w) \/ FailWrite(w)
        PROVE  GInv' /\ item.content \subseteq item'.content
    <2>1. UNCHANGED <<item, acked>> /\ LeaveWriteBehind(w)
      BY <1>6 DEF ResendWrite, FailWrite
    <2>2. \A v \in Writer :
             \/ write'[v] = write[v]
             \/ write'[v].phase = "idle" /\ write'[v].req = NoWriteRequest
             \/ write'[v].phase = "sent" /\ write'[v].req = write[v].req
      BY <1>6 DEF ResendWrite, FailWrite, ItemTypeOK, WriteResent, IdleWriter
    <2>3. NoWriteRequest.op \notin Updates
      BY DEF NoWriteRequest, Updates
    <2>4. \A r \in lateWrites' : r.op \in Updates => r.life # NoLife
      BY <2>1 DEF LeaveWriteBehind, GInv, UpdatesBased
    <2>5. UpdatesBased' /\ GrantsPersist'
      BY <2>1, <2>2, <2>3, <2>4 DEF GInv, UpdatesBased, GrantsPersist
    <2>6. OneLife' /\ AckedEditsPersist'
      BY <2>1 DEF GInv, OneLife, AckedEditsPersist
    <2>7. QED
      BY <1>0, <2>1, <2>5, <2>6 DEF GInv
  <1>7. CASE UNCHANGED itemVars
    BY <1>0, <1>7 DEF itemVars, GInv, OneLife, AckedEditsPersist, UpdatesBased, GrantsPersist
  <1>8. QED
    BY <1>1, <1>2, <1>3, <1>4, <1>5, <1>6, <1>7 DEF ItemNext

\* The stronger invariant holds throughout for guarded callers.
LEMMA SpecGInv ==
    ASSUME Guarded
    PROVE  ItemSpec => []GInv
  <1>1. GInv /\ [ItemNext]_itemVars => GInv'
    BY NextGInv
  <1>2. QED
    BY <1>1, InitGInv, PTL DEF ItemSpec

\* Callers that create with IfNotExists and write back, with the version
\* condition and its increment, only what they read or created never overwrite
\* an edit they have not seen.
THEOREM UpdatesNotLost ==
    ASSUME Guarded
    PROVE  ItemSpec => NoLostUpdate
  <1>1. GInv /\ [ItemNext]_itemVars => GInv'
    BY NextGInv
  <1>2. GInv /\ [ItemNext]_itemVars => [item.content \subseteq item'.content]_itemVars
    BY NextGInv
  <1>3. QED
    BY <1>1, <1>2, InitGInv, PTL DEF ItemSpec, NoLostUpdate

\* Their successful writes stay.
THEOREM AckedEditsStay ==
    ASSUME Guarded
    PROVE  ItemSpec => []AckedEditsPersist
  <1>1. GInv => AckedEditsPersist
    BY DEF GInv
  <1>2. QED
    BY <1>1, SpecGInv, PTL
=============================================================================
