------------------------------- MODULE PagedRead -------------------------------
(***************************************************************************)
(* Reads of more than one page: All and Count (the executors' pagers),     *)
(* AllPaginated with a caller that follows the cursor, ScanAllSegments     *)
(* with a goroutine per segment, All with retries, and the aggregates over *)
(* All.  Others write to the table between two pages.                      *)
(*                                                                         *)
(* A row is a number; DynamoDB reads rows in increasing order.             *)
(***************************************************************************)
EXTENDS CursorCodec, Aggregates

CONSTANTS
    Rows,        \* rows the table may hold
    Starting,    \* sets of rows it holds when the read starts
    Matching,    \* rows that satisfy the filter
    KeyTag,      \* type of the sort key: "S", "N" or "B"
    Amount, Team,   \* fields of the rows, functions on Rows
    Segments,    \* totalSegments
    Limits,      \* Limit options, 0 for none
    PageRows,    \* rows DynamoDB evaluates in a page at most
    ReadRetries, \* WithRetry
    MaxWrites    \* bound on the writes of others

ASSUME ReadAssumption ==
    /\ Rows \subseteq Nat \ {0} /\ IsFiniteSet(Rows) /\ Starting \subseteq SUBSET Rows
    /\ KeyTag \in {"S", "N", "B"}
    /\ Segments \in Nat \ {0} /\ Limits \subseteq Nat /\ PageRows \in Nat \ {0}
    /\ ReadRetries \in Nat /\ MaxWrites \in Nat
    /\ \A r \in Rows : Amount[r] \in Int \ {Nil} /\ Team[r] \in Int \ {Nil}

VARIABLES
    req,       \* mode, executor and limit of the read
    present,   \* rows in the table
    steady,    \* rows that were there from the start of the read till now
    ever,      \* rows that were there at some time of the read
    page,      \* page[s]: state, start key and items of segment s
    tries,     \* attempts of allWithRetry
    writes,
    combined,  \* what the caller gets
    readResult \* "unused", "running", "nil", "error"

readVars == <<req, present, steady, ever, page, tries, writes, combined, readResult>>

Modes == {"all", "count", "pages", "segments"}
Fresh == [at |-> "fetch", start |-> <<>>, items |-> <<>>]

\* The segments of a scan; the other reads have one.
Parts == 1 .. (IF req.mode = "segments" THEN Segments ELSE 1)

ReadInit ==
    /\ req \in {r \in [mode : Modes, executor : {"session", "main"}, limit : Limits] :
                  r.mode = "segments" => r.limit = 0}
    /\ present \in Starting /\ steady = present /\ ever = present
    /\ page = [s \in Parts |-> Fresh]
    /\ tries = 0 /\ writes = 0 /\ combined = <<>> /\ readResult = "running"

\* No read is under way: for modules that compose this one with others.
ReadUnused ==
    /\ req = [mode |-> "none"] /\ present = {} /\ steady = {} /\ ever = {} /\ page = <<>>
    /\ tries = 0 /\ writes = 0 /\ combined = <<>> /\ readResult = "unused"

-----------------------------------------------------------------------------
(* DynamoDB.                                                               *)

KeyOf(r) == [pk |-> AV("S", 0), sk |-> AV(KeyTag, r)]
After(start) == IF start = <<>> THEN 0
                ELSE CHOOSE r \in Rows : KeyOf(r) = start

\* The hash of the key puts a row into a segment.
InSegment(r, s) == req.mode = "segments" => r % Segments = s - 1

\* The pages that may come after a start key: the rows that are evaluated, the first ones
\* ahead, and the one whose key is returned as the last, 0 for none.  Without a limit or a
\* full page the last key is left out at the end.
Answers(s, start, limit) ==
    LET ahead == {r \in present : r > After(start) /\ InSegment(r, s)}
        cap == IF limit > 0 /\ limit < PageRows THEN limit ELSE PageRows
    IN  {a \in [rows : SUBSET ahead, last : ahead \union {0}] :
            /\ \A r \in a.rows, q \in ahead : q < r => q \in a.rows
            /\ Cardinality(a.rows) <= cap /\ (a.rows = {} => ahead = {})
            /\ a.last # 0 => a.last \in a.rows /\ \A r \in a.rows : r <= a.last
            /\ a.last = 0 => a.rows = ahead /\ (a.rows # {} => Cardinality(a.rows) # limit)}

\* Rows in the order of their keys.
InOrder(S) == {q \in [1 .. Cardinality(S) -> S] : \A i, j \in DOMAIN q : i < j => q[i] < q[j]}
LastKey(answer) == IF answer.last = 0 THEN <<>> ELSE KeyOf(answer.last)

\* Others put and delete rows.
OtherWrites(r) ==
    /\ readResult = "running" /\ writes < MaxWrites /\ writes' = writes + 1
    /\ IF r \in present THEN present' = present \ {r} /\ UNCHANGED ever
       ELSE present' = present \union {r} /\ ever' = ever \union {r}
    /\ steady' = steady \cap present'
    /\ UNCHANGED <<req, page, tries, combined, readResult>>

-----------------------------------------------------------------------------
(* The client.                                                             *)

\* The limit of a request: the session's count input has none, a page always has one.
SessionLimit == IF req.mode = "count" THEN 0 ELSE req.limit
MainLimit == req.limit
PageLimit == IF req.limit = 0 THEN 100 ELSE req.limit

Limit == IF req.mode = "pages" THEN PageLimit
         ELSE IF req.executor = "session" THEN SessionLimit ELSE MainLimit

Enough(found) == Limit > 0 /\ Len(found) >= Limit
NextPage(done, next, items) ==
    [at |-> IF done \/ next = <<>> THEN "done" ELSE "fetch", start |-> next, items |-> items]

\* collectPaginatedItems goes on to the limit and cuts what is above it.
CollectItems(found, next) ==
    NextPage(Enough(found), next, IF Enough(found) THEN SubSeq(found, 1, Limit) ELSE found)

\* collectPaginatedCounts goes on to the end.
CollectCounts(found, next) == NextPage(FALSE, next, found)

\* executePagedItems goes on to the limit and keeps what is above it.
ExecutePagedItems(found, next) == NextPage(Enough(found), next, found)

\* One page for AllPaginated, whose caller asks for the next one.
SessionSinglePage(found, next) == NextPage(FALSE, next, found)
MainSinglePage(found, next) == NextPage(FALSE, next, found)

\* What an executor does with a page.
PageRead(found, next) ==
    IF req.executor = "session"
    THEN IF req.mode = "pages" THEN SessionSinglePage(found, next)
         ELSE IF req.mode = "count" THEN CollectCounts(found, next) ELSE CollectItems(found, next)
    ELSE IF req.mode = "pages" THEN MainSinglePage(found, next) ELSE ExecutePagedItems(found, next)

\* The start key of the next page.  AllPaginated hands it to the caller as a cursor.
NextStart(answer) ==
    IF req.mode # "pages" \/ answer.last = 0 THEN LastKey(answer)
    ELSE DecodeCursor(EncodeCursor(LastKey(answer), "", "asc"))

\* One page of a segment: ExecuteQuery, ExecuteScan and their paginated forms.
FetchPage(s) ==
    /\ page[s].at = "fetch"
    /\ \E answer \in Answers(s, page[s].start, Limit) : \E rows \in InOrder(answer.rows \cap Matching) :
         page' = [page EXCEPT ![s] = PageRead(page[s].items \o rows, NextStart(answer))]
    /\ UNCHANGED <<req, present, steady, ever, tries, writes, combined, readResult>>

Moved(s, place) == [page EXCEPT ![s] = [page[s] EXCEPT !.at = place]]

\* A request fails.
FetchFails(s) ==
    /\ page[s].at = "fetch"
    /\ page' = Moved(s, "failed")
    /\ UNCHANGED <<req, present, steady, ever, tries, writes, combined, readResult>>

\* Mutant of Retried: what the failed attempt had read is kept.
RetriedKeeping == [page EXCEPT ![1].at = "fetch", ![1].start = <<>>]

\* allWithRetry starts from an empty slice.
Retried == [page EXCEPT ![1] = Fresh]

\* Mutant of AllWithRetry: attempts are not counted.
AllWithRetryForever ==
    /\ readResult = "running" /\ req.mode = "all" /\ page[1].at = "failed"
    /\ page' = Retried
    /\ UNCHANGED <<req, present, steady, ever, tries, writes, combined, readResult>>

\* allWithRetry: an error, and an empty answer, are tried again.
AllWithRetry ==
    /\ readResult = "running" /\ req.mode = "all" /\ tries < ReadRetries
    /\ page[1].at = "failed" \/ (page[1].at = "done" /\ page[1].items = <<>>)
    /\ tries' = tries + 1 /\ page' = Retried
    /\ UNCHANGED <<req, present, steady, ever, writes, combined, readResult>>

\* writeCountResult; the main executor, which reads items, cannot write a count.
WriteResult == IF req.mode = "count" /\ req.executor = "main" THEN "error" ELSE "nil"

\* ScanAllSegments takes the result of a segment from the channel, in the order they come.
CollectSegment(s) ==
    /\ readResult = "running" /\ req.mode = "segments" /\ page[s].at = "done"
    /\ page' = Moved(s, "collected")
    /\ combined' = combined \o page[s].items
    /\ UNCHANGED <<req, present, steady, ever, tries, writes, readResult>>

\* The read returns, ScanAllSegments at the first error or after the last result.
Return ==
    /\ readResult = "running"
    /\ \/ /\ \E s \in DOMAIN page : page[s].at = "failed"
          /\ req.mode = "all" => tries = ReadRetries
          /\ readResult' = "error" /\ combined' = <<>>
       \/ /\ req.mode # "segments" /\ page[1].at = "done"
          /\ (req.mode = "all" /\ page[1].items = <<>>) => tries = ReadRetries
          /\ readResult' = WriteResult /\ combined' = page[1].items
       \/ /\ req.mode = "segments" /\ \A s \in DOMAIN page : page[s].at = "collected"
          /\ readResult' = "nil" /\ UNCHANGED combined
    /\ UNCHANGED <<req, present, steady, ever, page, tries, writes>>

ReadNext ==
    \/ \E r \in Rows : OtherWrites(r)
    \/ \E s \in DOMAIN page : FetchPage(s) \/ FetchFails(s) \/ CollectSegment(s)
    \/ AllWithRetry \/ Return

ReadSpec == ReadInit /\ [][ReadNext]_readVars

\* The caller's goroutine and the segments' go on.
ReadFairness ==
    /\ \A s \in 1 .. Segments : WF_readVars(s \in DOMAIN page /\ (FetchPage(s) \/ FetchFails(s)))
    /\ WF_readVars(AllWithRetry \/ Return \/ \E s \in DOMAIN page : CollectSegment(s))

-----------------------------------------------------------------------------
(* Properties.                                                             *)

\* Every page loop (pagination.go, collectPaginatedItems, executePagedItems), while
\* others write: no row is returned twice, none that was never there or does not match,
\* and, unless a limit ended the read, none is missed that was there all the time.
EachRowOnce ==
    readResult = "nil" =>
        /\ IsInjective(combined)
        /\ ToSet(combined) \subseteq Matching \cap ever
        /\ (req.mode # "all" \/ Limit = 0 \/ Len(combined) < Limit) =>
              (steady \cap Matching) \subseteq ToSet(combined)

\* A read ends though others keep writing and requests fail.
ReadEnds == (readResult = "running") ~> (readResult \in {"nil", "error"})

Items == [i \in DOMAIN combined |-> [amount |-> Amount[combined[i]], team |-> Team[combined[i]]]]
Values == {Items[i].amount : i \in DOMAIN Items} \ {0}

\* The sums of the groups, added up.
GroupSums(items, groupField, field) ==
    LET groups == Groups(items, groupField)
        keys == SetToSeq(DOMAIN groups)
    IN  Total([k \in DOMAIN keys |-> SumOf(items, groups[keys[k]], field)], Len(keys))

\* aggregates.go over what All returned: the extremes bound every value that is set and
\* are values, the groups' sums add up to that of the items that have a group, and HAVING
\* keeps a group only by its own items.
AggregatesAgree ==
    (readResult = "nil" /\ req.mode = "all") =>
        LET r == Aggregate(Items, "amount")
            grouped == {i \in DOMAIN Items : Items[i].team # 0}
        IN  /\ Values = {} => r.min = Nil /\ r.max = Nil
            /\ Values # {} => /\ {r.min, r.max} \subseteq Values
                              /\ \A v \in Values : r.min <= v /\ v <= r.max
            /\ CountDistinct(Items, "amount") = Cardinality(Values)
            /\ SumOf(Items, grouped, "amount") = GroupSums(Items, "team", "amount")
            /\ \A f \in {"SUM", "AVG", "MAX"} : \A key \in HavingAbove(Items, "team", f, "amount", 1) :
                  \E i \in DOMAIN Items : Items[i].team = key /\ Items[i].amount > 0
            /\ \A key \in HavingAbove(Items, "team", "COUNT(*)", "amount", 1) :
                  \E i, j \in DOMAIN Items : i # j /\ Items[i].team = key /\ Items[j].team = key
=============================================================================
