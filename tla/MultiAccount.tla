---------------------------- MODULE MultiAccount ----------------------------
(***************************************************************************)
(* Connections to partner accounts, internal/theorydb/multiaccount.go:     *)
(* goroutines call Partner, AddPartner and RemovePartner while a ticker    *)
(* renews cached connections in goroutines of its own.                     *)
(*                                                                         *)
(* A build is a call of createPartnerDB under way, with the configuration  *)
(* it was given.  Time is what is left of each cached entry, in ticks.     *)
(***************************************************************************)
EXTENDS Integers, FiniteSets

CONSTANTS
    User,            \* goroutines that call Partner, AddPartner, RemovePartner
    Partners,        \* partner IDs
    Configs,         \* AccountConfig values
    RefreshEvery,    \* period of the ticker, five minutes
    SessionDuration, \* of every configuration
    MaxBuilds        \* bound: builds under way

\* The margins of the code: an entry expires RefreshEvery before its session, and is
\* renewed in the last 2 * RefreshEvery of its life.  STS grants no session of less than
\* 15 minutes, three periods of the ticker.
ASSUME AccountAssumption ==
    /\ RefreshEvery \in Nat \ {0}
    /\ SessionDuration \in Nat /\ SessionDuration >= 3 * RefreshEvery

VARIABLES
    accounts,   \* accounts[p]: the configuration of p, NoConfig for none
    connection, \* connection[p]: the entry of the cache
    builds,     \* createPartnerDB calls under way
    user,       \* user[u]: where goroutine u is, and for which partner
    visit,      \* entries the refresh under way has still to look at
    phase,      \* ticks since the ticker fired
    closedDB,   \* Close was called
    missed,     \* missed[p]: a renewal of p failed since the entry was stored
    removed,    \* removed[p]: RemovePartner was the last change to p, and has returned
    overlapped  \* overlapped[p]: a build of p was under way when it returned

accountVars ==
    <<accounts, connection, builds, user, visit, phase, closedDB, missed, removed, overlapped>>

NoConfig == "none"
NoEntry == [cfg |-> NoConfig, left |-> -1]
AtRest == [at |-> "idle", p |-> NoConfig]
Renewal == "refresh"

AccountInit ==
    /\ accounts \in [Partners -> Configs]
    /\ connection = [p \in Partners |-> NoEntry]
    /\ builds = {}
    /\ user = [u \in User |-> AtRest]
    /\ visit = {} /\ phase = 0 /\ closedDB = FALSE
    /\ missed = [p \in Partners |-> FALSE]
    /\ removed = [p \in Partners |-> FALSE]
    /\ overlapped = [p \in Partners |-> FALSE]

Build(p, cfg, by) == [p |-> p, cfg |-> cfg, by |-> by, age |-> 0]
Under(p) == {b \in builds : b.p = p}

-----------------------------------------------------------------------------
(* Partner and createPartnerDB.                                            *)

\* The cache has an entry that is not expired, or the accounts are looked at next.
Partner(u, p) ==
    /\ user[u].at = "idle"
    /\ IF connection[p].left >= 0 THEN UNCHANGED user
       ELSE user' = [user EXCEPT ![u] = [at |-> "lookup", p |-> p]]
    /\ UNCHANGED <<accounts, connection, builds, visit, phase, closedDB, missed, removed, overlapped>>

\* The account under the read lock: "unknown partner", or a build.
Lookup(u) ==
    LET p == user[u].p
    IN  /\ user[u].at = "lookup"
        /\ IF accounts[p] = NoConfig
           THEN user' = [user EXCEPT ![u] = AtRest] /\ UNCHANGED builds
           ELSE /\ Cardinality(builds) < MaxBuilds
                /\ builds' = builds \union {Build(p, accounts[p], u)}
                /\ user' = [user EXCEPT ![u] = [at |-> "building", p |-> p]]
        /\ UNCHANGED <<accounts, connection, visit, phase, closedDB, missed, removed, overlapped>>

\* The goroutine of a build ends: a caller's returns to its caller.
Finish(b) ==
    /\ builds' = builds \ {b}
    /\ user' = IF b.by = Renewal THEN user ELSE [user EXCEPT ![b.by] = AtRest]
    /\ UNCHANGED <<accounts, visit, phase, closedDB, removed, overlapped>>

\* time.Now().Add(sessionDuration - 5*time.Minute)
Lifetime == SessionDuration - RefreshEvery

\* createPartnerDB stores the entry, whatever became of the account meanwhile.
CreatePartnerDB(b) ==
    /\ b \in builds
    /\ connection' = [connection EXCEPT ![b.p] = [cfg |-> b.cfg, left |-> Lifetime]]
    /\ missed' = [missed EXCEPT ![b.p] = FALSE]
    /\ Finish(b)

CreateFails(b) ==
    /\ b \in builds
    /\ missed' = [missed EXCEPT ![b.p] = missed[b.p] \/ b.by = Renewal]
    /\ UNCHANGED connection
    /\ Finish(b)

-----------------------------------------------------------------------------
(* AddPartner and RemovePartner.                                           *)

\* AddPartner changes the accounts and leaves a cached connection alone.
AddPartner(u, p, cfg) ==
    /\ user[u].at = "idle"
    /\ accounts' = [accounts EXCEPT ![p] = cfg]
    /\ removed' = [removed EXCEPT ![p] = FALSE]
    /\ UNCHANGED <<connection, builds, user, visit, phase, closedDB, missed, overlapped>>

\* RemovePartner deletes the account under the lock ...
RemovePartner(u, p) ==
    /\ user[u].at = "idle"
    /\ accounts' = [accounts EXCEPT ![p] = NoConfig]
    /\ user' = [user EXCEPT ![u] = [at |-> "clearing", p |-> p]]
    /\ UNCHANGED <<connection, builds, visit, phase, closedDB, missed, removed, overlapped>>

\* Mutant of ClearCache: the entry is left to expire.
ClearCacheLater(p) == connection

ClearCache(p) == [connection EXCEPT ![p] = NoEntry]

\* ... and then the entry of the cache.
ClearConnection(u) ==
    LET p == user[u].p
    IN  /\ user[u].at = "clearing"
        /\ connection' = ClearCache(p)
        /\ user' = [user EXCEPT ![u] = AtRest]
        /\ removed' = [removed EXCEPT ![p] = accounts[p] = NoConfig]
        /\ overlapped' = [overlapped EXCEPT ![p] = Under(p) # {}]
        /\ missed' = [missed EXCEPT ![p] = FALSE]
        /\ UNCHANGED <<accounts, builds, visit, phase, closedDB>>

-----------------------------------------------------------------------------
(* The refresh routine.                                                    *)

\* Mutant of Due: renewed from the moment of its expiry.
DueWhenExpired(p) == connection[p].left < 0

\* now.After(entry.expiry.Add(-10 * time.Minute))
Due(p) == connection[p].left < 2 * RefreshEvery

\* refreshExpiredCredentials looks at the entries one by one and renews each with the
\* configuration in the entry.
Visit(p) ==
    /\ p \in visit
    /\ visit' = visit \ {p}
    /\ IF connection[p] # NoEntry /\ Due(p)
       THEN /\ Cardinality(builds) < MaxBuilds
            /\ builds' = builds \union {Build(p, connection[p].cfg, Renewal)}
       ELSE UNCHANGED builds
    /\ UNCHANGED <<accounts, connection, user, phase, closedDB, missed, removed, overlapped>>

Aged(b) == [p |-> b.p, cfg |-> b.cfg, by |-> b.by, age |-> b.age + 1]
Older(e) == [cfg |-> e.cfg, left |-> e.left - 1]

\* Time passes: entries age, and the ticker fires until Close.  A build takes no longer
\* than one period of the ticker, and a refresh no time to look at its entries.
Pass ==
    /\ visit = {}
    /\ \A b \in builds : b.age < RefreshEvery
    /\ builds' = {Aged(b) : b \in builds}
    /\ connection' = [p \in Partners |-> IF connection[p].left < 0 THEN connection[p]
                                          ELSE Older(connection[p])]
    /\ phase' = IF phase + 1 = RefreshEvery THEN 0 ELSE phase + 1
    /\ visit' = IF phase' = 0 /\ ~closedDB THEN Partners ELSE {}
    /\ UNCHANGED <<accounts, user, closedDB, missed, removed, overlapped>>

\* Close stops the ticker and the routine; a second Close panics on the closed channel.
CloseDB ==
    /\ ~closedDB
    /\ closedDB' = TRUE
    /\ UNCHANGED <<accounts, connection, builds, user, visit, phase, missed, removed, overlapped>>

AccountNext ==
    \/ \E u \in User, p \in Partners :
          \/ Partner(u, p) \/ RemovePartner(u, p)
          \/ \E cfg \in Configs : AddPartner(u, p, cfg)
    \/ \E u \in User : Lookup(u) \/ ClearConnection(u)
    \/ \E b \in builds : CreatePartnerDB(b) \/ CreateFails(b)
    \/ \E p \in Partners : Visit(p)
    \/ Pass \/ CloseDB

AccountSpec == AccountInit /\ [][AccountNext]_accountVars

-----------------------------------------------------------------------------
(* Properties.                                                             *)

\* RemovePartner: a partner that was removed while no build for it was under way has no
\* connection until it is added again, although callers looked for it before, and
\* although the refresh renews what it finds.  (A build that was under way stores its
\* entry afterwards, and the refresh then renews that entry for ever.)
RemovedStaysOut ==
    \A p \in Partners : (removed[p] /\ ~overlapped[p]) => connection[p] = NoEntry

\* "RemovePartner removes a partner and clears its cached connection", as multiaccount.go
\* says of it: whatever was under way, the partner has no connection until it is added again.
RemovedForGood == \A p \in Partners : removed[p] => connection[p] = NoEntry

\* The margins of the refresh routine: a cached connection does not expire before it is
\* renewed, as long as renewals do not fail and the routine is not closed.
RenewedInTime ==
    \A p \in Partners :
        (connection[p] # NoEntry /\ connection[p].left < 0) => (missed[p] \/ closedDB)
=============================================================================
