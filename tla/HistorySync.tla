---------------------------- MODULE HistorySync ----------------------------
(***************************************************************************)
(* One sync of the activity history: the stored snapshot is looked up, the *)
(* token is exchanged for a session, the user is read, the history is read *)
(* page by page until the first reported count is reached, and it is       *)
(* normalised, validated and stored. All of it runs under one deadline,    *)
(* and the account may be edited on the server between two pages.          *)
(*                                                                         *)
(* A request is answered in two steps, the status and headers and then the *)
(* body, and the deadline may pass before either.                          *)
(***************************************************************************)
EXTENDS ActivityHistory

CONSTANTS Entries,     \* activities the account may have
          NewEntries,  \* bound: activities an edit may bring in
          Accounts,    \* histories the server may start with, by date
          PageSize,    \* most entries of a page
          MaxEdits,    \* bound: edits of the account in a behaviour
          Counts       \* counts a server of another kind may report

ASSUME SyncAssumption == /\ Entries \subseteq Activities
                         /\ NewEntries \subseteq Entries /\ Accounts \subseteq Seq(Entries)
                         /\ PageSize \in Nat \ {0} /\ MaxEdits \in Nat
                         /\ Counts \subseteq Int

VARIABLES
    server,    \* the account's activities, in the order the server sends
    honest,    \* the server counts what it has
    edits,     \* edits so far
    phase,     \* where the run is
    request,   \* the request it waits for
    expired,   \* its deadline has passed
    got,       \* entries retrieved
    expected,  \* the first count reported, or NoCount
    cache,     \* the normalised history
    stored,    \* what this run stored, or Nothing
    outcome,   \* how the run ended
    listed,    \* history variable: the account when the first page was read
    edited,    \* history variable: kinds of edits since then
    late       \* history variable: a request failed because time ran out
env == <<server, honest, edits>>
run == <<phase, request, expired, got, expected, cache, stored, outcome>>
hist == <<listed, edited, late>>
vars == <<env, run, hist>>

NoCount == -1
Nothing == [activities |-> <<>>, retrieved |-> NoCount, reliability |-> "unavailable"]

Requests == {"auth", "user", "page"}
Phases == {"idle", "prepare", "send", "read", "build", "persist"}
Edits == {"insert", "delete", "change", "reorder"}
Reasons == {"rejected_token", "timeout", "connectivity_problem",
            "unsuccessful_server_response", "incompatible_server_contract",
            "server_replacement_cancelled", "unsupported_activity_history",
            "unsupported_stored_data_version", "incompatible_new_sync_data"}
Caches == [activities : Seq({MapActivity(e) : e \in Entries}), retrieved : Nat \cup {NoCount},
           reliability : {"reliable", "partial", "unavailable"}]

Init ==
    /\ server \in Accounts /\ honest \in BOOLEAN /\ edits = 0
    /\ phase = "idle" /\ request = "auth" /\ expired = FALSE
    /\ got = <<>> /\ expected = NoCount /\ cache = Nothing /\ stored = Nothing
    /\ outcome = "none"
    /\ listed = <<>> /\ edited = {} /\ late = FALSE
-----------------------------------------------------------------------------
(* The account and the clock.                                              *)

ByDate(s) == \A k \in 2..Len(s) : s[k - 1].day <= s[k].day

\* The account becomes s, which is still sorted by date. An edit before the
\* first page is another account at the start, and one after the last page is
\* not seen: neither is a step.
Edit(kind, s) ==
    /\ honest /\ phase = "send" /\ expected # NoCount /\ edits < MaxEdits
    /\ ByDate(s) /\ s # server
    /\ server' = s /\ edits' = edits + 1 /\ edited' = edited \cup {kind}
    /\ UNCHANGED <<honest, run, listed, late>>

Insert == \E e \in NewEntries, k \in 1..(Len(server) + 1) : Edit("insert", InsertAt(server, k, e))
Delete == \E k \in DOMAIN server : Edit("delete", RemoveAt(server, k))
Change == \E k \in DOMAIN server, e \in NewEntries : Edit("change", [server EXCEPT ![k] = e])

\* Activities of one date come in any order, not the same from page to page.
Reorder == \E k \in DOMAIN server \ {1} :
               Edit("reorder", [server EXCEPT ![k] = server[k - 1], ![k - 1] = server[k]])

Expire ==
    /\ phase # "idle" /\ ~expired
    /\ expired' = TRUE
    /\ UNCHANGED <<env, phase, request, got, expected, cache, stored, outcome, hist>>
-----------------------------------------------------------------------------
(* Steps of the run.                                                       *)

Ends(reason) == /\ phase' = "idle" /\ outcome' = reason
                /\ UNCHANGED <<env, request, expired, got, expected, cache, listed, edited>>

Fails(reason) == Ends(reason) /\ UNCHANGED <<stored, late>>

\* Nothing is kept from one run to the next (newSyncAttemptState): one is enough.
Start ==
    /\ phase = "idle" /\ outcome = "none"
    /\ phase' = "prepare"
    /\ UNCHANGED <<env, request, expired, got, expected, cache, stored, outcome, hist>>

\* Replacing another server's snapshot is not confirmed, or the stored
\* snapshot cannot be looked up or opened: always so once time is up.
PrepareFails ==
    /\ phase = "prepare"
    /\ \E reason \in {"server_replacement_cancelled", "unsupported_stored_data_version",
                      "incompatible_new_sync_data"} :
          /\ expired => reason # "unsupported_stored_data_version"
          /\ Fails(reason)

\* Mutant: the session is told nothing of the request it waits for.
SendLoses(next) == /\ phase' = "send" /\ request' = "none"
                   /\ UNCHANGED <<env, expired, cache, stored, outcome, edited, late>>

Send(next) == /\ phase' = "send" /\ request' = next
              /\ UNCHANGED <<env, expired, cache, stored, outcome, edited, late>>

Prepare == /\ phase = "prepare" /\ ~expired
           /\ Send("auth") /\ UNCHANGED <<got, expected, listed>>

\* classifyAuthStatus, classifyUserStatus, classifyActivitiesStatus and the
\* content type of a success.
Statuses == {"200", "200 not JSON", "400", "401", "403", "404", "500"}
StatusReason(status) ==
    IF <<request, status>> = <<"auth", "403">> THEN "rejected_token"
    ELSE IF \/ <<request, status>> \in {<<"user", "404">>, <<"page", "400">>}
            \/ status = "200 not JSON"
    THEN "incompatible_server_contract"
    ELSE "unsuccessful_server_response"

Accepted ==
    /\ phase = "send" /\ ~expired
    /\ phase' = "read"
    /\ UNCHANGED <<env, request, expired, got, expected, cache, stored, outcome, hist>>

Refused ==
    /\ phase = "send" /\ ~expired
    /\ \E status \in Statuses \ {"200"} : Fails(StatusReason(status))

Unreachable ==
    /\ phase = "send" /\ ~expired
    /\ Fails("connectivity_problem")

\* classifyTransportFailure: the request is given up.
TimesOut ==
    /\ phase = "send" /\ expired
    /\ Ends("timeout") /\ late' = TRUE
    /\ UNCHANGED stored

\* Mutant: the deadline does not reach the body.
BodyWaits == /\ phase = "read" /\ expired
             /\ UNCHANGED vars

\* The body is given up, and reads as one that is not JSON.
BodyTimesOut ==
    /\ phase = "read" /\ expired
    /\ Ends("incompatible_server_contract") /\ late' = TRUE
    /\ UNCHANGED stored

\* The body is not JSON, or the session token or the settings are missing.
Undecodable ==
    /\ phase = "read"
    /\ Fails("incompatible_server_contract")

ReadAuth == /\ phase = "read" /\ request = "auth"
            /\ Send("user") /\ UNCHANGED <<got, expected, listed>>
ReadUser == /\ phase = "read" /\ request = "user"
            /\ Send("page") /\ UNCHANGED <<got, expected, listed>>

\* The server's answer to skip = Len(got): a count, and entries from there on,
\* none when there are none. It need not keep to the page size asked for.
Claims == IF honest THEN {Len(server)} ELSE Counts
Pages == {SubSeq(server, Len(got) + 1, k) :
             k \in {j \in 0..Len(server) : j <= Len(got) + PageSize + 1}}

FirstCount(count) == IF expected = NoCount THEN count ELSE expected

\* Mutants: the count is taken anew from every page, and more may come than
\* was reported.
ContradictsNoLonger(count, page) ==
    \/ count = 0 /\ page # <<>>
    \/ count # 0 /\ (page = <<>> \/ Len(got) + Len(page) > count)
ContradictsUnbounded(count, page) ==
    \/ count # FirstCount(count)
    \/ count = 0 /\ page # <<>>
    \/ count # 0 /\ page = <<>>

\* appendActivityPage and finalizeEmptyActivityHistory: what refuses a page.
Contradicts(count, page) ==
    \/ count # FirstCount(count)
    \/ count = 0 /\ page # <<>>
    \/ count # 0 /\ (page = <<>> \/ Len(got) + Len(page) > count)

\* One turn of the loop of FetchActivitiesHistory.
ReadPage ==
    /\ phase = "read" /\ request = "page"
    /\ \E count \in Claims, page \in Pages :
          /\ ~Contradicts(count, page)
          /\ expected' = count
          /\ got' = got \o page
          /\ listed' = IF expected = NoCount THEN server ELSE listed
          /\ phase' = IF Len(got') >= count THEN "build" ELSE "send"
    /\ UNCHANGED <<env, request, expired, cache, stored, outcome, edited, late>>

RefusePage ==
    /\ phase = "read" /\ request = "page"
    /\ \E count \in Claims, page \in Pages : Contradicts(count, page)
    /\ Fails("incompatible_server_contract")

\* The entry checks, the mapper, the normaliser and the validator.
Unreadable == \E a \in Contents(got) : a.shape = "unreadable"
Records == MapActivities(got)
Supported == StableOrder(InOrder(Records)) /\ Validates(Normalised(Records).activities)

Build ==
    /\ phase = "build" /\ ~Unreadable /\ Supported
    /\ cache' = Normalised(Records)
    /\ phase' = "persist"
    /\ UNCHANGED <<env, request, expired, got, expected, stored, outcome, hist>>

RefuseHistory ==
    /\ phase = "build"
    /\ IF Unreadable THEN Fails("incompatible_server_contract")
       ELSE ~Supported /\ Fails("unsupported_activity_history")

Persist ==
    /\ phase = "persist" /\ ~expired
    /\ stored' = cache
    /\ Ends("activity_data_stored") /\ UNCHANGED late

\* A write that fails may have replaced the file all the same.
PersistFails ==
    /\ phase = "persist"
    /\ \E reason \in {"unsupported_stored_data_version", "incompatible_new_sync_data"} :
          /\ expired => reason = "incompatible_new_sync_data"
          /\ stored' \in IF expired THEN {stored} ELSE {stored, cache}
          /\ Ends(reason) /\ UNCHANGED late

Next == \/ Start \/ Prepare \/ PrepareFails
        \/ Accepted \/ Refused \/ Unreachable \/ TimesOut \/ BodyTimesOut \/ Undecodable
        \/ ReadAuth \/ ReadUser \/ ReadPage \/ RefusePage
        \/ Build \/ RefuseHistory \/ Persist \/ PersistFails
        \/ Insert \/ Delete \/ Change \/ Reorder \/ Expire

Spec == Init /\ [][Next]_vars

\* Only the clock and the program itself are sure to go on: what it does between
\* two requests, and giving a request up. A server may leave a request, or the
\* body of its answer, hanging for ever.
Leaves(S) == phase \in S /\ phase' \in Phases \ {phase}
FairSpec == /\ Spec
            /\ WF_vars(Expire)
            /\ WF_phase(Leaves({"prepare", "build", "persist"}))
            /\ WF_vars(TimesOut \/ BodyTimesOut)
-----------------------------------------------------------------------------
(* Properties.                                                             *)

TypeOK ==
    /\ server \in Seq(Entries) /\ honest \in BOOLEAN /\ edits \in 0..MaxEdits
    /\ phase \in Phases /\ request \in Requests /\ expired \in BOOLEAN
    /\ got \in Seq(Entries) /\ expected \in Int
    /\ cache \in Caches /\ stored \in Caches
    /\ outcome \in Reasons \cup {"none", "activity_data_stored"}
    /\ listed \in Seq(Entries) /\ edited \subseteq Edits /\ late \in BOOLEAN

Retrieved == expected # NoCount /\ Len(got) = expected
Done(reason) == phase = "idle" /\ outcome = reason

\* What a sync stores depends on which activities were retrieved and on nothing
\* else: not on their order, the pages they came in or the copies of each. It is
\* stored exactly when the contents alone are supported, each once and in order
\* (Normalize, Validate).
StoredByContents ==
    /\ Done("activity_data_stored") =>
          LET s == stored.activities IN
          /\ SupportedContents(Hashes(Records))
          /\ Hashes(s) = Hashes(Records)
          /\ \A k \in 2..Len(s) : Precedes(s[k - 1], s[k])
          /\ stored.retrieved = Len(got)
          /\ stored.reliability = ReliabilityOf(Hashes(Records))
    /\ Done("unsupported_activity_history") => ~SupportedContents(Hashes(Records))

\* A history retrieved in whole is the account as it was when the first page was
\* read, unless activities were both added and deleted between two pages, or
\* changed or reordered in place: the count gives every other edit away
\* (updateExpectedActivityCount).
RetrievedAsListed ==
    honest /\ Retrieved =>
        \/ got = listed
        \/ {"insert", "delete"} \subseteq edited
        \/ edited \cap {"change", "reorder"} # {}

\* Nothing is stored of a history that was not retrieved to the count reported
\* first, whatever counts and pages the server sends, and a run that ends before
\* it wrote leaves nothing behind.
StoredWhole == stored # Nothing => Retrieved /\ stored.retrieved = expected

\* Holdings are checked by symbol and a report groups by asset identity. When
\* the two go together no identity is ever sold beyond what it holds, at no
\* point of the stored order (applyRunningQuantity).
SymbolsAreIdentities(s) == \A j, k \in DOMAIN s : s[j].symbol = s[k].symbol <=> s[j].asset = s[k].asset
HeldOfIdentity(s, k) ==
    SumFunctionOnSet([j \in DOMAIN s |-> Signed(s[j])], {j \in 1..k : s[j].asset = s[k].asset})
NoIdentityOversold ==
    SymbolsAreIdentities(got) =>
        \A k \in DOMAIN stored.activities : HeldOfIdentity(stored.activities, k) >= 0

\* A run whose time ran out while it waited for the server says so.
TimeoutReported == phase = "idle" /\ late => outcome = "timeout"

\* Every sync ends, also when the server never answers (context.WithTimeout).
RunEnds == phase # "idle" ~> phase = "idle"
=============================================================================
