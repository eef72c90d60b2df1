----------------------------- MODULE Deliveries -----------------------------
(***************************************************************************)
(* Notifications sent outside: the outbox, its connectors and the results  *)
(* of updates.                                                             *)
(*                                                                         *)
(* A check of the worker's update results (services/update-watch.ts)       *)
(* dispatches each one newer than its mark.  A dispatch selects connectors *)
(* (services/notifications.ts) and inserts one row for each; a tick of the *)
(* outbox (services/notification-queue.ts) makes one attempt per due row.  *)
(* Administrators edit connectors (services/notification-connectors.ts,    *)
(* trpc/routers/notifications.ts): the form shows secrets as masks, and a  *)
(* mask sent back stands for the secret stored.                            *)
(*                                                                         *)
(* Time is relative: a row counts down to its next attempt, and the        *)
(* age of a row sent is the time since its sentAt, which is the start of   *)
(* the tick that sent it.                                                  *)
(***************************************************************************)
EXTENDS Naturals, Sequences, FiniteSets, FiniteSetsExt

CONSTANTS Connectors, \* ids of connectors
          Hosts,      \* destinations: an origin, or an SMTP server with its user
          Limit,      \* rateLimitPerMinute, the same for all
          Window,     \* a minute
          Delay,      \* RETRY_DELAYS_MS
          MaxAttempts, Batch, QueueCap, Keep,
          CacheTtl,   \* RULES_CACHE_TTL_MS
          TickTime,   \* bound: how long a tick takes at most
          MaxResults, \* bound: results of updates
          MaxTold,    \* bound: dispatches of results
          MaxUpsets   \* bound: edits by administrators and faults (crashes, failed writes
                      \* to the database or to the mark, answers lost), together

ASSUME DeliveriesAssumption ==
    /\ IsFiniteSet(Connectors) /\ Connectors \subseteq Nat
    /\ Hosts \subseteq Nat \ {0} /\ Hosts # {}
    /\ {Limit, Window, MaxAttempts, Batch, QueueCap, Keep} \subseteq Nat \ {0}
    /\ {Delay, CacheTtl, TickTime, MaxResults, MaxTold, MaxUpsets} \subseteq Nat

VARIABLES
    conn,     \* the connectors stored
    rule,     \* the connectors the rules target
    cache,    \* rulesCache: the connectors an event went to when it was filled
    rows,     \* NotificationDelivery, oldest first
    sends,    \* history: the attempts made of each row, and whether one was received
    tick,     \* runDeliveryTick
    disp,     \* the dispatches under way, by number
    results,  \* the worker's results: does each one alert?
    mark,     \* .update-result-notified.json
    check,    \* the check of the results
    told,     \* history: the dispatches of each result
    edits, faults

outbox == <<rows, sends, tick>>
watch == <<results, mark, check, told>>
admin == <<conn, rule, edits>>
vars == <<conn, rule, cache, rows, sends, tick, disp, results, mark, check, told,
          edits, faults>>

Upset == edits + faults < MaxUpsets
Fault == Upset /\ faults' = faults + 1
Edit == Upset /\ edits' = edits + 1
Oldest == Window + TickTime

\* secret: the destination it was entered for, 0 when there is none
NoConnector == [kind |-> "none", enabled |-> FALSE, host |-> 0, secret |-> 0]
Stored(c) == conn[c].kind # "none"
Idle == [at |-> "idle", batch |-> <<>>, ok |-> FALSE, run |-> 0]
NoCache == [age |-> CacheTtl, ids |-> {}]
NoDispatch == [at |-> "free", ids |-> {}, over |-> 0, drop |-> {}]

----------------------------------------------------------------------------
(* The connector form *)

\* MUTANT: a masked header is kept whatever the destination.
MergeAnyOrigin(prev, in) ==
    LET host == IF in.masked THEN prev.host ELSE in.host IN
    IF \/ in.masked /\ (prev.kind # "webhook" \/ in.host \notin {0, prev.host})
       \/ in.field = "mask" /\ (prev.kind # "webhook" \/ prev.secret = 0)
    THEN {}
    ELSE {[host |-> host, secret |-> CASE in.field = "mask" -> prev.secret
                                       [] in.field = "new" -> host
                                       [] OTHER -> 0]}

\* mergeConnectorInput of a webhook: a masked URL names its origin or nothing, a header
\* is a mask, a new value or empty.  No result when the form is refused.
Merge(prev, in) ==
    LET known == prev.kind = "webhook"
        host == IF in.masked THEN prev.host ELSE in.host
    IN
    IF \/ in.masked /\ (~known \/ in.host \notin {0, prev.host})
       \/ ~in.masked /\ in.host = 0
       \/ in.field = "mask" /\ (~known \/ prev.secret = 0 \/ host # prev.host)
    THEN {}
    ELSE {[host |-> host, secret |-> CASE in.field = "mask" -> prev.secret
                                       [] in.field = "new" -> host
                                       [] OTHER -> 0]}

\* The same of an SMTP server: an empty password keeps the one stored, unless there is
\* no user to log in.
MergeSmtp(prev, in) ==
    LET known == prev.kind = "smtp"
        keeps == in.field # "new" /\ in.user
    IN
    IF \/ in.host = 0
       \/ keeps /\ in.field = "mask" /\ ~known
       \/ keeps /\ known /\ prev.secret # 0 /\ in.host # prev.host
    THEN {}
    ELSE {[host |-> in.host, secret |-> IF in.field = "new" THEN in.host
                                        ELSE IF keeps /\ known THEN prev.secret ELSE 0]}

Forms == [masked : BOOLEAN, host : Hosts \cup {0}, field : {"mask", "new", "none"},
          user : BOOLEAN]

\* connectors.create and connectors.update
SaveConnector(c, kind, in) ==
    /\ Edit
    /\ \E m \in IF kind = "webhook" THEN Merge(conn[c], in) ELSE MergeSmtp(conn[c], in) :
        conn' = [conn EXCEPT ![c] = [kind |-> kind, enabled |-> TRUE,
                                     host |-> m.host, secret |-> m.secret]]
    /\ UNCHANGED <<rule, cache, outbox, disp, watch, faults>>

SetEnabled(c) ==
    /\ Edit /\ Stored(c)
    /\ conn' = [conn EXCEPT ![c].enabled = ~@]
    /\ UNCHANGED <<rule, cache, outbox, disp, watch, faults>>

\* With the connector goes its id in every rule, in one transaction.
DeleteConnector(c) ==
    /\ Edit /\ Stored(c)
    /\ conn' = [conn EXCEPT ![c] = NoConnector]
    /\ rule' = rule \ {c}
    /\ UNCHANGED <<cache, outbox, disp, watch, faults>>

\* rules.create, rules.update and rules.delete: an id added must exist.
SaveRule(c) ==
    /\ Edit
    /\ \/ c \in rule /\ rule' = rule \ {c}
       \/ c \notin rule /\ Stored(c) /\ rule' = rule \cup {c}
    /\ UNCHANGED <<conn, cache, outbox, disp, watch, faults>>

----------------------------------------------------------------------------
(* dispatchEvent *)

Step(d, r) == disp' = [disp EXCEPT ![d] = r]

\* A set of numbers, least first: the n-th has n - 1 below it.
Ascending(S) ==
    [n \in 1..Cardinality(S) |->
        CHOOSE x \in S : Cardinality({y \in S : y < x}) = n - 1]

\* loadConfig: the rules and the connectors of the last 30 s.
Select(d) ==
    /\ disp[d].at = "load"
    /\ LET now == rule \cap {c \in Connectors : Stored(c) /\ conn[c].enabled}
           ids == IF cache.age < CacheTtl THEN cache.ids ELSE now
       IN /\ cache' = IF cache.age < CacheTtl THEN cache ELSE [age |-> 0, ids |-> now]
          /\ Step(d, IF ids = {} THEN NoDispatch ELSE [NoDispatch EXCEPT !.at = "insert",
                                                                        !.ids = ids])
    /\ UNCHANGED <<admin, outbox, watch, faults>>

\* at: its insertion, the same for the rows of one event
NewRow(c) == [conn |-> c, at |-> Len(rows), st |-> "pending", att |-> 0, wait |-> 0,
              age |-> Oldest, why |-> "none", kept |-> TRUE]

Insert(d) ==
    /\ disp[d].at = "insert"
    /\ LET new == Ascending(disp[d].ids) IN
       /\ rows' = rows \o [i \in DOMAIN new |-> NewRow(new[i])]
       /\ sends' = sends \o [i \in DOMAIN new |-> [made |-> 0, got |-> FALSE, cut |-> 0]]
    /\ Step(d, [disp[d] EXCEPT !.at = "count"])
    /\ UNCHANGED <<admin, cache, tick, watch, faults>>

Pending == {i \in DOMAIN rows : rows[i].st = "pending"}

Count(d) ==
    /\ disp[d].at = "count"
    /\ LET n == Cardinality(Pending) IN
       Step(d, IF n > QueueCap THEN [disp[d] EXCEPT !.at = "pick", !.over = n - QueueCap]
               ELSE NoDispatch)
    /\ UNCHANGED <<admin, cache, outbox, watch, faults>>

\* oldestPending(overflow), then one update after another: another enqueue may have
\* counted the same rows, and the tick may take one meanwhile.
Pick(d) ==
    /\ disp[d].at = "pick"
    /\ Step(d, [disp[d] EXCEPT !.at = "drop",
            !.drop = {i \in Pending : Cardinality({j \in Pending : j < i}) < disp[d].over}])
    /\ UNCHANGED <<admin, cache, outbox, watch, faults>>

Drop(d) ==
    /\ disp[d].at = "drop"
    /\ LET ids == disp[d].drop  i == Min(ids) IN
       IF ids = {} \/ ~rows[i].kept     \* all failed, or an update that finds no row
       THEN Step(d, NoDispatch) /\ UNCHANGED rows
       ELSE /\ rows' = [rows EXCEPT ![i].st = "failed", ![i].why = "full", ![i].wait = 0]
            /\ Step(d, [disp[d] EXCEPT !.drop = ids \ {i}])
    /\ UNCHANGED <<admin, cache, sends, tick, watch, faults>>

\* The database refuses: logged, never thrown at the caller.
DispatchFails(d) ==
    /\ disp[d].at # "free"
    /\ Fault
    /\ Step(d, NoDispatch)
    /\ UNCHANGED <<admin, cache, outbox, watch>>

----------------------------------------------------------------------------
(* runDeliveryTick *)

Due == {i \in Pending : rows[i].wait = 0}
Sooner(n) == IF n > tick.run THEN n - tick.run ELSE 0     \* a date from the tick's start

\* MUTANT: rows left "sending" are not taken up again.
TickStartNoReset ==
    /\ tick.at = "idle" /\ Pending # {}
    /\ LET all == Ascending(Due) IN
       tick' = [Idle EXCEPT !.at = "row", !.batch = SubSeq(all, 1, Min({Batch, Len(all)}))]
    /\ UNCHANGED <<admin, cache, rows, sends, disp, watch, faults>>

\* What was left "sending" is pending again; then the oldest due rows.
TickStart ==
    /\ tick.at = "idle" /\ \E i \in DOMAIN rows : rows[i].st \in {"pending", "sending"}
    /\ rows' = [i \in DOMAIN rows |-> IF rows[i].st = "sending"
                                      THEN [rows[i] EXCEPT !.st = "pending"] ELSE rows[i]]
    /\ LET due == {i \in DOMAIN rows : rows[i].st \in {"pending", "sending"}
                                       /\ rows[i].wait = 0}
           all == Ascending(due)
       IN tick' = [Idle EXCEPT !.at = "row",
                               !.batch = SubSeq(all, 1, Min({Batch, Len(all)}))]
    /\ UNCHANGED <<admin, cache, sends, disp, watch, faults>>

\* sentSince and rateLimitedUntil: the records of the minute before the tick began.
Recent(c) == {i \in DOMAIN rows : /\ rows[i].conn = c /\ rows[i].st = "sent"
                                  /\ rows[i].kept /\ rows[i].age < Window + tick.run}

Limited(c) == Cardinality(Recent(c)) >= Limit

\* The moment the Limit-th youngest of them leaves the minute.
Until(c) ==
    LET kth == CHOOSE i \in Recent(c) :
                 LET younger == {j \in Recent(c) : \/ rows[j].age < rows[i].age
                                                   \/ rows[j].age = rows[i].age /\ j > i}
                 IN Cardinality(younger) = Limit - 1
    IN IF rows[kth].age < Window THEN Window - rows[kth].age ELSE 0

NextRow == [tick EXCEPT !.at = "row", !.batch = Tail(@)]

TickRow ==
    /\ tick.at = "row" /\ tick.batch # <<>>
    /\ LET i == Head(tick.batch)  c == rows[i].conn IN
       \/ /\ ~(Stored(c) /\ conn[c].enabled)
          /\ rows' = [rows EXCEPT ![i].st = "failed", ![i].why = "off", ![i].wait = 0]
          /\ tick' = NextRow
       \/ /\ Stored(c) /\ conn[c].enabled /\ Limited(c)
          /\ rows' = [rows EXCEPT ![i].wait = Until(c)]
          /\ tick' = NextRow
       \/ /\ Stored(c) /\ conn[c].enabled /\ ~Limited(c)
          /\ rows' = [rows EXCEPT ![i].st = "sending"]
          /\ tick' = [tick EXCEPT !.at = "send"]
    /\ UNCHANGED <<admin, cache, sends, disp, watch, faults>>

\* deliverToConnector reads the connector again.  An answer may be lost after the
\* message was received.
TickSend ==
    /\ tick.at = "send"
    /\ LET i == Head(tick.batch) IN
       \E ok, got \in BOOLEAN :
          /\ (ok => got) /\ (got => Stored(rows[i].conn))
          /\ IF got /\ ~ok THEN Fault ELSE UNCHANGED faults
          /\ sends' = [sends EXCEPT ![i].made = @ + 1, ![i].got = @ \/ got]
          /\ tick' = [tick EXCEPT !.at = "record", !.ok = ok]
    /\ UNCHANGED <<admin, cache, rows, disp, watch>>

\* MUTANT: one attempt too many.
AfterAttemptMore(r, ok) ==
    LET n == r.att + 1 IN
    CASE ok -> [r EXCEPT !.st = "sent", !.why = "none", !.att = n, !.wait = 0, !.age = tick.run]
      [] ~ok /\ n > MaxAttempts ->
           [r EXCEPT !.st = "failed", !.why = "tried", !.att = n, !.wait = 0]
      [] OTHER -> [r EXCEPT !.st = "pending", !.why = "none", !.att = n, !.wait = Sooner(Delay)]

\* planAfterAttempt
AfterAttempt(r, ok) ==
    LET n == r.att + 1 IN
    CASE ok -> [r EXCEPT !.st = "sent", !.why = "none", !.att = n, !.wait = 0, !.age = tick.run]
      [] ~ok /\ n >= MaxAttempts ->
           [r EXCEPT !.st = "failed", !.why = "tried", !.att = n, !.wait = 0]
      [] OTHER -> [r EXCEPT !.st = "pending", !.why = "none", !.att = n, !.wait = Sooner(Delay)]

TickRecord ==
    /\ tick.at = "record"
    /\ rows' = [rows EXCEPT ![Head(tick.batch)] = AfterAttempt(@, tick.ok)]
    /\ tick' = NextRow
    /\ UNCHANGED <<admin, cache, sends, disp, watch, faults>>

\* prune: of the rows that ended, those of the Keep youngest by age of insertion stay.
TickEnd ==
    /\ tick.at = "row" /\ tick.batch = <<>>
    /\ LET ended == {i \in DOMAIN rows : rows[i].kept /\ rows[i].st \in {"sent", "failed"}}
       IN rows' = [i \in DOMAIN rows |->
                     [rows[i] EXCEPT !.kept = @ /\ (i \in ended =>
                        Cardinality({j \in ended : rows[j].at > rows[i].at}) < Keep)]]
    /\ tick' = Idle
    /\ UNCHANGED <<admin, cache, sends, disp, watch, faults>>

\* A write to the database fails: the tick is over, the row stays as it is.
TickFails ==
    /\ tick.at # "idle"
    /\ Fault
    /\ sends' = IF tick.at = "record" THEN [sends EXCEPT ![Head(tick.batch)].cut = @ + 1]
                ELSE sends
    /\ tick' = Idle
    /\ UNCHANGED <<admin, cache, rows, disp, watch>>

----------------------------------------------------------------------------
(* watchUpdateResults *)

\* The worker writes a result; a success alerts nobody.
Result(alerts) ==
    /\ Len(results) < MaxResults
    /\ results' = Append(results, alerts)
    /\ told' = Append(told, 0)
    /\ UNCHANGED <<admin, cache, outbox, disp, mark, check, faults>>

CheckIdle == [at |-> "idle", upto |-> 0]

Tellings == MapThenSumSet(LAMBDA r : told[r], DOMAIN told)

\* At boot, on an announcement and every five minutes; one check follows another.
CheckRead ==
    /\ check.at = "idle" /\ Len(results) > mark
    /\ Tellings + Cardinality({r \in mark + 1 .. Len(results) : results[r]}) <= MaxTold
    /\ check' = [at |-> "tell", upto |-> Len(results)]
    /\ UNCHANGED <<admin, cache, outbox, disp, results, mark, told, faults>>

Fresh == {r \in mark + 1 .. check.upto : results[r]}

\* MUTANT: the mark moves before the results are told.
CheckMarkFirst ==
    /\ check.at = "tell"
    /\ mark' = check.upto
    /\ check' = [check EXCEPT !.at = "mark"]
    /\ UNCHANGED <<admin, cache, outbox, disp, results, told, faults>>

\* Each fresh result is dispatched, and nobody waits for the rows.
CheckTell ==
    /\ check.at = "tell"
    /\ \A r \in Fresh : disp[r].at = "free"     \* bound: one dispatch of a result at once
    /\ disp' = [r \in DOMAIN disp |-> IF r \in Fresh THEN [NoDispatch EXCEPT !.at = "load"]
                                      ELSE disp[r]]
    /\ told' = [r \in DOMAIN told |-> IF r \in Fresh THEN told[r] + 1 ELSE told[r]]
    /\ check' = [check EXCEPT !.at = "mark"]
    /\ UNCHANGED <<admin, cache, outbox, results, mark, faults>>

\* A mark that cannot be written is logged: the results are told again.
CheckMark ==
    /\ check.at = "mark"
    /\ \/ mark' = check.upto /\ UNCHANGED faults
       \/ Fault /\ UNCHANGED mark
    /\ check' = CheckIdle
    /\ UNCHANGED <<admin, cache, outbox, disp, results, told>>

----------------------------------------------------------------------------
\* The backend stops and starts: the rows and the mark stay.
Crash ==
    /\ Fault
    /\ sends' = IF tick.at = "record" THEN [sends EXCEPT ![Head(tick.batch)].cut = @ + 1]
                ELSE sends
    /\ tick' = Idle /\ check' = CheckIdle /\ cache' = NoCache
    /\ disp' = [d \in DOMAIN disp |-> NoDispatch]
    /\ UNCHANGED <<admin, rows, results, mark, told>>

\* Time passes, also in a tick that waits for an answer.
Tock ==
    /\ \/ \E i \in DOMAIN rows : rows[i].wait > 0 \/ rows[i].age < Oldest
       \/ cache.age < CacheTtl
    /\ tick.at = "idle" \/ tick.run < TickTime
    /\ check.at = "idle" /\ \A d \in DOMAIN disp : disp[d].at = "free"   \* bound: they are short
    /\ rows' = [i \in DOMAIN rows |->
                  [rows[i] EXCEPT !.wait = IF @ > 0 THEN @ - 1 ELSE 0,
                                  !.age = IF @ < Oldest THEN @ + 1 ELSE @]]
    /\ tick' = IF tick.at = "idle" THEN tick ELSE [tick EXCEPT !.run = @ + 1]
    /\ cache' = [cache EXCEPT !.age = IF @ < CacheTtl THEN @ + 1 ELSE @]
    /\ UNCHANGED <<admin, sends, disp, watch, faults>>

Init ==
    /\ conn = [c \in Connectors |-> [kind |-> "webhook", enabled |-> TRUE,
                                     host |-> Min(Hosts), secret |-> Min(Hosts)]]
    /\ rule = Connectors
    /\ cache = NoCache /\ rows = <<>> /\ sends = <<>> /\ tick = Idle
    /\ disp = [d \in 1..MaxResults |-> NoDispatch]
    /\ results = <<>> /\ mark = 0 /\ check = CheckIdle /\ told = <<>>
    /\ edits = 0 /\ faults = 0

Dispatch(d) == Select(d) \/ Insert(d) \/ Count(d) \/ Pick(d) \/ Drop(d)
Outbox == TickStart \/ TickRow \/ TickSend \/ TickRecord \/ TickEnd
Watch == CheckRead \/ CheckTell \/ CheckMark

Next ==
    \/ \E c \in Connectors : \/ \E in \in Forms, k \in {"webhook", "smtp"} : SaveConnector(c, k, in)
                             \/ SetEnabled(c) \/ DeleteConnector(c) \/ SaveRule(c)
    \/ \E d \in DOMAIN disp : Dispatch(d) \/ DispatchFails(d)
    \/ Outbox \/ TickFails \/ Watch \/ Crash \/ Tock
    \/ \E a \in BOOLEAN : Result(a)

\* Timers fire, awaits end and time passes; a destination may refuse for ever.
Spec == /\ Init /\ [][Next]_vars
        /\ WF_vars(Outbox) /\ WF_vars(Watch) /\ WF_vars(Tock)
        /\ \A d \in 1..MaxResults : WF_vars(Dispatch(d))

----------------------------------------------------------------------------
TypeOK ==
    /\ conn \in [Connectors -> [kind : {"none", "webhook", "smtp"}, enabled : BOOLEAN,
                                host : Hosts \cup {0}, secret : Hosts \cup {0}]]
    /\ rule \subseteq Connectors
    /\ cache \in [age : 0..CacheTtl, ids : SUBSET Connectors]
    /\ rows \in Seq([conn : Connectors, at : Nat, st : {"pending", "sending", "sent", "failed"},
                     att : 0..MaxAttempts, wait : 0..Window + Delay, age : 0..Oldest,
                     why : {"none", "full", "off", "tried"}, kept : BOOLEAN])
    /\ sends \in Seq([made : Nat, got : BOOLEAN, cut : Nat]) /\ Len(sends) = Len(rows)
    /\ tick \in [at : {"idle", "row", "send", "record"}, batch : Seq(DOMAIN rows),
                 ok : BOOLEAN, run : 0..TickTime]
    /\ disp \in [1..MaxResults -> [at : {"free", "load", "insert", "count", "pick", "drop"},
                                   ids : SUBSET Connectors, over : Nat,
                                   drop : SUBSET (DOMAIN rows)]]
    /\ results \in Seq(BOOLEAN) /\ told \in Seq(Nat) /\ Len(told) = Len(results)
    /\ mark \in 0..Len(results)
    /\ check \in [at : {"idle", "tell", "mark"}, upto : 0..Len(results)]
    /\ edits \in 0..MaxUpsets /\ faults \in 0..MaxUpsets

\* A secret is only ever stored for, and sent to, the destination it was entered for,
\* whatever sequence of masked forms, deletions and re-creations led there.
SecretsBound == \A c \in Connectors : conn[c].secret \in {0, conn[c].host}

\* The journal tells the truth: "sent" was received, "tried" was tried MaxAttempts times,
\* and no row is attempted more often, but for the attempts whose record was lost.
JournalTrue ==
    \A i \in DOMAIN rows :
        /\ rows[i].st = "sent" => sends[i].got
        /\ sends[i].made <= MaxAttempts + sends[i].cut
        /\ rows[i].why = "tried" => sends[i].made >= MaxAttempts

\* No alerting result is passed over by the mark, and none is told twice but after a crash
\* or a mark that could not be written.
ResultsTold ==
    /\ \A r \in DOMAIN results : results[r] /\ r <= mark => told[r] > 0
    /\ \A r \in DOMAIN results : told[r] <= 1 + faults

\* Rows are delayed, never forgotten: each one ends as sent or failed, though two
\* dispatches count the same overflow, a destination refuses or the rate limit postpones.
RowsEnd ==
    \A i \in 1 .. MaxTold * Cardinality(Connectors) :
        i \in DOMAIN rows ~> i \in DOMAIN rows /\ rows[i].st \in {"sent", "failed"}

=============================================================================
