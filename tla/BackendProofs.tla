--------------------------- MODULE BackendProofs ---------------------------
(***************************************************************************)
(* For any connectors, destinations, results and bounds: a secret stays    *)
(* with the destination it was entered for, the watch of the update        *)
(* results passes none over and repeats none without a fault, and the      *)
(* journal of the outbox tells what happened.  And for any chunks, ids,    *)
(* requests and faults: what an upload lands is one whole file, the one    *)
(* its tab calls done; its staging file is never without an owner; and no  *)
(* two finalisations, nor one and a cleanup, work on the same file.        *)
(*                                                                         *)
(* The secrets are inductive as they stand, for each form: a mask stands   *)
(* for the secret stored only where the destination is the one stored.     *)
(* The watch needs to know what a check has already told when its mark is  *)
(* still to be written: those results are the only ones that may have been *)
(* told once more than there were faults.  The journal needs an account of *)
(* each row: the attempts made of it are those recorded, those cut off     *)
(* before their record, and the one the tick is about to record.  That the *)
(* record goes to the row of the attempt, and that it has attempts left,   *)
(* rests on the batch naming rows, each once, which is a fact about the    *)
(* order the due rows are taken in.                                        *)
(*                                                                         *)
(* The uploads need what every number of a job stands for, wherever it is  *)
(* kept: in the upload's state, in an answer on its way and in the tab it  *)
(* names a job that works on that id for that digest and, once completed,  *)
(* has landed that file.  And they need what each request at work has      *)
(* still before it: a cancellation past its checks holds an upload no      *)
(* finalisation is at work on, and a chunk is written to one that nobody   *)
(* clears away.                                                            *)
(***************************************************************************)
EXTENDS Deliveries, Uploads, SequenceTheorems, FiniteSetTheorems, TLAPS

Host == Hosts \cup {0}
Connector == [kind : {"none", "webhook", "smtp"}, enabled : BOOLEAN, host : Host, secret : Host]

Secrets == conn \in [Connectors -> Connector] /\ SecretsBound

WatchOK ==
    /\ results \in Seq(BOOLEAN) /\ told \in Seq(Nat) /\ Len(told) = Len(results)
    /\ mark \in 0..Len(results) /\ faults \in Nat
    /\ check \in [at : {"idle", "tell", "mark"}, upto : 0..Len(results)]
    /\ check.at # "idle" => mark <= check.upto

\* Result r was told by the check that has yet to write its mark.
JustTold(r) == check.at = "mark" /\ r <= check.upto

Told(r) ==
    /\ results[r] /\ (r <= mark \/ JustTold(r)) => told[r] > 0
    /\ told[r] <= 1 + faults
    /\ r > mark /\ ~JustTold(r) => told[r] <= faults

Watched == WatchOK /\ \A r \in 1..Len(results) : Told(r)

----------------------------------------------------------------------------
(* Orders *)

\* An element's place in a strict order of S: how many are before it.
Before(S, R, x) == {y \in S : <<y, x>> \in R}

StrictOrder(S, R) ==
    /\ \A x \in S : <<x, x>> \notin R
    /\ \A x, y, z \in S : <<x, y>> \in R /\ <<y, z>> \in R => <<x, z>> \in R
    /\ \A x, y \in S : x # y => <<x, y>> \in R \/ <<y, x>> \in R

\* In a strict order an element that comes later has more before it.
LEMMA LaterHasMore ==
  ASSUME NEW S, IsFiniteSet(S), NEW R, StrictOrder(S, R),
         NEW x \in S, NEW y \in S, <<x, y>> \in R
  PROVE  Cardinality(Before(S, R, x)) < Cardinality(Before(S, R, y))
<1>1. Before(S, R, x) \subseteq Before(S, R, y) /\ x \in Before(S, R, y)
      /\ x \notin Before(S, R, x)
  BY DEF Before, StrictOrder
<1>2. IsFiniteSet(Before(S, R, y))
  BY FS_Subset DEF Before
<1>3. /\ IsFiniteSet(Before(S, R, x))
      /\ Cardinality(Before(S, R, x)) <= Cardinality(Before(S, R, y))
      /\ Cardinality(Before(S, R, y)) # Cardinality(Before(S, R, x))
  BY <1>1, <1>2, FS_Subset
<1>4. Cardinality(Before(S, R, x)) \in Nat /\ Cardinality(Before(S, R, y)) \in Nat
  BY <1>2, <1>3, FS_CardinalityType
<1>5. QED
  BY <1>3, <1>4

\* So each place is somebody's.
LEMMA PlacesTaken ==
  ASSUME NEW S, IsFiniteSet(S), NEW R, StrictOrder(S, R), NEW n \in 0..Cardinality(S) - 1
  PROVE  \E x \in S : Cardinality(Before(S, R, x)) = n
<1> DEFINE N == Cardinality(S)
           place == [x \in S |-> Cardinality(Before(S, R, x))]
<1>1. N \in Nat
  BY FS_CardinalityType
<1>2. ASSUME NEW x \in S
      PROVE  Cardinality(Before(S, R, x)) \in 0..N - 1
  <2>1. Before(S, R, x) \subseteq S /\ x \notin Before(S, R, x)
    BY DEF Before, StrictOrder
  <2>2. /\ IsFiniteSet(Before(S, R, x)) /\ Cardinality(Before(S, R, x)) <= N
        /\ N # Cardinality(Before(S, R, x))
    BY <2>1, FS_Subset
  <2>3. Cardinality(Before(S, R, x)) \in Nat
    BY <2>2, FS_CardinalityType
  <2>4. QED
    BY <1>1, <2>2, <2>3
<1>3. place \in [S -> 0..N - 1]
  BY <1>2
<1>4. ASSUME NEW x \in S, NEW y \in S, place[x] = place[y]
      PROVE  x = y
  <2>1. place[x] \in Nat /\ place[y] \in Nat
    BY <1>2
  <2>2. <<x, y>> \notin R /\ <<y, x>> \notin R
    BY <1>4, <2>1, LaterHasMore
  <2>3. QED
    BY <2>2 DEF StrictOrder
<1>5. place \in Injection(S, 0..N - 1)
  BY <1>3, <1>4 DEF Injection, IsInjective
<1>6. IsFiniteSet(0..N - 1) /\ Cardinality(0..N - 1) = N
  BY <1>1, FS_Interval
<1>7. place \in Surjection(S, 0..N - 1)
  BY <1>5, <1>6, FS_Injection
<1>8. QED
  BY <1>7 DEF Surjection

\* Ascending lists a finite set of numbers, each of them once.
LEMMA AscendingLists ==
  ASSUME NEW S \in SUBSET Nat, IsFiniteSet(S)
  PROVE  /\ Ascending(S) \in Seq(S) /\ Len(Ascending(S)) = Cardinality(S)
         /\ \A m, n \in 1..Cardinality(S) : m < n => Ascending(S)[m] < Ascending(S)[n]
<1> DEFINE R == {p \in S \X S : p[1] < p[2]}
<1>1. StrictOrder(S, R)
  BY DEF StrictOrder
<1>2. \A x \in S : Before(S, R, x) = {y \in S : y < x}
  BY DEF Before
<1>3. Cardinality(S) \in Nat
  BY FS_CardinalityType
<1>4. ASSUME NEW n \in 1..Cardinality(S)
      PROVE  /\ Ascending(S)[n] \in S
             /\ Cardinality({y \in S : y < Ascending(S)[n]}) = n - 1
  <2>1. n - 1 \in 0..Cardinality(S) - 1
    BY <1>3
  <2>2. \E x \in S : Cardinality({y \in S : y < x}) = n - 1
    <3> HIDE DEF R
    <3>1. PICK x \in S : Cardinality(Before(S, R, x)) = n - 1
      BY <1>1, <2>1, PlacesTaken
    <3>2. QED
      BY <1>2, <3>1
  <2>3. QED
    BY <2>2 DEF Ascending
<1>5. Ascending(S) \in [1..Cardinality(S) -> S]
  BY <1>4 DEF Ascending
<1>6. Ascending(S) \in Seq(S)
  BY <1>3, <1>5, SeqDef
<1>7. Len(Ascending(S)) = Cardinality(S)
  BY <1>3, <1>5, <1>6, LenProperties
<1>8. ASSUME NEW m \in 1..Cardinality(S), NEW n \in 1..Cardinality(S), m < n
      PROVE  Ascending(S)[m] < Ascending(S)[n]
  <2>1. PICK x \in S : x = Ascending(S)[m] /\ Cardinality(Before(S, R, x)) = m - 1
    BY <1>2, <1>4
  <2>2. PICK y \in S : y = Ascending(S)[n] /\ Cardinality(Before(S, R, y)) = n - 1
    BY <1>2, <1>4
  <2>3. m - 1 < n - 1 /\ m - 1 \in Nat /\ n - 1 \in Nat
    BY <1>3, <1>8
  <2>4. x # y
    BY <2>1, <2>2, <2>3
  <2>5. y < x => <<y, x>> \in R
    OBVIOUS
  <2> HIDE DEF R
  <2>6. ~(y < x)
    BY <1>1, <2>1, <2>2, <2>3, <2>5, LaterHasMore
  <2>7. QED
    BY <2>1, <2>2, <2>4, <2>6
<1>9. QED
  BY <1>6, <1>7, <1>8

\* The least of some naturals is one of them.
LEMMA LeastOfFinite ==
  ASSUME NEW S \in SUBSET Nat, IsFiniteSet(S), S # {}
  PROVE  \E x \in S : \A y \in S : x <= y
<1> DEFINE R == {p \in S \X S : p[1] < p[2]}
<1>1. StrictOrder(S, R)
  BY DEF StrictOrder
<1>2. Cardinality(S) \in Nat \ {0}
  BY FS_CardinalityType, FS_EmptySet
<1>3. \E x \in S : Cardinality(Before(S, R, x)) = 0
  <2> HIDE DEF R
  <2>1. 0 \in 0..Cardinality(S) - 1
    BY <1>2
  <2>2. QED
    BY <1>1, <2>1, PlacesTaken
<1> PICK x \in S : Cardinality(Before(S, R, x)) = 0
  BY <1>3
<1>4. Before(S, R, x) = {}
  <2>1. IsFiniteSet(Before(S, R, x))
    BY FS_Subset DEF Before
  <2>2. QED
    BY <2>1, FS_EmptySet
<1>5. \A y \in S : x <= y
  <2>1. Before(S, R, x) = {y \in S : y < x}
    BY DEF Before
  <2>2. \A y \in S : ~(y < x)
    BY <1>4, <2>1
  <2>3. QED
    BY <2>2
<1>6. QED
  BY <1>5

LEMMA MinIsIn ==
  ASSUME NEW S \in SUBSET Nat, S # {}
  PROVE  Min(S) \in S /\ \A y \in S : Min(S) <= y
<1>1. PICK h \in S : TRUE
  OBVIOUS
<1> DEFINE T == {x \in S : x <= h}
<1>2. IsFiniteSet(T) /\ h \in T /\ T \in SUBSET Nat
  <2>1. h \in Nat /\ \A y \in T : y <= h
    OBVIOUS
  <2>2. h \in T
    BY <2>1
  <2>3. T \in SUBSET Nat
    OBVIOUS
  <2> HIDE DEF T
  <2>4. QED
    BY <2>1, <2>2, <2>3, FS_BoundedSetOfNaturals
<1>3. PICK x \in T : \A y \in T : x <= y
  BY <1>2, LeastOfFinite
<1>4. x \in S /\ \A y \in S : x <= y
  BY <1>3
<1>5. QED
  BY <1>4 DEF Min

----------------------------------------------------------------------------
(* Connectors *)

\* What a form is merged to holds a secret for its own destination, or none.
LEMMA MergeBound ==
  ASSUME NEW prev \in Connector, prev.secret \in {0, prev.host}, NEW in \in Forms,
         NEW m \in Merge(prev, in)
  PROVE  m.host \in Host /\ m.secret \in {0, m.host}
BY DEF Merge, Connector, Host, Forms

LEMMA MergeSmtpBound ==
  ASSUME NEW prev \in Connector, prev.secret \in {0, prev.host}, NEW in \in Forms,
         NEW m \in MergeSmtp(prev, in)
  PROVE  m.host \in Host /\ m.secret \in {0, m.host}
BY DEF MergeSmtp, Connector, Host, Forms

LEMMA SaveConnectorKeeps ==
  ASSUME Secrets, NEW c \in Connectors, NEW in \in Forms, NEW k \in {"webhook", "smtp"},
         SaveConnector(c, k, in)
  PROVE  Secrets'
<1>1. conn[c] \in Connector /\ conn[c].secret \in {0, conn[c].host}
  BY DEF Secrets, SecretsBound
<1>2. PICK m \in IF k = "webhook" THEN Merge(conn[c], in) ELSE MergeSmtp(conn[c], in) :
         conn' = [conn EXCEPT ![c] = [kind |-> k, enabled |-> TRUE,
                                      host |-> m.host, secret |-> m.secret]]
  BY DEF SaveConnector
<1>3. m.host \in Host /\ m.secret \in {0, m.host}
  BY <1>1, <1>2, MergeBound, MergeSmtpBound
<1>4. m.secret \in Host
  BY <1>3 DEF Host
<1>5. [kind |-> k, enabled |-> TRUE, host |-> m.host, secret |-> m.secret] \in Connector
  BY <1>3, <1>4 DEF Connector
<1>6. QED
  BY <1>2, <1>3, <1>5 DEF Secrets, SecretsBound

LEMMA SetEnabledKeeps ==
  ASSUME Secrets, NEW c \in Connectors, SetEnabled(c)
  PROVE  Secrets'
<1>1. conn[c] \in Connector
  BY DEF Secrets
<1>2. DEFINE r == [conn[c] EXCEPT !.enabled = ~conn[c].enabled]
<1>3. r \in Connector /\ r.host = conn[c].host /\ r.secret = conn[c].secret
  BY <1>1 DEF Connector
<1>4. conn' = [conn EXCEPT ![c] = r]
  BY <1>1 DEF SetEnabled
<1> HIDE DEF r
<1>5. QED
  BY <1>3, <1>4 DEF Secrets, SecretsBound

LEMMA DeleteConnectorKeeps ==
  ASSUME Secrets, NEW c \in Connectors, DeleteConnector(c)
  PROVE  Secrets'
<1>1. NoConnector \in Connector /\ NoConnector.secret = 0
  BY DEF NoConnector, Connector, Host
<1>2. conn' = [conn EXCEPT ![c] = NoConnector]
  BY DEF DeleteConnector
<1>3. QED
  BY <1>1, <1>2 DEF Secrets, SecretsBound

\* Nothing else writes a connector.
LEMMA OthersKeepConnectors ==
  /\ Outbox \/ TickFails \/ Watch \/ Crash \/ Tock => UNCHANGED conn
  /\ \A a \in BOOLEAN : Result(a) => UNCHANGED conn
  /\ \A d : Dispatch(d) \/ DispatchFails(d) => UNCHANGED conn
  /\ \A c : SaveRule(c) => UNCHANGED conn
<1>1. Outbox => UNCHANGED conn
  BY DEF Outbox, TickStart, TickRow, TickSend, TickRecord, TickEnd, admin
<1>2. TickFails \/ Watch \/ Crash \/ Tock => UNCHANGED conn
  BY DEF TickFails, Watch, CheckRead, CheckTell, CheckMark, Crash, Tock, admin
<1>3. \A a \in BOOLEAN : Result(a) => UNCHANGED conn
  BY DEF Result, admin
<1>4. \A d : Dispatch(d) \/ DispatchFails(d) => UNCHANGED conn
  BY DEF Dispatch, Select, Insert, Count, Pick, Drop, DispatchFails, admin
<1>5. \A c : SaveRule(c) => UNCHANGED conn
  BY DEF SaveRule
<1>6. QED
  BY <1>1, <1>2, <1>3, <1>4, <1>5

LEMMA SecretsInvariant == Spec => []Secrets
<1>1. Init => Secrets
  <2>1. Min(Hosts) \in Host
    BY MinIsIn, DeliveriesAssumption DEF Host
  <2>2. QED
    BY <2>1 DEF Init, Secrets, SecretsBound, Connector
<1>2. Secrets /\ UNCHANGED conn => Secrets'
  BY DEF Secrets, SecretsBound
<1>3. ASSUME Secrets, [Next]_vars
      PROVE  Secrets'
  <2>1. CASE \E c \in Connectors :
               \/ \E in \in Forms, k \in {"webhook", "smtp"} : SaveConnector(c, k, in)
               \/ SetEnabled(c) \/ DeleteConnector(c) \/ SaveRule(c)
    BY <1>2, <1>3, <2>1, SaveConnectorKeeps, SetEnabledKeeps, DeleteConnectorKeeps,
       OthersKeepConnectors
  <2>2. CASE \E d \in DOMAIN disp : Dispatch(d) \/ DispatchFails(d)
    BY <1>2, <1>3, <2>2, OthersKeepConnectors
  <2>3. CASE Outbox \/ TickFails \/ Watch \/ Crash \/ Tock \/ \E a \in BOOLEAN : Result(a)
    BY <1>2, <1>3, <2>3, OthersKeepConnectors
  <2>4. CASE UNCHANGED vars
    BY <1>2, <1>3, <2>4 DEF vars
  <2>5. QED
    BY <1>3, <2>1, <2>2, <2>3, <2>4 DEF Next
<1>4. QED
  BY <1>1, <1>3, PTL DEF Spec

\* A header or a password kept under a mask is never stored for, and so never sent to, a
\* destination other than the one it was entered for, whatever sequence of forms, deletions
\* and re-creations led there (services/notification-connectors.ts).
THEOREM SecretsStayBound == Spec => []SecretsBound
<1>1. Secrets => SecretsBound
  BY DEF Secrets
<1>2. QED
  BY <1>1, SecretsInvariant, PTL

----------------------------------------------------------------------------
(* The watch of the update results *)

\* Actions of other parts only ever add a fault.
LEMMA FaultsKeep ==
  ASSUME Watched, UNCHANGED watch, faults' \in {faults, faults + 1}
  PROVE  Watched'
BY DEF Watched, WatchOK, Told, JustTold, watch

LEMMA OthersKeepWatch ==
  /\ Outbox \/ TickFails \/ Tock => UNCHANGED watch /\ faults' \in {faults, faults + 1}
  /\ \A d : Dispatch(d) \/ DispatchFails(d) => UNCHANGED watch /\ faults' \in {faults, faults + 1}
  /\ \A c : \/ \E in \in Forms, k \in {"webhook", "smtp"} : SaveConnector(c, k, in)
            \/ SetEnabled(c) \/ DeleteConnector(c) \/ SaveRule(c)
        => UNCHANGED watch /\ faults' \in {faults, faults + 1}
<1>1. TickStart \/ TickRow \/ TickRecord \/ TickEnd \/ Tock => UNCHANGED <<watch, faults>>
  BY DEF TickStart, TickRow, TickRecord, TickEnd, Tock
<1>2. TickSend => UNCHANGED watch /\ faults' \in {faults, faults + 1}
  BY DEF TickSend, Fault
<1>3. TickFails => UNCHANGED watch /\ faults' \in {faults, faults + 1}
  BY DEF TickFails, Fault
<1>4. \A d : Dispatch(d) => UNCHANGED <<watch, faults>>
  BY DEF Dispatch, Select, Insert, Count, Pick, Drop
<1>5. \A d : DispatchFails(d) => UNCHANGED watch /\ faults' \in {faults, faults + 1}
  BY DEF DispatchFails, Fault
<1>6. \A c, in, k : SaveConnector(c, k, in) => UNCHANGED <<watch, faults>>
  BY DEF SaveConnector
<1>7. \A c : SetEnabled(c) \/ DeleteConnector(c) \/ SaveRule(c) => UNCHANGED <<watch, faults>>
  BY DEF SetEnabled, DeleteConnector, SaveRule
<1>8. QED
  BY <1>1, <1>2, <1>3, <1>4, <1>5, <1>6, <1>7 DEF Outbox

\* A result that was just written was told to nobody, and the mark is before it.
LEMMA ResultKeeps ==
  ASSUME Watched, NEW a \in BOOLEAN, Result(a)
  PROVE  Watched'
<1>1. /\ results \in Seq(BOOLEAN) /\ told \in Seq(Nat) /\ Len(told) = Len(results)
      /\ Len(results) \in Nat /\ mark \in 0..Len(results) /\ faults \in Nat
      /\ check.upto \in 0..Len(results)
  BY DEF Watched, WatchOK
<1>2. /\ results' \in Seq(BOOLEAN) /\ Len(results') = Len(results) + 1
      /\ \A r \in 1..Len(results) : results'[r] = results[r]
  BY <1>1, AppendProperties DEF Result
<1>3. /\ told' \in Seq(Nat) /\ Len(told') = Len(results) + 1
      /\ \A r \in 1..Len(results) : told'[r] = told[r]
      /\ told'[Len(results) + 1] = 0
  BY <1>1, AppendProperties DEF Result
<1>4. WatchOK'
  BY <1>1, <1>2, <1>3 DEF Watched, WatchOK, Result
<1>5. ASSUME NEW r \in 1..Len(results)
      PROVE  Told(r)'
  BY <1>2, <1>3 DEF Watched, Told, JustTold, Result
<1>6. ASSUME NEW r \in Nat, r = Len(results) + 1
      PROVE  Told(r)'
  <2>1. ~(r <= mark') /\ ~(JustTold(r)')
    BY <1>1, <1>6 DEF JustTold, Result
  <2>2. told'[r] = 0 /\ faults' = faults
    BY <1>3, <1>6 DEF Result
  <2>3. QED
    BY <1>1, <2>1, <2>2 DEF Told
<1>7. \A r \in 1..Len(results') : r \in 1..Len(results) \/ r = Len(results) + 1
  BY <1>1, <1>2
<1>8. QED
  BY <1>4, <1>5, <1>6, <1>7 DEF Watched

LEMMA CheckReadKeeps ==
  ASSUME Watched, CheckRead
  PROVE  Watched'
<1>1. check'.at = "tell" /\ check'.upto = Len(results) /\ check.at = "idle"
  BY DEF CheckRead
<1>2. WatchOK'
  BY <1>1 DEF Watched, WatchOK, CheckRead
<1>3. ASSUME NEW r \in 1..Len(results)
      PROVE  Told(r)'
  <2>1. Told(r) /\ ~JustTold(r) /\ ~(JustTold(r)')
    BY <1>1 DEF Watched, JustTold
  <2>2. QED
    BY <2>1 DEF Told, CheckRead
<1>4. QED
  BY <1>2, <1>3 DEF Watched, CheckRead

\* Whatever the check tells was told at most once for each fault before.
LEMMA CheckTellKeeps ==
  ASSUME Watched, CheckTell
  PROVE  Watched'
<1>1. /\ results \in Seq(BOOLEAN) /\ told \in Seq(Nat) /\ Len(told) = Len(results)
      /\ mark \in 0..Len(results) /\ faults \in Nat /\ check.upto \in 0..Len(results)
      /\ mark <= check.upto /\ check.at = "tell"
      /\ check \in [at : {"idle", "tell", "mark"}, upto : 0..Len(results)]
  BY DEF Watched, WatchOK, CheckTell
<1>2. DOMAIN told = 1..Len(results) /\ \A r \in 1..Len(results) : told[r] \in Nat
  BY <1>1, LenProperties, ElementOfSeq
<1>3. check'.at = "mark" /\ check'.upto = check.upto /\ results' = results /\ mark' = mark
      /\ faults' = faults
  BY <1>1 DEF CheckTell
<1>4. \A r \in 1..Len(results) :
        told'[r] = IF r > mark /\ r <= check.upto /\ results[r] THEN told[r] + 1 ELSE told[r]
  BY <1>1, <1>2 DEF CheckTell, Fresh
<1>5. told' \in Seq(Nat) /\ Len(told') = Len(told)
  <2>1. told' = [r \in DOMAIN told |-> told'[r]]
    BY DEF CheckTell
  <2>2. \A r \in DOMAIN told : told'[r] \in Nat
    BY <1>2, <1>4
  <2>3. DOMAIN told' = 1..Len(told)
    BY <1>1, <1>2, <2>1
  <2>4. told' \in [1..Len(told) -> Nat]
    BY <1>1, <1>2, <2>1, <2>2
  <2>5. QED
    BY <1>1, <2>3, <2>4, LenProperties, IsASeq
<1>6. WatchOK'
  BY <1>1, <1>3, <1>5 DEF WatchOK, CheckTell
<1>7. ASSUME NEW r \in 1..Len(results)
      PROVE  Told(r)'
  <2>1. Told(r) /\ ~JustTold(r)
    BY <1>1 DEF Watched, JustTold
  <2>2. JustTold(r)' <=> r <= check.upto
    BY <1>3 DEF JustTold
  <2>3. QED
    BY <1>1, <1>2, <1>3, <1>4, <2>1, <2>2 DEF Told
<1>8. QED
  BY <1>3, <1>6, <1>7 DEF Watched

\* The mark is written, or it is not, which is a fault: then what was told may be again.
LEMMA CheckMarkKeeps ==
  ASSUME Watched, CheckMark
  PROVE  Watched'
<1>1. /\ told \in Seq(Nat) /\ Len(told) = Len(results) /\ Len(results) \in Nat
      /\ mark \in 0..Len(results) /\ faults \in Nat /\ check.upto \in 0..Len(results)
      /\ mark <= check.upto /\ check.at = "mark" /\ check'.at = "idle" /\ check'.upto = 0
      /\ \A r \in 1..Len(results) : told[r] \in Nat
  BY ElementOfSeq DEF Watched, WatchOK, CheckMark, CheckIdle
<1>2. results' = results /\ told' = told
  BY DEF CheckMark
<1>3. \/ mark' = check.upto /\ faults' = faults
      \/ mark' = mark /\ faults' = faults + 1
  BY DEF CheckMark, Fault
<1>4. WatchOK'
  BY <1>1, <1>2, <1>3 DEF Watched, WatchOK, CheckMark, CheckIdle
<1>5. ASSUME NEW r \in 1..Len(results)
      PROVE  Told(r)'
  <2>1. Told(r) /\ (JustTold(r) <=> r <= check.upto) /\ ~(JustTold(r)')
    BY <1>1 DEF Watched, JustTold
  <2>2. QED
    BY <1>1, <1>2, <1>3, <2>1 DEF Told
<1>6. QED
  BY <1>2, <1>4, <1>5 DEF Watched

LEMMA CrashKeepsWatch ==
  ASSUME Watched, Crash
  PROVE  Watched'
<1>1. /\ results' = results /\ told' = told /\ mark' = mark /\ faults' = faults + 1
      /\ check' = CheckIdle
  BY DEF Crash, Fault
<1>2. WatchOK'
  BY <1>1 DEF Watched, WatchOK, CheckIdle
<1>3. ASSUME NEW r \in 1..Len(results)
      PROVE  Told(r)'
  <2>1. Told(r) /\ ~(JustTold(r)') /\ told[r] \in Nat /\ faults \in Nat
    BY <1>1, ElementOfSeq DEF Watched, WatchOK, JustTold, CheckIdle
  <2>2. QED
    BY <1>1, <2>1 DEF Told
<1>4. QED
  BY <1>1, <1>2, <1>3 DEF Watched

LEMMA WatchInvariant == Spec => []Watched
<1>1. Init => Watched
  BY DEF Init, Watched, WatchOK, CheckIdle
<1>2. ASSUME Watched, [Next]_vars
      PROVE  Watched'
  <2>1. CASE \E c \in Connectors :
               \/ \E in \in Forms, k \in {"webhook", "smtp"} : SaveConnector(c, k, in)
               \/ SetEnabled(c) \/ DeleteConnector(c) \/ SaveRule(c)
    BY <1>2, <2>1, OthersKeepWatch, FaultsKeep
  <2>2. CASE \E d \in DOMAIN disp : Dispatch(d) \/ DispatchFails(d)
    BY <1>2, <2>2, OthersKeepWatch, FaultsKeep
  <2>3. CASE Outbox \/ TickFails \/ Tock
    BY <1>2, <2>3, OthersKeepWatch, FaultsKeep
  <2>4. CASE Watch \/ Crash \/ \E a \in BOOLEAN : Result(a)
    BY <1>2, <2>4, ResultKeeps, CheckReadKeeps, CheckTellKeeps, CheckMarkKeeps, CrashKeepsWatch
       DEF Watch
  <2>5. CASE UNCHANGED vars
    BY <1>2, <2>5, FaultsKeep DEF vars, watch, Watched, WatchOK
  <2>6. QED
    BY <1>2, <2>1, <2>2, <2>3, <2>4, <2>5 DEF Next
<1>3. QED
  BY <1>1, <1>2, PTL DEF Spec

\* The mark of the update results (services/update-watch.ts) never passes an alerting one
\* that was not dispatched, and none is dispatched more often than once and once more for
\* each crash or mark that could not be written.
THEOREM ResultsAreTold == Spec => []ResultsTold
<1>1. Watched => ResultsTold
  <2>1. SUFFICES ASSUME Watched
                 PROVE  ResultsTold
    OBVIOUS
  <2>2. DOMAIN results = 1..Len(results)
    BY <2>1, LenProperties DEF Watched, WatchOK
  <2>3. QED
    BY <2>1, <2>2 DEF Watched, Told, ResultsTold
<1>2. QED
  BY <1>1, WatchInvariant, PTL

----------------------------------------------------------------------------
(* The outbox and its journal *)

Row == [conn : Connectors, at : Nat, st : {"pending", "sending", "sent", "failed"},
        att : 0..MaxAttempts, wait : 0..Window + Delay, age : 0..Oldest,
        why : {"none", "full", "off", "tried"}, kept : BOOLEAN]
Attempts == [made : Nat, got : BOOLEAN, cut : Nat]
Tick == [at : {"idle", "row", "send", "record"}, batch : Seq(Nat), ok : BOOLEAN,
         run : 0..TickTime]
Sending == [at : {"free", "load", "insert", "count", "pick", "drop"},
               ids : SUBSET Connectors, over : Nat, drop : SUBSET (DOMAIN rows)]

OutboxOK ==
    /\ rows \in Seq(Row) /\ sends \in Seq(Attempts) /\ Len(sends) = Len(rows)
    /\ tick \in Tick

DispatchOK ==
    /\ rule \subseteq Connectors
    /\ cache \in [age : 0..CacheTtl, ids : SUBSET Connectors]
    /\ disp \in [1..MaxResults -> Sending]
    /\ edits \in 0..MaxUpsets /\ faults \in 0..MaxUpsets

\* The batch names rows, each once, and one of them is being sent or recorded.
BatchOK ==
    /\ \A k \in 1..Len(tick.batch) : tick.batch[k] \in 1..Len(rows)
    /\ \A k, l \in 1..Len(tick.batch) : k # l => tick.batch[k] # tick.batch[l]
    /\ tick.at \in {"send", "record"} => tick.batch # <<>>

Queued(i) == \E k \in 1..Len(tick.batch) : tick.batch[k] = i
Open(i) == tick.at = "record" /\ i = Head(tick.batch)

\* What was made of a row is recorded, was lost, or is the attempt to be recorded next;
\* and a row that may be attempted has attempts left.
Accounted(i) ==
    /\ sends[i].made = rows[i].att + sends[i].cut + (IF Open(i) THEN 1 ELSE 0)
    /\ rows[i].st \in {"pending", "sending"} \/ Queued(i) => rows[i].att < MaxAttempts
    /\ rows[i].why = "tried" => rows[i].att = MaxAttempts
    /\ rows[i].st = "sent" \/ (Open(i) /\ tick.ok) => sends[i].got

Journal == OutboxOK /\ BatchOK /\ \A i \in 1..Len(rows) : Accounted(i)

LEMMA Parameters ==
  /\ MaxAttempts \in Nat \ {0} /\ Window \in Nat \ {0} /\ Limit \in Nat \ {0}
  /\ Batch \in Nat \ {0} /\ QueueCap \in Nat \ {0} /\ Keep \in Nat \ {0}
  /\ Delay \in Nat /\ TickTime \in Nat /\ CacheTtl \in Nat /\ Oldest \in Nat
  /\ MaxTold \in Nat /\ MaxUpsets \in Nat /\ MaxResults \in Nat
  /\ Connectors \subseteq Nat
BY DeliveriesAssumption DEF Oldest

LEMMA InTheJournal ==
  ASSUME OutboxOK
  PROVE  /\ Len(rows) \in Nat /\ DOMAIN rows = 1..Len(rows)
         /\ \A i \in 1..Len(rows) : rows[i] \in Row /\ sends[i] \in Attempts
         /\ tick.batch \in Seq(Nat) /\ Len(tick.batch) \in Nat
         /\ \A k \in 1..Len(tick.batch) : tick.batch[k] \in Nat
<1>1. rows \in Seq(Row) /\ sends \in Seq(Attempts) /\ Len(sends) = Len(rows)
      /\ tick.batch \in Seq(Nat)
  BY DEF OutboxOK, Tick
<1>2. QED
  BY <1>1, LenProperties, ElementOfSeq

\* The row of the tick is the first of the batch, and in no other place of it.
LEMMA HeadOfBatch ==
  ASSUME OutboxOK, BatchOK, tick.batch # <<>>
  PROVE  /\ Head(tick.batch) \in 1..Len(rows) /\ Queued(Head(tick.batch))
         /\ Tail(tick.batch) \in Seq(Nat) /\ Len(Tail(tick.batch)) \in Nat
         /\ \A k \in 1..Len(Tail(tick.batch)) :
              /\ k + 1 \in 1..Len(tick.batch) /\ Tail(tick.batch)[k] = tick.batch[k + 1]
              /\ Tail(tick.batch)[k] # Head(tick.batch)
<1>1. tick.batch \in Seq(Nat) /\ Len(tick.batch) \in Nat \ {0}
  BY InTheJournal, EmptySeq
<1>2. Head(tick.batch) = tick.batch[1]
  BY <1>1
<1>3. Len(Tail(tick.batch)) = Len(tick.batch) - 1
      /\ \A k \in 1..Len(Tail(tick.batch)) : Tail(tick.batch)[k] = tick.batch[k + 1]
  BY <1>1, HeadTailProperties
<1>4. Tail(tick.batch) \in Seq(Nat)
  BY <1>1, HeadTailProperties
<1>5. QED
  BY <1>1, <1>2, <1>3, <1>4 DEF BatchOK, Queued

\* A step that changes one row, or none.
LEMMA RowSet ==
  ASSUME OutboxOK, NEW i \in 1..Len(rows), NEW r \in Row, rows' = [rows EXCEPT ![i] = r]
  PROVE  /\ rows' \in Seq(Row) /\ Len(rows') = Len(rows) /\ rows'[i] = r
         /\ \A j \in 1..Len(rows) : j # i => rows'[j] = rows[j]
BY ExceptSeq DEF OutboxOK

LEMMA SendSet ==
  ASSUME OutboxOK, NEW i \in 1..Len(rows), NEW s \in Attempts, sends' = [sends EXCEPT ![i] = s]
  PROVE  /\ sends' \in Seq(Attempts) /\ Len(sends') = Len(rows) /\ sends'[i] = s
         /\ \A j \in 1..Len(rows) : j # i => sends'[j] = sends[j]
BY ExceptSeq DEF OutboxOK

\* The tick goes on to the next row.
LEMMA NextRowKeeps ==
  ASSUME OutboxOK, BatchOK, tick.batch # <<>>, tick' = NextRow, Len(rows') = Len(rows)
  PROVE  /\ tick' \in Tick /\ tick'.at = "row" /\ BatchOK'
         /\ \A i \in Nat : Queued(i)' => Queued(i) /\ i # Head(tick.batch)
<1>1. tick \in Tick
  BY DEF OutboxOK
<1>2. tick' = [at |-> "row", batch |-> Tail(tick.batch), ok |-> tick.ok, run |-> tick.run]
  BY <1>1 DEF NextRow, Tick
<1>3. tick' \in Tick /\ tick'.at = "row" /\ tick'.batch = Tail(tick.batch)
  BY <1>1, <1>2, HeadOfBatch DEF Tick
<1>4. BatchOK'
  <2>1. ASSUME NEW k \in 1..Len(tick'.batch)
        PROVE  tick'.batch[k] \in 1..Len(rows')
    BY <1>3, HeadOfBatch DEF BatchOK
  <2>2. ASSUME NEW k \in 1..Len(tick'.batch), NEW l \in 1..Len(tick'.batch), k # l
        PROVE  tick'.batch[k] # tick'.batch[l]
    <3>1. /\ k + 1 \in 1..Len(tick.batch) /\ l + 1 \in 1..Len(tick.batch) /\ k + 1 # l + 1
          /\ tick'.batch[k] = tick.batch[k + 1] /\ tick'.batch[l] = tick.batch[l + 1]
      BY <1>3, <2>2, HeadOfBatch
    <3>2. QED
      BY <3>1 DEF BatchOK
  <2>3. QED
    BY <1>3, <2>1, <2>2 DEF BatchOK
<1>5. \A i \in Nat : Queued(i)' => Queued(i) /\ i # Head(tick.batch)
  BY <1>3, HeadOfBatch DEF Queued
<1>6. QED
  BY <1>3, <1>4, <1>5

\* A row is kept when its attempts are, and it is open or queued only as before.
LEMMA UnchangedIsKept ==
  ASSUME NEW i, Accounted(i), rows'[i] = rows[i], sends'[i] = sends[i],
         Queued(i)' => Queued(i), Open(i)' <=> Open(i), Open(i) => tick'.ok = tick.ok
  PROVE  Accounted(i)'
<1>1. sends'[i].made = rows'[i].att + sends'[i].cut + (IF Open(i)' THEN 1 ELSE 0)
  <2>1. CASE Open(i)
    BY <2>1 DEF Accounted
  <2>2. CASE ~Open(i)
    BY <2>2 DEF Accounted
  <2>3. QED
    BY <2>1, <2>2
<1>2. rows'[i].st \in {"pending", "sending"} \/ Queued(i)' => rows'[i].att < MaxAttempts
  BY DEF Accounted
<1>3. rows'[i].why = "tried" => rows'[i].att = MaxAttempts
  BY DEF Accounted
<1>4. rows'[i].st = "sent" \/ (Open(i)' /\ tick'.ok) => sends'[i].got
  BY DEF Accounted
<1>5. QED
  BY <1>1, <1>2, <1>3, <1>4 DEF Accounted

LEMMA OthersKeepJournal ==
  ASSUME Journal, UNCHANGED outbox
  PROVE  Journal'
<1>1. UNCHANGED <<rows, sends, tick>>
  BY DEF outbox
<1>2. QED
  BY <1>1 DEF Journal, OutboxOK, BatchOK, Accounted, Queued, Open

\* An enqueue appends rows that nobody attempted.
LEMMA InsertKeepsJournal ==
  ASSUME Journal, DispatchOK, NEW d \in DOMAIN disp, Insert(d)
  PROVE  Journal' /\ DOMAIN rows \subseteq DOMAIN rows'
<1>1. disp[d].ids \in SUBSET Connectors
  BY DEF DispatchOK, Sending
<1>2. IsFiniteSet(disp[d].ids) /\ disp[d].ids \in SUBSET Nat
  BY <1>1, FS_Subset, DeliveriesAssumption
<1>3. PICK new : new = Ascending(disp[d].ids)
  OBVIOUS
<1>4. new \in Seq(Connectors) /\ Len(new) \in Nat /\ DOMAIN new = 1..Len(new)
  <2>1. new \in Seq(disp[d].ids)
    BY <1>2, <1>3, AscendingLists
  <2>2. QED
    BY <1>1, <2>1, SeqMonotonic, LenProperties
<1> DEFINE news == [i \in 1..Len(new) |-> NewRow(new[i])]
           none == [i \in 1..Len(new) |-> [made |-> 0, got |-> FALSE, cut |-> 0]]
<1>5. /\ rows \in Seq(Row) /\ sends \in Seq(Attempts) /\ Len(sends) = Len(rows)
      /\ Len(rows) \in Nat
  BY InTheJournal DEF Journal, OutboxOK
<1>6. \A c \in Connectors : NewRow(c) \in Row
  BY <1>5, Parameters DEF NewRow, Row
<1>7. news \in Seq(Row) /\ Len(news) = Len(new)
  <2>1. \A i \in 1..Len(new) : NewRow(new[i]) \in Row
    BY <1>4, <1>6, ElementOfSeq
  <2>2. news \in [1..Len(new) -> Row]
    BY <2>1
  <2>3. news \in Seq(Row)
    BY <1>4, <2>2, SeqDef
  <2>4. QED
    BY <1>4, <2>2, <2>3, LenProperties
<1>8. none \in Seq(Attempts) /\ Len(none) = Len(new)
  <2>1. [made |-> 0, got |-> FALSE, cut |-> 0] \in Attempts
    BY DEF Attempts
  <2>2. none \in [1..Len(new) -> Attempts]
    BY <2>1
  <2>3. none \in Seq(Attempts)
    BY <1>4, <2>2, SeqDef
  <2>4. QED
    BY <1>4, <2>2, <2>3, LenProperties
<1>9. rows' = rows \o news /\ sends' = sends \o none /\ tick' = tick
  BY <1>3, <1>4 DEF Insert
<1>10. /\ \A i \in 1..Len(new) : news[i] = NewRow(new[i])
       /\ \A i \in 1..Len(new) : none[i] = [made |-> 0, got |-> FALSE, cut |-> 0]
  OBVIOUS
<1> HIDE DEF news, none
<1>11. /\ rows' \in Seq(Row) /\ Len(rows') = Len(rows) + Len(new)
       /\ \A i \in 1..Len(rows) + Len(new) :
            rows'[i] = IF i <= Len(rows) THEN rows[i] ELSE news[i - Len(rows)]
  <2>1. /\ rows \o news \in Seq(Row) /\ Len(rows \o news) = Len(rows) + Len(news)
        /\ \A i \in 1..Len(rows) + Len(news) :
             (rows \o news)[i] = IF i <= Len(rows) THEN rows[i] ELSE news[i - Len(rows)]
    BY <1>5, <1>7, ConcatProperties
  <2>2. QED
    BY <1>7, <1>9, <2>1
<1>12. /\ sends' \in Seq(Attempts) /\ Len(sends') = Len(rows) + Len(new)
       /\ \A i \in 1..Len(rows) + Len(new) :
            sends'[i] = IF i <= Len(rows) THEN sends[i] ELSE none[i - Len(rows)]
  <2>1. /\ sends \o none \in Seq(Attempts) /\ Len(sends \o none) = Len(sends) + Len(none)
        /\ \A i \in 1..Len(sends) + Len(none) :
             (sends \o none)[i] = IF i <= Len(sends) THEN sends[i] ELSE none[i - Len(sends)]
    BY <1>5, <1>8, ConcatProperties
  <2>2. QED
    BY <1>5, <1>8, <1>9, <2>1
<1>13. OutboxOK'
  BY <1>9, <1>11, <1>12 DEF Journal, OutboxOK
<1>14. BatchOK'
  BY <1>4, <1>5, <1>9, <1>11 DEF Journal, BatchOK
<1>15. ASSUME NEW i \in 1..Len(rows)
       PROVE  Accounted(i)'
  <2>1. Accounted(i) /\ i \in 1..Len(rows) + Len(new) /\ i <= Len(rows)
    BY <1>4, <1>5 DEF Journal
  <2>2. rows'[i] = rows[i] /\ sends'[i] = sends[i]
    BY <1>11, <1>12, <2>1
  <2>3. (Queued(i)' => Queued(i)) /\ (Open(i)' <=> Open(i)) /\ tick'.ok = tick.ok
    BY <1>9 DEF Queued, Open
  <2>4. QED
    BY <2>1, <2>2, <2>3, UnchangedIsKept
<1>16. ASSUME NEW i \in 1..Len(rows) + Len(new), i > Len(rows)
       PROVE  Accounted(i)'
  <2>1. i - Len(rows) \in 1..Len(new) /\ ~(i <= Len(rows))
    BY <1>4, <1>5, <1>16
  <2>2. rows'[i] = NewRow(new[i - Len(rows)])
    BY <1>10, <1>11, <2>1
  <2>3. sends'[i] = [made |-> 0, got |-> FALSE, cut |-> 0]
    BY <1>10, <1>12, <2>1
  <2>4. ~Queued(i)
    BY <1>5, <1>16 DEF Journal, BatchOK, Queued
  <2>5. ~Open(i)
    <3>1. tick.at = "record" => Head(tick.batch) \in 1..Len(rows)
      BY HeadOfBatch DEF Journal, BatchOK
    <3>2. QED
      BY <1>5, <1>16, <3>1 DEF Open
  <2>6. ~(Open(i)') /\ ~(Queued(i)')
    BY <1>9, <2>4, <2>5 DEF Open, Queued
  <2>7. QED
    BY <2>2, <2>3, <2>6, Parameters DEF Accounted, NewRow
<1>17. QED
  <2>1. Journal'
    BY <1>5, <1>11, <1>13, <1>14, <1>15, <1>16 DEF Journal
  <2>2. DOMAIN rows = 1..Len(rows) /\ DOMAIN rows' = 1..Len(rows')
    BY <1>5, <1>11, LenProperties
  <2>3. QED
    BY <1>4, <1>5, <1>11, <2>1, <2>2

\* An update of a row that is not of its attempts leaves its account as it was.
LEMMA RowEdited ==
  ASSUME Journal, NEW i \in 1..Len(rows), NEW r \in Row, rows' = [rows EXCEPT ![i] = r],
         sends' = sends, tick' = tick, r.att = rows[i].att, r.st = "failed", r.why # "tried"
  PROVE  Journal'
<1>1. /\ rows' \in Seq(Row) /\ Len(rows') = Len(rows) /\ rows'[i] = r
      /\ \A j \in 1..Len(rows) : j # i => rows'[j] = rows[j]
  BY RowSet DEF Journal
<1>2. OutboxOK'
  BY <1>1 DEF Journal, OutboxOK
<1>3. BatchOK'
  BY <1>1 DEF Journal, BatchOK
<1>4. \A j \in 1..Len(rows) : (Queued(j)' <=> Queued(j)) /\ (Open(j)' <=> Open(j))
  BY DEF Queued, Open
<1>5. ASSUME NEW j \in 1..Len(rows)
      PROVE  Accounted(j)'
  <2>1. Accounted(j)
    BY DEF Journal
  <2>2. CASE j # i
    BY <1>1, <1>4, <2>1, <2>2, UnchangedIsKept
  <2>3. CASE j = i
    <3>1. sends'[i].made = rows'[i].att + sends'[i].cut + (IF Open(i)' THEN 1 ELSE 0)
      <4>1. CASE Open(i)
        BY <1>1, <1>4, <2>1, <2>3, <4>1 DEF Accounted
      <4>2. CASE ~Open(i)
        BY <1>1, <1>4, <2>1, <2>3, <4>2 DEF Accounted
      <4>3. QED
        BY <4>1, <4>2
    <3>2. rows'[i].st \in {"pending", "sending"} \/ Queued(i)' => rows'[i].att < MaxAttempts
      BY <1>1, <1>4, <2>1, <2>3 DEF Accounted
    <3>3. rows'[i].st = "sent" \/ (Open(i)' /\ tick'.ok) => sends'[i].got
      BY <1>1, <1>4, <2>1, <2>3 DEF Accounted
    <3>4. QED
      BY <1>1, <2>3, <3>1, <3>2, <3>3 DEF Accounted
  <2>4. QED
    BY <2>2, <2>3
<1>6. QED
  BY <1>1, <1>2, <1>3, <1>5 DEF Journal

\* The queue at its limit: a row that is dropped keeps its account.
LEMMA DropKeepsJournal ==
  ASSUME Journal, DispatchOK, NEW d \in DOMAIN disp, Drop(d)
  PROVE  Journal'
<1> DEFINE ids == disp[d].drop
<1>1. ids \in SUBSET (1..Len(rows)) /\ Len(rows) \in Nat
  BY InTheJournal DEF DispatchOK, Sending, Journal
<1>2. UNCHANGED <<sends, tick>>
  BY DEF Drop
<1>3. CASE rows' = rows
  BY <1>2, <1>3, OthersKeepJournal DEF outbox
<1>4. CASE rows' # rows
  <2>1. ids # {} /\ rows' = [rows EXCEPT ![Min(ids)].st = "failed", ![Min(ids)].why = "full",
                                         ![Min(ids)].wait = 0]
    BY <1>4 DEF Drop
  <2>2. PICK i \in 1..Len(rows) : i = Min(ids)
    BY <1>1, <2>1, MinIsIn
  <2>3. rows[i] \in Row /\ rows \in Seq(Row) /\ DOMAIN rows = 1..Len(rows)
    BY InTheJournal DEF Journal, OutboxOK
  <2>4. PICK r : r = [rows[i] EXCEPT !.st = "failed", !.why = "full", !.wait = 0]
    OBVIOUS
  <2>5. 0 \in 0..Window + Delay
    BY Parameters
  <2>6. r \in Row /\ r.att = rows[i].att /\ r.st = "failed" /\ r.why = "full"
    BY <2>3, <2>4, <2>5 DEF Row
  <2>7. rows' = [rows EXCEPT ![i] = r]
    BY <2>1, <2>2, <2>3, <2>4
  <2>8. QED
    BY <1>2, <2>6, <2>7, RowEdited
<1>5. QED
  BY <1>3, <1>4

\* The beginning of a list of different numbers.
LEMMA PrefixLists ==
  ASSUME NEW S \in SUBSET Nat, NEW all \in Seq(S), NEW m \in Nat, m <= Len(all), NEW b,
         b = SubSeq(all, 1, m), \A k, l \in 1..Len(all) : k < l => all[k] < all[l]
  PROVE  /\ b \in Seq(Nat) /\ Len(b) \in Nat
         /\ \A k \in 1..Len(b) : b[k] \in S
         /\ \A k, l \in 1..Len(b) : k # l => b[k] # b[l]
<1>1. Len(all) \in Nat /\ \A k \in 1..m : k \in 1..Len(all)
  BY LenProperties
<1>2. \A k \in 1..m : all[k] \in S
  BY <1>1, ElementOfSeq
<1>3. /\ b \in Seq(S)
      /\ Len(b) = IF 1 <= m THEN m - 1 + 1 ELSE 0
      /\ \A k \in 1..m - 1 + 1 : b[k] = all[1 + k - 1]
  <2>1. m \in Int /\ 1 \in Int
    OBVIOUS
  <2>2. QED
    BY <1>2, <2>1, SubSeqProperties
<1>4. Len(b) = m
  BY <1>3
<1>5. ASSUME NEW k \in 1..m
      PROVE  b[k] = all[k] /\ b[k] \in Nat /\ b[k] \in S
  <2>1. k \in 1..m - 1 + 1 /\ 1 + k - 1 = k
    OBVIOUS
  <2>2. QED
    BY <1>2, <1>3, <2>1
<1>6. ASSUME NEW k \in 1..m, NEW l \in 1..m, k # l
      PROVE  b[k] # b[l]
  <2>1. k < l \/ l < k
    BY <1>6
  <2>2. all[k] < all[l] \/ all[l] < all[k]
    BY <1>1, <2>1
  <2>3. QED
    BY <1>5, <2>2
<1>7. b \in Seq(Nat)
  BY <1>3, SeqMonotonic
<1>8. QED
  BY <1>4, <1>5, <1>6, <1>7

\* The due rows, oldest first and as many as a batch takes.
LEMMA BatchOf ==
  ASSUME NEW n \in Nat, NEW due \in SUBSET (1..n)
  PROVE  LET b == SubSeq(Ascending(due), 1, Min({Batch, Len(Ascending(due))})) IN
         /\ b \in Seq(Nat) /\ Len(b) \in Nat
         /\ \A k \in 1..Len(b) : b[k] \in due
         /\ \A k, l \in 1..Len(b) : k # l => b[k] # b[l]
<1>1. PICK all : all = Ascending(due)
  OBVIOUS
<1>2. IsFiniteSet(due) /\ due \in SUBSET Nat
  <2>1. IsFiniteSet(1..n)
    BY FS_Interval
  <2>2. IsFiniteSet(due)
    BY <2>1, FS_Subset
  <2>3. due \in SUBSET Nat
    OBVIOUS
  <2>4. QED
    BY <2>2, <2>3
<1>3. /\ all \in Seq(due) /\ Len(all) \in Nat
      /\ \A k, l \in 1..Len(all) : k < l => all[k] < all[l]
  BY <1>1, <1>2, AscendingLists, LenProperties
<1>4. PICK m : m = Min({Batch, Len(all)})
  OBVIOUS
<1>5. m \in Nat /\ m <= Len(all)
  <2>1. {Batch, Len(all)} \in SUBSET Nat /\ {Batch, Len(all)} # {}
    BY <1>3, Parameters
  <2>2. m \in {Batch, Len(all)} /\ m <= Len(all)
    BY <1>4, <2>1, MinIsIn
  <2>3. QED
    BY <2>1, <2>2
<1>6. PICK b : b = SubSeq(all, 1, m)
  OBVIOUS
<1>7. /\ b \in Seq(Nat) /\ Len(b) \in Nat
      /\ \A k \in 1..Len(b) : b[k] \in due
      /\ \A k, l \in 1..Len(b) : k # l => b[k] # b[l]
  BY <1>2, <1>3, <1>5, <1>6, PrefixLists
<1>8. QED
  BY <1>1, <1>4, <1>6, <1>7

\* What was left "sending" has attempts left, as what is pending has.
LEMMA TickStartKeepsJournal ==
  ASSUME Journal, TickStart
  PROVE  Journal'
<1>1. /\ Len(rows) \in Nat /\ DOMAIN rows = 1..Len(rows) /\ rows \in Seq(Row)
      /\ \A i \in 1..Len(rows) : rows[i] \in Row
      /\ sends \in Seq(Attempts) /\ Len(sends) = Len(rows) /\ tick \in Tick
  BY InTheJournal DEF Journal, OutboxOK
<1>2. PICK due : due = {i \in DOMAIN rows : rows[i].st \in {"pending", "sending"}
                                            /\ rows[i].wait = 0}
  OBVIOUS
<1>3. PICK b : b = SubSeq(Ascending(due), 1, Min({Batch, Len(Ascending(due))}))
  OBVIOUS
<1>4. /\ b \in Seq(Nat) /\ Len(b) \in Nat
      /\ \A k \in 1..Len(b) : b[k] \in due
      /\ \A k, l \in 1..Len(b) : k # l => b[k] # b[l]
  <2>1. due \in SUBSET (1..Len(rows))
    BY <1>1, <1>2
  <2>2. QED
    BY <1>1, <1>3, <2>1, BatchOf
<1>5. /\ tick.at = "idle" /\ sends' = sends
      /\ tick' = [Idle EXCEPT !.at = "row", !.batch = b]
      /\ rows' = [i \in DOMAIN rows |-> IF rows[i].st = "sending"
                                        THEN [rows[i] EXCEPT !.st = "pending"] ELSE rows[i]]
  BY <1>2, <1>3 DEF TickStart
<1>6. tick' \in Tick /\ tick'.at = "row" /\ tick'.batch = b
  <2>1. tick' = [at |-> "row", batch |-> b, ok |-> FALSE, run |-> 0]
    BY <1>5 DEF Idle
  <2>2. QED
    BY <1>4, <2>1, Parameters DEF Tick
<1>7. ASSUME NEW i \in 1..Len(rows)
      PROVE  /\ rows'[i] \in Row /\ rows'[i].att = rows[i].att /\ rows'[i].why = rows[i].why
             /\ rows'[i].st \in {"pending", "sending"} <=> rows[i].st \in {"pending", "sending"}
             /\ rows'[i].st = "sent" <=> rows[i].st = "sent"
  <2>1. rows[i] \in Row
    BY <1>1
  <2>2. CASE rows[i].st = "sending"
    <3>1. PICK r : r = [rows[i] EXCEPT !.st = "pending"]
      OBVIOUS
    <3>2. r \in Row /\ r.att = rows[i].att /\ r.why = rows[i].why /\ r.st = "pending"
      BY <2>1, <3>1 DEF Row
    <3>3. rows'[i] = r
      BY <1>1, <1>5, <2>2, <3>1
    <3>4. QED
      BY <2>2, <3>2, <3>3
  <2>3. CASE rows[i].st # "sending"
    <3>1. rows'[i] = rows[i]
      BY <1>1, <1>5, <2>3
    <3>2. QED
      BY <2>1, <3>1
  <2>4. QED
    BY <2>2, <2>3
<1>8. rows' \in Seq(Row) /\ Len(rows') = Len(rows)
  <2>1. DOMAIN rows' = 1..Len(rows) /\ rows' = [i \in 1..Len(rows) |-> rows'[i]]
    BY <1>1, <1>5
  <2>2. rows' \in [1..Len(rows) -> Row]
    BY <1>7, <2>1
  <2>3. rows' \in Seq(Row)
    BY <1>1, <2>2, SeqDef
  <2>4. QED
    BY <1>1, <2>1, <2>3, LenProperties
<1>9. OutboxOK'
  BY <1>1, <1>5, <1>6, <1>8 DEF OutboxOK
<1>10. BatchOK'
  BY <1>1, <1>2, <1>4, <1>6, <1>8 DEF BatchOK
<1>11. ASSUME NEW i \in 1..Len(rows)
       PROVE  Accounted(i)'
  <2>1. Accounted(i) /\ ~Open(i) /\ ~(Open(i)')
    BY <1>5, <1>6 DEF Journal, Open
  <2>2. Queued(i)' => rows[i].st \in {"pending", "sending"}
    BY <1>2, <1>4, <1>6 DEF Queued
  <2>3. QED
    BY <1>5, <1>7, <2>1, <2>2 DEF Accounted
<1>12. QED
  BY <1>8, <1>9, <1>10, <1>11 DEF Journal

\* The row of the Limit-th youngest record exists where there are that many.
LEMMA UntilType ==
  ASSUME OutboxOK, NEW c, Limited(c)
  PROVE  Until(c) \in 0..Window + Delay
<1> DEFINE S == Recent(c)
           R == {p \in S \X S : \/ rows[p[1]].age < rows[p[2]].age
                                \/ rows[p[1]].age = rows[p[2]].age /\ p[1] > p[2]}
<1>1. /\ Len(rows) \in Nat /\ DOMAIN rows = 1..Len(rows)
      /\ \A i \in 1..Len(rows) : rows[i].age \in Nat
  BY InTheJournal, Parameters DEF Row
<1>2. S \in SUBSET (1..Len(rows))
  BY <1>1 DEF Recent
<1>3. IsFiniteSet(S)
  <2>1. IsFiniteSet(1..Len(rows))
    BY <1>1, FS_Interval
  <2>2. QED
    BY <1>2, <2>1, FS_Subset
<1>4. \A i \in S : i \in Nat /\ rows[i].age \in Nat
  BY <1>1, <1>2
<1>5. \A i \in S : Before(S, R, i) = {j \in S : \/ rows[j].age < rows[i].age
                                                \/ rows[j].age = rows[i].age /\ j > i}
  <2> HIDE DEF S
  <2>1. QED
    BY DEF Before
<1>6. StrictOrder(S, R)
  <2> HIDE DEF S
  <2>1. QED
    BY <1>4 DEF StrictOrder
<1>7. Limit - 1 \in 0..Cardinality(S) - 1
  BY <1>3, FS_CardinalityType, Parameters DEF Limited
<1>8. \E i \in S : Cardinality(Before(S, R, i)) = Limit - 1
  <2> HIDE DEF S, R
  <2>1. QED
    BY <1>3, <1>6, <1>7, PlacesTaken
<1>9. PICK kth : kth = CHOOSE i \in Recent(c) :
                    LET younger == {j \in Recent(c) : \/ rows[j].age < rows[i].age
                                                      \/ rows[j].age = rows[i].age /\ j > i}
                    IN Cardinality(younger) = Limit - 1
  OBVIOUS
<1>10. kth \in S
  BY <1>5, <1>8, <1>9
<1>11. rows[kth].age \in Nat
  BY <1>4, <1>10
<1>12. Until(c) = IF rows[kth].age < Window THEN Window - rows[kth].age ELSE 0
  BY <1>9 DEF Until
<1>13. QED
  BY <1>11, <1>12, Parameters

\* The row of the tick changes before its attempt: its account does not.
LEMMA RowTaken ==
  ASSUME Journal, tick.at = "row", tick.batch # <<>>, NEW r \in Row,
         rows' = [rows EXCEPT ![Head(tick.batch)] = r], sends' = sends,
         r.att = rows[Head(tick.batch)].att,
         r.why = "tried" => rows[Head(tick.batch)].why = "tried",
         r.st = "sent" => rows[Head(tick.batch)].st = "sent",
         tick' \in Tick, tick'.at # "record", Len(rows') = Len(rows) => BatchOK',
         \A i \in Nat : Queued(i)' => Queued(i)
  PROVE  Journal'
<1>1. PICK h \in 1..Len(rows) : h = Head(tick.batch) /\ Queued(h)
  BY HeadOfBatch DEF Journal
<1>2. /\ rows' \in Seq(Row) /\ Len(rows') = Len(rows) /\ rows'[h] = r
      /\ \A i \in 1..Len(rows) : i # h => rows'[i] = rows[i]
  BY <1>1, RowSet DEF Journal
<1>3. OutboxOK'
  BY <1>2 DEF Journal, OutboxOK
<1>4. ASSUME NEW i \in 1..Len(rows)
      PROVE  Accounted(i)'
  <2>1. Accounted(i) /\ ~Open(i) /\ ~(Open(i)') /\ (Queued(i)' => Queued(i))
    BY InTheJournal DEF Journal, Open
  <2>2. CASE i # h
    BY <1>2, <2>1, <2>2, UnchangedIsKept
  <2>3. CASE i = h
    BY <1>1, <1>2, <2>1, <2>3 DEF Accounted
  <2>4. QED
    BY <2>2, <2>3
<1>5. QED
  BY <1>2, <1>3, <1>4 DEF Journal

LEMMA TickRowKeepsJournal ==
  ASSUME Journal, TickRow
  PROVE  Journal'
<1> DEFINE h == Head(tick.batch)
<1>1. tick.at = "row" /\ tick.batch # <<>> /\ sends' = sends
  BY DEF TickRow
<1>2. OutboxOK /\ BatchOK /\ tick \in Tick
  BY DEF Journal, OutboxOK
<1>3. h \in 1..Len(rows) /\ rows[h] \in Row /\ DOMAIN rows = 1..Len(rows)
  BY <1>1, <1>2, HeadOfBatch, InTheJournal
<1>4. 0 \in 0..Window + Delay
  BY Parameters
<1>5. ASSUME tick' = NextRow, Len(rows') = Len(rows)
      PROVE  /\ tick' \in Tick /\ tick'.at # "record" /\ BatchOK'
             /\ \A i \in Nat : Queued(i)' => Queued(i)
  BY <1>1, <1>2, <1>5, NextRowKeeps
<1>6. CASE /\ rows' = [rows EXCEPT ![h].st = "failed", ![h].why = "off", ![h].wait = 0]
           /\ tick' = NextRow
  <2>1. PICK r : r = [rows[h] EXCEPT !.st = "failed", !.why = "off", !.wait = 0]
    OBVIOUS
  <2>2. r \in Row /\ r.att = rows[h].att /\ r.st = "failed" /\ r.why = "off"
    BY <1>3, <1>4, <2>1 DEF Row
  <2>3. rows' = [rows EXCEPT ![h] = r]
    BY <1>3, <1>6, <2>1
  <2>4. QED
    BY <1>1, <1>2, <1>3, <1>5, <1>6, <2>2, <2>3, RowTaken, RowSet
<1>7. CASE /\ Limited(rows[h].conn) /\ tick' = NextRow
           /\ rows' = [rows EXCEPT ![h].wait = Until(rows[h].conn)]
  <2>1. PICK w \in 0..Window + Delay : w = Until(rows[h].conn)
    BY <1>2, <1>7, UntilType
  <2>2. PICK r : r = [rows[h] EXCEPT !.wait = w]
    OBVIOUS
  <2>3. r \in Row /\ r.att = rows[h].att /\ r.st = rows[h].st /\ r.why = rows[h].why
    BY <1>3, <2>2 DEF Row
  <2>4. rows' = [rows EXCEPT ![h] = r]
    BY <1>3, <1>7, <2>1, <2>2
  <2>5. QED
    BY <1>1, <1>2, <1>3, <1>5, <1>7, <2>3, <2>4, RowTaken, RowSet
<1>8. CASE /\ rows' = [rows EXCEPT ![h].st = "sending"]
           /\ tick' = [tick EXCEPT !.at = "send"]
  <2>1. PICK r : r = [rows[h] EXCEPT !.st = "sending"]
    OBVIOUS
  <2>2. r \in Row /\ r.att = rows[h].att /\ r.st = "sending" /\ r.why = rows[h].why
    BY <1>3, <2>1 DEF Row
  <2>3. rows' = [rows EXCEPT ![h] = r]
    BY <1>3, <1>8, <2>1
  <2>4. tick' \in Tick /\ tick'.at = "send" /\ tick'.batch = tick.batch
    BY <1>2, <1>8 DEF Tick
  <2>5. Len(rows') = Len(rows)
    BY <1>2, <1>3, <2>2, <2>3, RowSet
  <2>6. BatchOK' /\ \A i \in Nat : Queued(i)' => Queued(i)
    BY <1>1, <1>2, <2>4, <2>5 DEF BatchOK, Queued
  <2>7. QED
    BY <1>1, <2>2, <2>3, <2>4, <2>6, RowTaken
<1>9. QED
  BY <1>6, <1>7, <1>8 DEF TickRow

\* An attempt was made: its record is the next thing to come.
LEMMA TickSendKeepsJournal ==
  ASSUME Journal, TickSend
  PROVE  Journal'
<1>1. tick.at = "send" /\ tick.batch # <<>> /\ rows' = rows
  BY DEF TickSend, Journal, BatchOK
<1>2. OutboxOK /\ BatchOK /\ tick \in Tick
  BY DEF Journal, OutboxOK
<1>3. PICK h \in 1..Len(rows) : h = Head(tick.batch)
  BY <1>1, <1>2, HeadOfBatch
<1>4. sends[h] \in Attempts /\ rows[h] \in Row /\ Queued(h) /\ DOMAIN sends = 1..Len(rows)
  BY <1>1, <1>2, <1>3, HeadOfBatch, InTheJournal, LenProperties DEF OutboxOK
<1>5. PICK ok \in BOOLEAN, got \in BOOLEAN :
         /\ ok => got
         /\ sends' = [sends EXCEPT ![h].made = @ + 1, ![h].got = @ \/ got]
         /\ tick' = [tick EXCEPT !.at = "record", !.ok = ok]
  BY <1>3 DEF TickSend
<1>6. PICK s : s = [sends[h] EXCEPT !.made = @ + 1, !.got = @ \/ got]
  OBVIOUS
<1>7. /\ s \in Attempts /\ s.made = sends[h].made + 1 /\ s.cut = sends[h].cut
      /\ sends[h].got \/ ok => s.got
  <2>1. sends[h].made + 1 \in Nat /\ (sends[h].got \/ got) \in BOOLEAN
    BY <1>4 DEF Attempts
  <2>2. s \in Attempts
    BY <1>4, <1>6, <2>1 DEF Attempts
  <2>3. s.made = sends[h].made + 1 /\ s.cut = sends[h].cut
    BY <1>4, <1>6 DEF Attempts
  <2>4. s.got <=> sends[h].got \/ got
    BY <1>4, <1>6 DEF Attempts
  <2>5. QED
    BY <1>5, <2>2, <2>3, <2>4
<1>8. sends' = [sends EXCEPT ![h] = s]
  BY <1>4, <1>5, <1>6
<1>9. /\ sends' \in Seq(Attempts) /\ Len(sends') = Len(rows) /\ sends'[h] = s
      /\ \A i \in 1..Len(rows) : i # h => sends'[i] = sends[i]
  BY <1>2, <1>7, <1>8, SendSet
<1>10. tick' \in Tick /\ tick'.at = "record" /\ tick'.batch = tick.batch /\ tick'.ok = ok
  BY <1>2, <1>5 DEF Tick
<1>11. OutboxOK' /\ BatchOK'
  BY <1>1, <1>2, <1>9, <1>10 DEF OutboxOK, BatchOK
<1>12. ASSUME NEW i \in 1..Len(rows)
       PROVE  Accounted(i)'
  <2>1. Accounted(i) /\ ~Open(i) /\ (Open(i)' <=> i = h) /\ (Queued(i)' <=> Queued(i))
    BY <1>1, <1>3, <1>10 DEF Journal, Open, Queued
  <2>2. CASE i # h
    BY <1>1, <1>9, <2>1, <2>2, UnchangedIsKept
  <2>3. CASE i = h
    <3>1. sends[h].made \in Nat /\ sends[h].cut \in Nat /\ rows[h].att \in Nat
      BY <1>4, Parameters DEF Attempts, Row
    <3>2. sends'[i].made = rows'[i].att + sends'[i].cut + (IF Open(i)' THEN 1 ELSE 0)
      BY <1>1, <1>7, <1>9, <2>1, <2>3, <3>1 DEF Accounted
    <3>3. rows'[i].st \in {"pending", "sending"} \/ Queued(i)' => rows'[i].att < MaxAttempts
      BY <1>1, <2>1 DEF Accounted
    <3>4. rows'[i].st = "sent" \/ (Open(i)' /\ tick'.ok) => sends'[i].got
      BY <1>1, <1>7, <1>9, <1>10, <2>1, <2>3 DEF Accounted
    <3>5. QED
      BY <1>1, <2>1, <3>2, <3>3, <3>4 DEF Accounted
  <2>4. QED
    BY <2>2, <2>3
<1>13. QED
  BY <1>1, <1>11, <1>12 DEF Journal

\* planAfterAttempt counts the attempt: the row is sent, has attempts left or has had all.
LEMMA AfterAttemptRow ==
  ASSUME NEW r \in Row, NEW ok \in BOOLEAN, r.att < MaxAttempts, tick \in Tick
  PROVE  LET a == AfterAttempt(r, ok) IN
         /\ a \in Row /\ a.att = r.att + 1 /\ (a.st = "sent" => ok)
         /\ a.st \in {"pending", "sending"} => a.att < MaxAttempts
         /\ a.why = "tried" => a.att = MaxAttempts
<1>1. /\ r.att \in Nat /\ r.att + 1 \in 0..MaxAttempts /\ 0 \in 0..Window + Delay
      /\ MaxAttempts \in Nat
  BY Parameters DEF Row
<1>2. tick.run \in 0..Oldest /\ Sooner(Delay) \in 0..Window + Delay
  BY Parameters DEF Tick, Sooner, Oldest
<1>3. PICK n \in 0..MaxAttempts : n = r.att + 1
  BY <1>1
<1>4. PICK a : a = AfterAttempt(r, ok)
  OBVIOUS
<1>5. CASE ok
  <2>1. a = [r EXCEPT !.st = "sent", !.why = "none", !.att = n, !.wait = 0, !.age = tick.run]
    BY <1>3, <1>4, <1>5 DEF AfterAttempt
  <2>2. a \in Row /\ a.att = n /\ a.st = "sent" /\ a.why = "none"
    BY <1>1, <1>2, <2>1 DEF Row
  <2>3. QED
    BY <1>3, <1>4, <1>5, <2>2
<1>6. CASE ~ok /\ n >= MaxAttempts
  <2>1. a = [r EXCEPT !.st = "failed", !.why = "tried", !.att = n, !.wait = 0]
    BY <1>3, <1>4, <1>6 DEF AfterAttempt
  <2>2. a \in Row /\ a.att = n /\ a.st = "failed" /\ a.why = "tried"
    BY <1>1, <1>2, <2>1 DEF Row
  <2>3. n = MaxAttempts
    BY <1>1, <1>6
  <2>4. QED
    BY <1>3, <1>4, <2>2, <2>3
<1>7. CASE ~ok /\ ~(n >= MaxAttempts)
  <2>1. a = [r EXCEPT !.st = "pending", !.why = "none", !.att = n, !.wait = Sooner(Delay)]
    BY <1>3, <1>4, <1>7 DEF AfterAttempt
  <2>2. a \in Row /\ a.att = n /\ a.st = "pending" /\ a.why = "none"
    BY <1>1, <1>2, <2>1 DEF Row
  <2>3. n < MaxAttempts
    BY <1>1, <1>7
  <2>4. QED
    BY <1>3, <1>4, <2>2, <2>3
<1>8. QED
  BY <1>5, <1>6, <1>7

\* The attempt is recorded, in the row it was made of and in no other.
LEMMA TickRecordKeepsJournal ==
  ASSUME Journal, TickRecord
  PROVE  Journal'
<1>1. tick.at = "record" /\ tick.batch # <<>> /\ sends' = sends /\ tick' = NextRow
  BY DEF TickRecord, Journal, BatchOK
<1>2. OutboxOK /\ BatchOK /\ tick \in Tick /\ tick.ok \in BOOLEAN
  BY DEF Journal, OutboxOK, Tick
<1>3. PICK h \in 1..Len(rows) : h = Head(tick.batch)
  BY <1>1, <1>2, HeadOfBatch
<1>4. rows[h] \in Row /\ Queued(h) /\ Open(h) /\ Accounted(h) /\ DOMAIN rows = 1..Len(rows)
  BY <1>1, <1>2, <1>3, HeadOfBatch, InTheJournal DEF Open, Journal
<1>5. PICK r : r = AfterAttempt(rows[h], tick.ok)
  OBVIOUS
<1>6. /\ r \in Row /\ r.att = rows[h].att + 1 /\ (r.st = "sent" => tick.ok)
      /\ r.st \in {"pending", "sending"} => r.att < MaxAttempts
      /\ r.why = "tried" => r.att = MaxAttempts
  <2>1. rows[h].att < MaxAttempts
    BY <1>4 DEF Accounted
  <2>2. QED
    BY <1>2, <1>4, <1>5, <2>1, AfterAttemptRow
<1>7. rows' = [rows EXCEPT ![h] = r]
  BY <1>3, <1>4, <1>5 DEF TickRecord
<1>8. /\ rows' \in Seq(Row) /\ Len(rows') = Len(rows) /\ rows'[h] = r
      /\ \A i \in 1..Len(rows) : i # h => rows'[i] = rows[i]
  BY <1>2, <1>6, <1>7, RowSet
<1>9. /\ tick' \in Tick /\ tick'.at = "row" /\ BatchOK'
      /\ \A i \in 1..Len(rows) : Queued(i)' => Queued(i) /\ i # h
  BY <1>1, <1>2, <1>3, <1>8, NextRowKeeps
<1>10. OutboxOK'
  BY <1>1, <1>2, <1>8, <1>9 DEF OutboxOK
<1>11. ASSUME NEW i \in 1..Len(rows)
       PROVE  Accounted(i)'
  <2>1. Accounted(i) /\ ~(Open(i)') /\ (Queued(i)' => Queued(i) /\ i # h) /\ (Open(i) <=> i = h)
    BY <1>1, <1>3, <1>9 DEF Journal, Open
  <2>2. CASE i # h
    BY <1>1, <1>8, <2>1, <2>2, UnchangedIsKept
  <2>3. CASE i = h
    <3>1. sends[h].cut \in Nat /\ rows[h].att \in Nat
      BY <1>2, <1>4, InTheJournal, Parameters DEF Attempts, Row
    <3>2. sends'[h].made = rows'[h].att + sends'[h].cut
      <4>1. sends[h].made = rows[h].att + sends[h].cut + 1
        BY <1>4 DEF Accounted
      <4>2. QED
        BY <1>1, <1>6, <1>8, <3>1, <4>1
    <3>3. rows'[h].st = "sent" => sends'[h].got
      BY <1>1, <1>4, <1>6, <1>8 DEF Accounted
    <3>4. sends'[h].made = rows'[h].att + sends'[h].cut + (IF Open(h)' THEN 1 ELSE 0)
      BY <1>1, <1>6, <1>8, <2>1, <2>3, <3>1, <3>2
    <3>5. QED
      BY <1>6, <1>8, <2>1, <2>3, <3>3, <3>4 DEF Accounted
  <2>4. QED
    BY <2>2, <2>3
<1>12. QED
  BY <1>8, <1>9, <1>10, <1>11 DEF Journal

\* Every row changes in what is no part of its account.
LEMMA RowsTouched ==
  ASSUME Journal, Len(rows) \in Nat, DOMAIN rows' = 1..Len(rows),
         rows' = [i \in 1..Len(rows) |-> rows'[i]],
         \A i \in 1..Len(rows) : /\ rows'[i] \in Row /\ rows'[i].att = rows[i].att
                                 /\ rows'[i].why = rows[i].why /\ rows'[i].st = rows[i].st,
         sends' = sends, tick' \in Tick, BatchOK \/ tick'.batch = <<>>,
         \/ tick'.at = tick.at /\ tick'.batch = tick.batch /\ tick'.ok = tick.ok
         \/ tick'.at = "idle" /\ tick'.batch = <<>> /\ tick.at # "record"
  PROVE  Journal'
<1>1. rows' \in Seq(Row) /\ Len(rows') = Len(rows)
  <2>1. rows' \in [1..Len(rows) -> Row]
    OBVIOUS
  <2>2. rows' \in Seq(Row)
    BY <2>1, SeqDef
  <2>3. QED
    BY <2>2, LenProperties
<1>2. OutboxOK'
  BY <1>1 DEF Journal, OutboxOK
<1>3. BatchOK'
  BY <1>1 DEF Journal, BatchOK
<1>4. ASSUME NEW i \in 1..Len(rows)
      PROVE  Accounted(i)'
  <2>1. Accounted(i) /\ (Open(i)' <=> Open(i)) /\ (Queued(i)' => Queued(i))
        /\ (Open(i) => tick'.ok = tick.ok)
    BY DEF Journal, Open, Queued
  <2>2. sends'[i].made = rows'[i].att + sends'[i].cut + (IF Open(i)' THEN 1 ELSE 0)
    <3>1. CASE Open(i)
      BY <2>1, <3>1 DEF Accounted
    <3>2. CASE ~Open(i)
      BY <2>1, <3>2 DEF Accounted
    <3>3. QED
      BY <3>1, <3>2
  <2>3. rows'[i].st \in {"pending", "sending"} \/ Queued(i)' => rows'[i].att < MaxAttempts
    BY <2>1 DEF Accounted
  <2>4. rows'[i].st = "sent" \/ (Open(i)' /\ tick'.ok) => sends'[i].got
    BY <2>1 DEF Accounted
  <2>5. QED
    BY <2>1, <2>2, <2>3, <2>4 DEF Accounted
<1>5. QED
  BY <1>1, <1>2, <1>3, <1>4 DEF Journal

LEMMA IdleIsATick == Idle \in Tick /\ Idle.at = "idle" /\ Idle.batch = <<>>
BY EmptySeq, Parameters DEF Idle, Tick

\* prune forgets rows that ended, and no account.
LEMMA TickEndKeepsJournal ==
  ASSUME Journal, TickEnd
  PROVE  Journal'
<1>1. /\ Len(rows) \in Nat /\ DOMAIN rows = 1..Len(rows)
      /\ \A i \in 1..Len(rows) : rows[i] \in Row
  BY InTheJournal DEF Journal
<1>2. PICK ended : ended = {i \in DOMAIN rows : rows[i].kept /\ rows[i].st \in {"sent", "failed"}}
  OBVIOUS
<1>3. rows' = [i \in DOMAIN rows |->
                 [rows[i] EXCEPT !.kept = @ /\ (i \in ended =>
                    Cardinality({j \in ended : rows[j].at > rows[i].at}) < Keep)]]
  BY <1>2 DEF TickEnd
<1>4. ASSUME NEW i \in 1..Len(rows)
      PROVE  /\ rows'[i] \in Row /\ rows'[i].att = rows[i].att
             /\ rows'[i].why = rows[i].why /\ rows'[i].st = rows[i].st
  <2>1. PICK k \in BOOLEAN :
           k <=> rows[i].kept /\ (i \in ended =>
                   Cardinality({j \in ended : rows[j].at > rows[i].at}) < Keep)
    OBVIOUS
  <2>2. PICK r : r = [rows[i] EXCEPT !.kept = k]
    OBVIOUS
  <2>3. rows'[i] = r
    BY <1>1, <1>3, <2>1, <2>2
  <2>4. r \in Row /\ r.att = rows[i].att /\ r.why = rows[i].why /\ r.st = rows[i].st
    BY <1>1, <2>2 DEF Row
  <2>5. QED
    BY <2>3, <2>4
<1>5. DOMAIN rows' = 1..Len(rows) /\ rows' = [i \in 1..Len(rows) |-> rows'[i]]
  BY <1>1, <1>3
<1>6. sends' = sends /\ tick.at = "row" /\ tick' = Idle
  BY DEF TickEnd
<1>7. QED
  BY <1>1, <1>4, <1>5, <1>6, IdleIsATick, RowsTouched

\* Time changes what a row waits for and how old its record is.
LEMMA TockKeepsJournal ==
  ASSUME Journal, Tock
  PROVE  Journal'
<1>1. /\ Len(rows) \in Nat /\ DOMAIN rows = 1..Len(rows)
      /\ \A i \in 1..Len(rows) : rows[i] \in Row
      /\ tick \in Tick /\ BatchOK
  BY InTheJournal DEF Journal, OutboxOK
<1>2. rows' = [i \in DOMAIN rows |->
                 [rows[i] EXCEPT !.wait = IF @ > 0 THEN @ - 1 ELSE 0,
                                 !.age = IF @ < Oldest THEN @ + 1 ELSE @]]
  BY DEF Tock
<1>3. ASSUME NEW i \in 1..Len(rows)
      PROVE  /\ rows'[i] \in Row /\ rows'[i].att = rows[i].att
             /\ rows'[i].why = rows[i].why /\ rows'[i].st = rows[i].st
  <2>1. PICK w : w = IF rows[i].wait > 0 THEN rows[i].wait - 1 ELSE 0
    OBVIOUS
  <2>2. PICK g : g = IF rows[i].age < Oldest THEN rows[i].age + 1 ELSE rows[i].age
    OBVIOUS
  <2>3. w \in 0..Window + Delay /\ g \in 0..Oldest
    BY <1>1, <2>1, <2>2, Parameters DEF Row
  <2>4. PICK r : r = [rows[i] EXCEPT !.wait = w, !.age = g]
    OBVIOUS
  <2>5. rows'[i] = r
    BY <1>1, <1>2, <2>1, <2>2, <2>4 DEF Row
  <2>6. r \in Row /\ r.att = rows[i].att /\ r.why = rows[i].why /\ r.st = rows[i].st
    BY <1>1, <2>3, <2>4 DEF Row
  <2>7. QED
    BY <2>5, <2>6
<1>4. DOMAIN rows' = 1..Len(rows) /\ rows' = [i \in 1..Len(rows) |-> rows'[i]]
  BY <1>1, <1>2
<1>5. /\ tick' \in Tick /\ tick'.at = tick.at /\ tick'.batch = tick.batch /\ tick'.ok = tick.ok
  <2>1. CASE tick.at = "idle"
    BY <1>1, <2>1 DEF Tock
  <2>2. CASE tick.at # "idle"
    <3>1. tick.run < TickTime /\ tick' = [tick EXCEPT !.run = @ + 1]
      BY <2>2 DEF Tock
    <3>2. tick.run + 1 \in 0..TickTime
      <4>1. tick.run \in 0..TickTime
        BY <1>1 DEF Tick
      <4>2. QED
        BY <3>1, <4>1, Parameters
    <3>3. QED
      BY <1>1, <3>1, <3>2 DEF Tick
  <2>3. QED
    BY <2>1, <2>2
<1>6. sends' = sends
  BY DEF Tock
<1>7. QED
  BY <1>1, <1>3, <1>4, <1>5, <1>6, RowsTouched

\* A crash or a failed write between the attempt and its record: the attempt is one that
\* nothing in the row will tell.
LEMMA CutKeepsJournal ==
  ASSUME Journal, rows' = rows, tick' = Idle,
         sends' = IF tick.at = "record" THEN [sends EXCEPT ![Head(tick.batch)].cut = @ + 1]
                  ELSE sends
  PROVE  Journal'
<1>1. OutboxOK /\ BatchOK
  BY DEF Journal
<1>2. BatchOK'
  BY IdleIsATick DEF BatchOK
<1>3. \A i \in 1..Len(rows) : ~(Open(i)') /\ ~(Queued(i)')
  BY IdleIsATick DEF Open, Queued
<1>4. CASE tick.at # "record"
  <2>1. sends' = sends
    BY <1>4
  <2>2. OutboxOK'
    BY <1>1, <2>1, IdleIsATick DEF OutboxOK
  <2>3. ASSUME NEW i \in 1..Len(rows)
        PROVE  Accounted(i)'
    BY <1>3, <1>4, <2>1 DEF Journal, Accounted, Open
  <2>4. QED
    BY <1>2, <2>2, <2>3 DEF Journal
<1>5. CASE tick.at = "record"
  <2>1. PICK h \in 1..Len(rows) : h = Head(tick.batch)
    BY <1>1, <1>5, HeadOfBatch DEF BatchOK
  <2>2. sends[h] \in Attempts /\ DOMAIN sends = 1..Len(rows)
    BY <1>1, InTheJournal, LenProperties DEF OutboxOK
  <2>3. PICK s : s = [sends[h] EXCEPT !.cut = @ + 1]
    OBVIOUS
  <2>4. s \in Attempts /\ s.made = sends[h].made /\ s.cut = sends[h].cut + 1
    BY <2>2, <2>3 DEF Attempts
  <2>5. s.got <=> sends[h].got
    BY <2>2, <2>3 DEF Attempts
  <2>6. sends' = [sends EXCEPT ![h] = s]
    BY <1>5, <2>1, <2>2, <2>3
  <2>7. /\ sends' \in Seq(Attempts) /\ Len(sends') = Len(rows) /\ sends'[h] = s
        /\ \A i \in 1..Len(rows) : i # h => sends'[i] = sends[i]
    BY <1>1, <2>4, <2>6, SendSet
  <2>8. OutboxOK'
    BY <1>1, <2>7, IdleIsATick DEF OutboxOK
  <2>9. ASSUME NEW i \in 1..Len(rows)
        PROVE  Accounted(i)'
    <3>1. Accounted(i) /\ (Open(i) <=> i = h)
      BY <1>5, <2>1 DEF Journal, Open
    <3>2. CASE i # h
      BY <1>3, <2>7, <3>1, <3>2 DEF Accounted
    <3>3. CASE i = h
      <4>1. sends[h].made = rows[h].att + sends[h].cut + 1
        BY <3>1, <3>3 DEF Accounted
      <4>2. sends[h].cut \in Nat /\ rows[h].att \in Nat
        <5>1. sends[h].cut \in Nat /\ rows[h] \in Row
          BY <1>1, <2>2, InTheJournal DEF Attempts
        <5>2. QED
          BY <5>1, Parameters DEF Row
      <4>3. sends'[h].made = rows'[h].att + sends'[h].cut + (IF Open(h)' THEN 1 ELSE 0)
        <5>1. sends'[h].cut = sends[h].cut + 1 /\ sends'[h].made = sends[h].made
          BY <2>4, <2>7
        <5>2. sends[h].made = rows[h].att + (sends[h].cut + 1) + 0
          BY <4>1, <4>2
        <5>3. QED
          BY <1>3, <5>1, <5>2
      <4>4. rows'[h].st = "sent" => sends'[h].got
        BY <2>5, <2>7, <3>1, <3>3 DEF Accounted
      <4>5. QED
        BY <1>3, <3>1, <3>3, <4>3, <4>4 DEF Accounted
    <3>4. QED
      BY <3>2, <3>3
  <2>10. QED
    BY <1>2, <2>8, <2>9 DEF Journal
<1>6. QED
  BY <1>4, <1>5

\* Rows are appended, never taken away.
LEMMA RowsStay ==
  ASSUME Journal, DispatchOK, [Next]_vars
  PROVE  DOMAIN rows \subseteq DOMAIN rows'
<1>1. CASE \E c \in Connectors :
             \/ \E in \in Forms, k \in {"webhook", "smtp"} : SaveConnector(c, k, in)
             \/ SetEnabled(c) \/ DeleteConnector(c) \/ SaveRule(c)
  BY <1>1 DEF SaveConnector, SetEnabled, DeleteConnector, SaveRule, outbox
<1>2. CASE \E d \in DOMAIN disp : Insert(d)
  BY <1>2, InsertKeepsJournal
<1>3. CASE \E d \in DOMAIN disp : Drop(d)
  <2>1. PICK d \in DOMAIN disp : Drop(d)
    BY <1>3
  <2>2. rows' = rows \/ rows' = [rows EXCEPT ![Min(disp[d].drop)].st = "failed",
                                             ![Min(disp[d].drop)].why = "full",
                                             ![Min(disp[d].drop)].wait = 0]
    BY <2>1 DEF Drop
  <2>3. QED
    BY <2>2
<1>4. CASE \E d \in DOMAIN disp : Select(d) \/ Count(d) \/ Pick(d) \/ DispatchFails(d)
  BY <1>4 DEF Select, Count, Pick, DispatchFails, outbox
<1>5. CASE TickStart \/ TickRecord \/ TickEnd \/ Tock
  BY <1>5 DEF TickStart, TickRecord, TickEnd, Tock
<1>6. CASE TickRow
  BY <1>6 DEF TickRow
<1>7. CASE TickSend \/ TickFails \/ Crash \/ Watch \/ UNCHANGED vars
  BY <1>7 DEF TickSend, TickFails, Crash, Watch, CheckRead, CheckTell, CheckMark, outbox, vars
<1>8. CASE \E a \in BOOLEAN : Result(a)
  BY <1>8 DEF Result, outbox
<1>9. QED
  BY <1>1, <1>2, <1>3, <1>4, <1>5, <1>6, <1>7, <1>8 DEF Next, Dispatch, Outbox

LEMMA NoDispatchIsSending == NoDispatch \in Sending
BY DEF NoDispatch, Sending

\* A dispatch goes on, or any other part does.
LEMMA DispatchKeeps ==
  ASSUME Journal, DispatchOK, NEW d \in DOMAIN disp, Dispatch(d) \/ DispatchFails(d),
         DOMAIN rows \subseteq DOMAIN rows'
  PROVE  DispatchOK'
<1>1. /\ disp \in [1..MaxResults -> Sending] /\ disp[d] \in Sending /\ d \in 1..MaxResults
      /\ cache \in [age : 0..CacheTtl, ids : SUBSET Connectors] /\ rule \subseteq Connectors
      /\ edits \in 0..MaxUpsets /\ faults \in 0..MaxUpsets
  BY DEF DispatchOK
<1>2. \A s \in Sending : s \in Sending'
  BY DEF Sending
<1>3. /\ rule' = rule /\ edits' = edits
      /\ faults' \in 0..MaxUpsets
  <2>1. UNCHANGED admin /\ (Fault \/ UNCHANGED faults)
    BY DEF Dispatch, Select, Insert, Count, Pick, Drop, DispatchFails
  <2>2. Fault => faults' \in 0..MaxUpsets
    BY <1>1, Parameters DEF Fault, Upset
  <2>3. QED
    BY <1>1, <2>1, <2>2 DEF admin
<1>4. Len(rows) \in Nat /\ Pending \subseteq DOMAIN rows /\ Cardinality(Pending) \in Nat
  <2>1. Len(rows) \in Nat /\ DOMAIN rows = 1..Len(rows)
    BY InTheJournal DEF Journal
  <2>2. Pending \subseteq DOMAIN rows
    BY DEF Pending
  <2>3. IsFiniteSet(1..Len(rows))
    BY <2>1, FS_Interval
  <2>4. IsFiniteSet(Pending)
    BY <2>1, <2>2, <2>3, FS_Subset
  <2>5. QED
    BY <2>1, <2>2, <2>4, FS_CardinalityType
<1>5. \E s \in Sending : disp' = [disp EXCEPT ![d] = s]
  <2>1. CASE Select(d)
    <3>1. PICK now : now = rule \cap {c \in Connectors : Stored(c) /\ conn[c].enabled}
      OBVIOUS
    <3>2. PICK ids : ids = IF cache.age < CacheTtl THEN cache.ids ELSE now
      OBVIOUS
    <3>3. ids \in SUBSET Connectors
      BY <1>1, <3>1, <3>2
    <3>4. disp' = [disp EXCEPT ![d] = IF ids = {} THEN NoDispatch
                     ELSE [NoDispatch EXCEPT !.at = "insert", !.ids = ids]]
      BY <2>1, <3>1, <3>2 DEF Select, Step
    <3>5. [NoDispatch EXCEPT !.at = "insert", !.ids = ids] \in Sending
      BY <3>3 DEF NoDispatch, Sending
    <3>6. QED
      BY <3>4, <3>5, NoDispatchIsSending
  <2>2. CASE Insert(d)
    BY <1>1, <2>2 DEF Insert, Step, Sending
  <2>3. CASE Count(d)
    <3>1. PICK n : n = Cardinality(Pending)
      OBVIOUS
    <3>2. disp' = [disp EXCEPT ![d] = IF n > QueueCap
                     THEN [disp[d] EXCEPT !.at = "pick", !.over = n - QueueCap] ELSE NoDispatch]
      BY <2>3, <3>1 DEF Count, Step
    <3>3. n > QueueCap => n - QueueCap \in Nat
      BY <1>4, <3>1, Parameters
    <3>4. n > QueueCap => [disp[d] EXCEPT !.at = "pick", !.over = n - QueueCap] \in Sending
      BY <1>1, <3>3 DEF Sending
    <3>5. QED
      BY <3>2, <3>4, NoDispatchIsSending
  <2>4. CASE Pick(d)
    <3>1. PICK s : s = {i \in Pending : Cardinality({j \in Pending : j < i}) < disp[d].over}
      OBVIOUS
    <3>2. s \in SUBSET (DOMAIN rows)
      BY <1>4, <3>1
    <3>3. disp' = [disp EXCEPT ![d] = [disp[d] EXCEPT !.at = "drop", !.drop = s]]
      BY <2>4, <3>1 DEF Pick, Step
    <3>4. QED
      BY <1>1, <3>2, <3>3 DEF Sending
  <2>5. CASE Drop(d)
    <3>1. PICK ids : ids = disp[d].drop \ {Min(disp[d].drop)}
      OBVIOUS
    <3>2. ids \in SUBSET (DOMAIN rows)
      BY <1>1, <3>1 DEF Sending
    <3>3. \/ disp' = [disp EXCEPT ![d] = NoDispatch]
          \/ disp' = [disp EXCEPT ![d] = [disp[d] EXCEPT !.drop = ids]]
      BY <2>5, <3>1 DEF Drop, Step
    <3>4. [disp[d] EXCEPT !.drop = ids] \in Sending
      BY <1>1, <3>2 DEF Sending
    <3>5. QED
      BY <3>3, <3>4, NoDispatchIsSending
  <2>6. CASE DispatchFails(d)
    BY <2>6, NoDispatchIsSending DEF DispatchFails, Step
  <2>7. QED
    BY <2>1, <2>2, <2>3, <2>4, <2>5, <2>6 DEF Dispatch
<1>6. disp' \in [1..MaxResults -> Sending']
  BY <1>1, <1>2, <1>5
<1>7. cache' \in [age : 0..CacheTtl, ids : SUBSET Connectors]
  <2>1. CASE Select(d)
    <3>1. \/ cache' = cache
          \/ cache' = [age |-> 0,
                       ids |-> rule \cap {c \in Connectors : Stored(c) /\ conn[c].enabled}]
      BY <2>1 DEF Select
    <3>2. QED
      BY <1>1, <3>1, Parameters
  <2>2. CASE ~Select(d)
    BY <1>1, <2>2 DEF Dispatch, Insert, Count, Pick, Drop, DispatchFails
  <2>3. QED
    BY <2>1, <2>2
<1>8. QED
  BY <1>1, <1>3, <1>6, <1>7 DEF DispatchOK

LEMMA OthersKeepDispatch ==
  ASSUME DispatchOK, DOMAIN rows \subseteq DOMAIN rows',
         \/ disp' = disp
         \/ disp' = [d \in DOMAIN disp |-> NoDispatch]
         \/ \E S : disp' = [d \in DOMAIN disp |->
                              IF d \in S THEN [NoDispatch EXCEPT !.at = "load"] ELSE disp[d]],
         rule' \subseteq Connectors, cache' \in [age : 0..CacheTtl, ids : SUBSET Connectors],
         edits' \in 0..MaxUpsets, faults' \in 0..MaxUpsets
  PROVE  DispatchOK'
<1>1. \A s \in Sending : s \in Sending'
  BY DEF Sending
<1>2. disp \in [1..MaxResults -> Sending]
  BY DEF DispatchOK
<1>3. [NoDispatch EXCEPT !.at = "load"] \in Sending
  BY DEF NoDispatch, Sending
<1>4. disp' \in [1..MaxResults -> Sending]
  <2>1. CASE disp' = disp
    BY <1>2, <2>1
  <2>2. CASE disp' = [d \in DOMAIN disp |-> NoDispatch]
    BY <1>2, <2>2, NoDispatchIsSending
  <2>3. ASSUME NEW S,
               disp' = [d \in DOMAIN disp |->
                          IF d \in S THEN [NoDispatch EXCEPT !.at = "load"] ELSE disp[d]]
        PROVE  disp' \in [1..MaxResults -> Sending]
    BY <1>2, <1>3, <2>3
  <2>4. QED
    BY <2>1, <2>2, <2>3
<1>5. disp' \in [1..MaxResults -> Sending']
  BY <1>1, <1>4
<1>6. QED
  BY <1>5 DEF DispatchOK

LEMMA JournalInvariant == Spec => [](Journal /\ DispatchOK)
<1>1. Init => Journal /\ DispatchOK
  <2> SUFFICES ASSUME Init PROVE Journal /\ DispatchOK
    OBVIOUS
  <2> USE DEF Init
  <2>1. OutboxOK
    BY IdleIsATick, EmptySeq DEF OutboxOK
  <2>2. BatchOK /\ \A i \in 1..Len(rows) : Accounted(i)
    BY IdleIsATick DEF BatchOK
  <2>3. NoCache \in [age : 0..CacheTtl, ids : SUBSET Connectors]
    BY Parameters DEF NoCache
  <2>4. disp \in [1..MaxResults -> Sending]
    BY NoDispatchIsSending
  <2>5. DispatchOK
    BY <2>3, <2>4, Parameters DEF DispatchOK
  <2>6. QED
    BY <2>1, <2>2, <2>5 DEF Journal
<1>2. ASSUME Journal, DispatchOK, [Next]_vars
      PROVE  Journal' /\ DispatchOK'
  <2>1. DOMAIN rows \subseteq DOMAIN rows'
    BY <1>2, RowsStay
  <2>2. /\ rule \subseteq Connectors /\ edits \in 0..MaxUpsets /\ faults \in 0..MaxUpsets
        /\ cache \in [age : 0..CacheTtl, ids : SUBSET Connectors]
        /\ NoCache \in [age : 0..CacheTtl, ids : SUBSET Connectors]
    BY <1>2, Parameters DEF DispatchOK, NoCache
  <2>3. (Fault => faults' \in 0..MaxUpsets) /\ (Edit => edits' \in 0..MaxUpsets)
    BY <2>2, Parameters DEF Fault, Edit, Upset
  <2>4. CASE \E c \in Connectors :
               \/ \E in \in Forms, k \in {"webhook", "smtp"} : SaveConnector(c, k, in)
               \/ SetEnabled(c) \/ DeleteConnector(c) \/ SaveRule(c)
    <3>1. UNCHANGED <<outbox, disp, cache, faults>> /\ Edit /\ rule' \subseteq Connectors
      BY <2>2, <2>4 DEF SaveConnector, SetEnabled, DeleteConnector, SaveRule
    <3>2. Journal'
      BY <1>2, <3>1, OthersKeepJournal
    <3>3. QED
      BY <1>2, <2>1, <2>2, <2>3, <3>1, <3>2, OthersKeepDispatch
  <2>5. CASE \E d \in DOMAIN disp : Dispatch(d) \/ DispatchFails(d)
    <3>1. PICK d \in DOMAIN disp : Dispatch(d) \/ DispatchFails(d)
      BY <2>5
    <3>2. Journal'
      <4>1. CASE Insert(d) \/ Drop(d)
        BY <1>2, <4>1, InsertKeepsJournal, DropKeepsJournal
      <4>2. CASE Select(d) \/ Count(d) \/ Pick(d) \/ DispatchFails(d)
        BY <1>2, <4>2, OthersKeepJournal DEF Select, Count, Pick, DispatchFails
      <4>3. QED
        BY <3>1, <4>1, <4>2 DEF Dispatch
    <3>3. QED
      BY <1>2, <2>1, <3>1, <3>2, DispatchKeeps
  <2>6. CASE Outbox \/ Tock
    <3>1. Journal'
      BY <1>2, <2>6, TickStartKeepsJournal, TickRowKeepsJournal, TickSendKeepsJournal,
         TickRecordKeepsJournal, TickEndKeepsJournal, TockKeepsJournal DEF Outbox
    <3>2. UNCHANGED <<disp, rule, edits>> /\ faults' \in 0..MaxUpsets
      BY <2>2, <2>3, <2>6
         DEF Outbox, TickStart, TickRow, TickSend, TickRecord, TickEnd, Tock, admin
    <3>3. cache' \in [age : 0..CacheTtl, ids : SUBSET Connectors]
      <4>1. CASE Outbox
        BY <2>2, <4>1 DEF Outbox, TickStart, TickRow, TickSend, TickRecord, TickEnd
      <4>2. CASE Tock
        <5>1. cache' = [cache EXCEPT !.age = IF @ < CacheTtl THEN @ + 1 ELSE @]
          BY <4>2 DEF Tock
        <5>2. (IF cache.age < CacheTtl THEN cache.age + 1 ELSE cache.age) \in 0..CacheTtl
          BY <2>2, Parameters
        <5>3. QED
          BY <2>2, <5>1, <5>2
      <4>3. QED
        BY <2>6, <4>1, <4>2
    <3>4. QED
      BY <1>2, <2>1, <2>2, <3>1, <3>2, <3>3, OthersKeepDispatch
  <2>7. CASE TickFails \/ Crash
    <3>1. Journal'
      BY <1>2, <2>7, CutKeepsJournal DEF TickFails, Crash
    <3>2. /\ disp' = disp \/ disp' = [d \in DOMAIN disp |-> NoDispatch]
          /\ UNCHANGED <<rule, edits>> /\ Fault /\ cache' \in {cache, NoCache}
      BY <2>7 DEF TickFails, Crash, admin
    <3>3. QED
      BY <1>2, <2>1, <2>2, <2>3, <3>1, <3>2, OthersKeepDispatch
  <2>8. CASE Watch \/ \E a \in BOOLEAN : Result(a)
    <3>1. UNCHANGED <<outbox, cache, rule, edits>> /\ (Fault \/ UNCHANGED faults)
      BY <2>8 DEF Watch, CheckRead, CheckTell, CheckMark, Result, admin
    <3>2. \/ disp' = disp
          \/ disp' = [r \in DOMAIN disp |-> IF r \in Fresh THEN [NoDispatch EXCEPT !.at = "load"]
                                            ELSE disp[r]]
      BY <2>8 DEF Watch, CheckRead, CheckTell, CheckMark, Result
    <3>3. Journal'
      BY <1>2, <3>1, OthersKeepJournal
    <3>4. DispatchOK'
      BY <1>2, <2>1, <2>2, <2>3, <3>1, <3>2, OthersKeepDispatch
    <3>5. QED
      BY <3>3, <3>4
  <2>9. CASE UNCHANGED vars
    <3>1. UNCHANGED <<outbox, disp, rule, cache, edits, faults>>
      BY <2>9 DEF vars, outbox
    <3>2. QED
      BY <1>2, <2>1, <2>2, <3>1, OthersKeepJournal, OthersKeepDispatch
  <2>10. QED
    BY <1>2, <2>4, <2>5, <2>6, <2>7, <2>8, <2>9 DEF Next
<1>3. QED
  BY <1>1, <1>2, PTL DEF Spec

\* The journal of notifications (services/notification-queue.ts) is what happened: a row
\* "sent" was received, one given up was tried MaxAttempts times, and no row is attempted
\* more often than that and once more for each attempt whose record a crash or a failed
\* write cut off, whatever enqueues drop, administrators edit and ticks overlap meanwhile.
THEOREM JournalIsTrue == Spec => []JournalTrue
<1>1. Journal => JournalTrue
  <2>1. SUFFICES ASSUME Journal, NEW i \in DOMAIN rows
                 PROVE  /\ rows[i].st = "sent" => sends[i].got
                        /\ sends[i].made <= MaxAttempts + sends[i].cut
                        /\ rows[i].why = "tried" => sends[i].made >= MaxAttempts
    BY DEF JournalTrue
  <2>2. i \in 1..Len(rows) /\ Accounted(i) /\ rows[i] \in Row /\ sends[i] \in Attempts
    BY <2>1, InTheJournal DEF Journal
  <2>3. /\ rows[i].att \in 0..MaxAttempts /\ MaxAttempts \in Nat /\ sends[i].cut \in Nat
        /\ sends[i].made \in Nat
    BY <2>2, Parameters DEF Row, Attempts
  <2>4. rows[i].st = "sent" => sends[i].got
    BY <2>2 DEF Accounted
  <2>5. CASE Open(i)
    <3>1. Queued(i)
      BY <2>1, <2>5, HeadOfBatch DEF Open, Journal, BatchOK
    <3>2. sends[i].made = rows[i].att + sends[i].cut + 1 /\ rows[i].att < MaxAttempts
          /\ (rows[i].why = "tried" => rows[i].att = MaxAttempts)
      BY <2>2, <2>5, <3>1 DEF Accounted
    <3>3. QED
      BY <2>3, <2>4, <3>2
  <2>6. CASE ~Open(i)
    <3>1. sends[i].made = rows[i].att + sends[i].cut + 0
          /\ (rows[i].why = "tried" => rows[i].att = MaxAttempts)
      BY <2>2, <2>6 DEF Accounted
    <3>2. QED
      BY <2>3, <2>4, <3>1
  <2>7. QED
    BY <2>5, <2>6
<1>2. QED
  BY <1>1, JournalInvariant, PTL

\* Every variable of the notifications keeps its type: no batch or drop list names a row
\* that does not exist, no count passes its bound, and a limited row gets a time to wait.
THEOREM TypeCorrect == Spec => []TypeOK
<1>1. Secrets /\ Watched /\ Journal /\ DispatchOK => TypeOK
  <2> SUFFICES ASSUME Secrets, Watched, Journal, DispatchOK
               PROVE  TypeOK
    OBVIOUS
  <2>1. Len(rows) \in Nat /\ DOMAIN rows = 1..Len(rows) /\ tick.batch \in Seq(Nat)
        /\ Len(tick.batch) \in Nat
    BY InTheJournal DEF Journal
  <2>2. tick.batch \in Seq(DOMAIN rows)
    <3>1. PICK D : D = DOMAIN rows
      OBVIOUS
    <3>2. tick.batch \in [1..Len(tick.batch) -> D]
      BY <2>1, <3>1, LenProperties DEF Journal, BatchOK
    <3>3. PICK n \in Nat : n = Len(tick.batch)
      BY <2>1
    <3>4. tick.batch \in [1..n -> D]
      BY <3>2, <3>3
    <3>5. tick.batch \in Seq(D)
      BY <3>4, SeqDef
    <3>6. QED
      BY <3>1, <3>5
  <2>3. tick \in [at : {"idle", "row", "send", "record"}, batch : Seq(DOMAIN rows),
                  ok : BOOLEAN, run : 0..TickTime]
    BY <2>2 DEF Journal, OutboxOK, Tick
  <2>4. rows \in Seq(Row) /\ sends \in Seq(Attempts) /\ Len(sends) = Len(rows)
    BY DEF Journal, OutboxOK
  <2>5. conn \in [Connectors -> [kind : {"none", "webhook", "smtp"}, enabled : BOOLEAN,
                                 host : Hosts \cup {0}, secret : Hosts \cup {0}]]
    BY DEF Secrets, Connector, Host
  <2>6. /\ results \in Seq(BOOLEAN) /\ told \in Seq(Nat) /\ Len(told) = Len(results)
        /\ mark \in 0..Len(results)
        /\ check \in [at : {"idle", "tell", "mark"}, upto : 0..Len(results)]
    BY DEF Watched, WatchOK
  <2>7. QED
    BY <2>3, <2>4, <2>5, <2>6 DEF TypeOK, DispatchOK, Sending, Row, Attempts
<1>2. QED
  BY <1>1, SecretsInvariant, WatchInvariant, JournalInvariant, PTL

----------------------------------------------------------------------------
(* Uploads.  What a request, an upload and a job mean to each other is said *)
(* of their values, so that a step which changes one of them is compared    *)
(* with the others one by one.                                              *)

Statuses == {"pending", "completed", "failed", "checksum"}
ReqType == [at : {"free", "new", "pre", "write", "join", "look", "drain", "clean", "replied"},
            kind : {"none", "chunk", "complete", "cancel"}, id : Ids \cup {0},
            chunk : Chunks \cup {0}, pick : Picks \cup {0}, had : BOOLEAN, live : BOOLEAN,
            out : {"none", "ok", "refused", "failed"}, job : Nat]
UploadType == [known : BOOLEAN, received : SUBSET Chunks, cancelled : BOOLEAN,
               sha : Picks \cup {0}, fin : {"no", "check", "publish"}, job : Nat,
               clean : {"no", "publish", "wait", "over"}, cleanJob : Nat]
JobType == [n : Nat, kind : {"finalize", "delete"}, id : Ids, pick : Picks \cup {0}]
PartType == [there : BOOLEAN, data : Files]
LateType == [id : Ids, chunk : Chunks, pick : Picks]
TabType == [pc : {"idle", "asking", "sending", "waiting", "completing", "verifying",
                  "clearing", "loading", "done", "error"},
            id : Ids \cup {0}, pick : Picks \cup {0}, staged : SUBSET Chunks,
            attempt : 1 .. ChunkAttempts, job : Nat]

StateTyped ==
    /\ req \in [Slots -> ReqType] /\ upload \in [Ids -> UploadType]
    /\ tomb \in [Ids -> BOOLEAN]
    /\ jobs \in Seq(JobType) /\ row \in Seq(Statuses)
    /\ hashed \in BOOLEAN /\ blurred \in BOOLEAN
    /\ part \in [Ids -> PartType] /\ dest \in [Ids -> SUBSET Files]
    /\ late \subseteq LateType
    /\ mishaps \in 0 .. MaxMishaps

\* The tab knows what it works on.
TabKnows ==
    /\ tab \in TabType /\ tab.job <= Len(row)
    /\ saved \in Ids \cup {0} /\ fresh \subseteq Ids /\ tries \in 0 .. MaxTries
    /\ tab.pc # "idle" => tab.id \in Ids
    /\ tab.pc \in {"asking", "sending", "waiting", "completing"} => tab.pick \in Picks
    /\ tab.pc = "loading" => tab.pick = 0

\* The tab listens to one request at most, which is about what it works on.
OneListened ==
    /\ \A r, s \in Slots : req[r].live /\ req[s].live => r = s
    /\ \A r \in Slots : req[r].live =>
         \/ tab.pc = "waiting" /\ req[r].kind = "chunk"
         \/ /\ tab.pc = "completing" /\ req[r].kind = "complete"
            /\ req[r].id = tab.id /\ req[r].pick = tab.pick
         \/ tab.pc = "clearing" /\ req[r].kind = "cancel"

\* Which steps a request goes through.
Shape(q) ==
    /\ q.at = "free" => ~q.live
    /\ q.at # "free" =>
         /\ q.id \in Ids
         /\ \/ /\ q.kind = "chunk" /\ q.chunk \in Chunks /\ q.pick \in Picks
               /\ q.at \in {"new", "pre", "write", "replied"}
            \/ /\ q.kind = "complete" /\ q.pick \in Picks
               /\ q.at \in {"new", "join", "replied"}
            \/ /\ q.kind = "cancel"
               /\ q.at \in {"new", "look", "drain", "clean", "replied"}

Cancelling(q) == q.at \in {"look", "drain", "clean"}

\* A request and the upload it is about, in any case.
Holds(q, u) ==
    /\ q.at = "pre" /\ q.had => u.known
    /\ Cancelling(q) => u.known
    /\ q.at = "write" => ~FinalizationStarted(u)

\* An upload and its tombstone, in any case.
Sound(u, t, rw) ==
    /\ u.job <= Len(rw) /\ u.cleanJob <= Len(rw)
    /\ ~u.known => u.sha = 0 /\ u.fin = "no" /\ u.job = 0 /\ ~u.cancelled /\ u.clean = "no"
    /\ u.fin # "no" \/ u.job # 0 => u.sha # 0
    /\ u.fin = "publish" => u.job = 0
    /\ u.cancelled => ~KnownActive(u)
    /\ t /\ u.known => u.cancelled
    /\ u.clean = "wait" => u.cleanJob # 0

\* The lane, in any case.
LaneSound ==
    /\ \A i, k \in 1 .. Len(jobs) : jobs[i].n = jobs[k].n => i = k
    /\ \A i \in 1 .. Len(jobs) :
          /\ jobs[i].n \in 1 .. Len(row)
          /\ jobs[i].kind = "finalize" => jobs[i].pick \in Picks
    /\ hashed => jobs # <<>> /\ Head(jobs).kind = "finalize"

\* The finalisation of an upload has ended, or never began.
Finished(u, rw) == u.job = 0 \/ rw[u.job] # "pending"

\* A request and its upload, unless blurred: a cancellation holds the upload, which no
\* finalisation is at work on; a chunk is written to an upload nobody clears away; who
\* awaits a finalisation awaits the one of the file it asked for.
Agrees(q, u, rw) ==
    /\ Cancelling(q) => u.cancelled
    /\ q.at = "look" => q.job = u.job /\ q.job # 0
    /\ q.at \in {"drain", "clean"} => Finished(u, rw)
    /\ q.at = "write" => u.known /\ u.clean = "no"
    /\ q.at = "join" => u.fin # "no" /\ u.sha = q.pick

\* A cleanup, unless blurred: the deletion it waits for leaves no file.
Clears(id, u, rw, js, pt) ==
    /\ u.clean # "no" => u.cancelled /\ Finished(u, rw)
    /\ u.clean = "wait" =>
         /\ \A i \in 1 .. Len(js) : js[i].n = u.cleanJob =>
               js[i].kind = "delete" /\ js[i].id = id
         /\ rw[u.cleanJob] = "completed" => ~pt.there

\* Job n finalises the file p of upload id, and has landed it if it is completed.
Claim(n, id, p, rw, js, d) ==
    /\ n \in 1 .. Len(rw)
    /\ \A i \in 1 .. Len(js) : js[i].n = n =>
          js[i].kind = "finalize" /\ js[i].id = id /\ js[i].pick = p
    /\ rw[n] = "completed" => \E f \in d[id] : Whole(f, p)

\* A job in the lane, unless blurred.
InLane(j, ups, rw) ==
    /\ rw[j.n] = "pending"
    /\ j.kind = "finalize" => ups[j.id].job = j.n

OkComplete(q) == q.at = "replied" /\ q.kind = "complete" /\ q.out = "ok"

ReqsAgree == \A r \in Slots : req[r].at # "free" => Agrees(req[r], upload[req[r].id], row)
UploadsClear == \A id \in Ids : Clears(id, upload[id], row, jobs, part[id])
LaneAgrees == \A i \in 1 .. Len(jobs) : InLane(jobs[i], upload, row)
UploadClaims ==
    \A id \in Ids : upload[id].job # 0 =>
        Claim(upload[id].job, id, upload[id].sha, row, jobs, dest)
AnswerClaims ==
    \A r \in Slots : OkComplete(req[r]) =>
        Claim(req[r].job, req[r].id, req[r].pick, row, jobs, dest)
TabClaims ==
    /\ tab.pc = "verifying" =>
         \E p \in Picks : tab.pick \in {0, p} /\ Claim(tab.job, tab.id, p, row, jobs, dest)
    /\ tab.pc = "done" => \E f \in dest[tab.id] : tab.pick = 0 \/ Whole(f, tab.pick)
WholeFiles == \A id \in Ids : \A f \in dest[id] : \E p \in Picks : Whole(f, p)
HashedIsWhole ==
    hashed => /\ part[Head(jobs).id].there
              /\ Whole(part[Head(jobs).id].data, Head(jobs).pick)
Cared == \A id \in Ids :
    part[id].there => upload[id].known \/ \E i \in 1 .. Len(jobs) : jobs[i].id = id

Firm ==
    /\ late = {}
    /\ ReqsAgree /\ UploadsClear /\ LaneAgrees
    /\ UploadClaims /\ AnswerClaims /\ TabClaims
    /\ WholeFiles /\ HashedIsWhole /\ Cared

ReqsHold ==
    \A r \in Slots :
        /\ Shape(req[r]) /\ req[r].job <= Len(row)
        /\ req[r].at # "free" => Holds(req[r], upload[req[r].id])
UploadsSound == \A id \in Ids : Sound(upload[id], tomb[id], row)

UploadInv ==
    /\ StateTyped /\ TabKnows /\ OneListened /\ ReqsHold /\ UploadsSound /\ LaneSound
    /\ blurred \/ Firm

LEMMA Constants ==
    /\ 0 \notin Picks /\ 0 \notin Ids /\ 0 \notin Slots
    /\ Picks \subseteq Nat /\ Ids \subseteq Nat /\ Slots \subseteq Nat /\ Chunks \subseteq Nat
    /\ Chunks # {} /\ MaxTries \in Nat /\ MaxMishaps \in Nat /\ ChunkAttempts \in Nat \ {0}
BY UploadsAssumption

LEMMA MishapCounts ==
    ASSUME mishaps \in 0 .. MaxMishaps, Mishap \/ UNCHANGED mishaps
    PROVE  mishaps' \in 0 .. MaxMishaps
BY Constants DEF Mishap

LEMMA NoReqIs ==
    /\ NoReq \in ReqType /\ NoReq.at = "free" /\ NoReq.live = FALSE /\ NoReq.job = 0
    /\ Shape(NoReq)
<1>1. NoReq \in ReqType /\ NoReq.at = "free" /\ NoReq.live = FALSE /\ NoReq.job = 0
  BY DEF NoReq, ReqType
<1>2. QED
  BY <1>1 DEF Shape

\* What a step of another actor leaves of a request.
Like(a, q) ==
    /\ a.at = q.at /\ a.kind = q.kind /\ a.id = q.id /\ a.chunk = q.chunk /\ a.pick = q.pick
    /\ a.had = q.had /\ a.out = q.out /\ a.job = q.job

LEMMA UnheardIs ==
    ASSUME NEW q \in ReqType, Shape(q)
    PROVE  /\ Unheard(q) \in ReqType /\ Shape(Unheard(q)) /\ ~Unheard(q).live
           /\ Unheard(q) = NoReq \/ Like(Unheard(q), q)
<1>1. CASE q.at = "replied"
  BY <1>1, NoReqIs DEF Unheard
<1>2. CASE q.at # "replied"
  <2> DEFINE a == [q EXCEPT !.live = FALSE]
  <2>1. a \in ReqType /\ ~a.live /\ Like(a, q)
    BY DEF ReqType, Like
  <2>2. Unheard(q) = a
    BY <1>2 DEF Unheard
  <2> HIDE DEF a
  <2>3. Shape(a)
    BY <2>1 DEF Shape, Like
  <2>4. QED
    BY <2>1, <2>2, <2>3
<1>3. QED
  BY <1>1, <1>2

LEMMA AnsweredIs ==
    ASSUME NEW q \in ReqType, Shape(q), q.at # "free",
           NEW out \in {"none", "ok", "refused", "failed"}
    PROVE  LET a == Answered(q, out) IN
           /\ a \in ReqType /\ Shape(a) /\ a.job <= q.job
           /\ \/ a = NoReq
              \/ /\ a.at = "replied" /\ a.out = out /\ a.live /\ q.live
                 /\ a.kind = q.kind /\ a.id = q.id /\ a.pick = q.pick /\ a.job = q.job
<1>1. CASE ~q.live
  <2>1. Answered(q, out) = NoReq /\ q.job \in Nat
    BY <1>1 DEF Answered, ReqType
  <2>2. QED
    BY <2>1, NoReqIs
<1>2. CASE q.live
  <2> DEFINE a == [q EXCEPT !.at = "replied", !.out = out]
  <2>1. /\ a \in ReqType /\ a.at = "replied" /\ a.out = out /\ a.live
        /\ a.kind = q.kind /\ a.id = q.id /\ a.pick = q.pick /\ a.job = q.job
        /\ a.chunk = q.chunk /\ q.live /\ q.job \in Nat
    BY <1>2 DEF ReqType
  <2>2. Answered(q, out) = a
    BY <1>2 DEF Answered
  <2> HIDE DEF a
  <2>3. Shape(a)
    BY <2>1 DEF Shape
  <2>4. QED
    BY <2>1, <2>2, <2>3
<1>3. QED
  BY <1>1, <1>2

\* The steps of the tab and of the user, which touch requests at their ends only.
LEMMA ClientKeeps ==
    ASSUME UploadInv, UNCHANGED <<server, worker, disk, blurred>>,
           Mishap \/ UNCHANGED mishaps,
           req' \in [Slots -> ReqType], TabKnows', OneListened',
           \A r \in Slots : /\ Shape(req'[r]) /\ req'[r].job <= Len(row)
                            /\ req'[r].at \in {"free", "new"} \/ Like(req'[r], req[r]),
           blurred \/ TabClaims'
    PROVE  UploadInv'
<1>1. /\ upload' = upload /\ tomb' = tomb /\ jobs' = jobs /\ hashed' = hashed /\ row' = row
      /\ part' = part /\ late' = late /\ dest' = dest /\ blurred' = blurred
  BY DEF server, worker, disk
<1>2. StateTyped /\ ReqsHold /\ UploadsSound /\ LaneSound /\ (blurred \/ Firm)
  BY DEF UploadInv
<1>3. StateTyped'
  BY <1>1, <1>2, MishapCounts DEF StateTyped
<1>4. ReqsHold'
  BY <1>1, <1>2 DEF ReqsHold, Holds, Like, Cancelling
<1>5. UploadsSound' /\ LaneSound'
  BY <1>1, <1>2 DEF UploadsSound, LaneSound
<1>6. ASSUME ~blurred
      PROVE  Firm'
  <2>1. Firm
    BY <1>2, <1>6
  <2>2. ReqsAgree'
    BY <1>1, <2>1 DEF Firm, ReqsAgree, Agrees, Like, Cancelling
  <2>3. AnswerClaims'
    BY <1>1, <2>1 DEF Firm, AnswerClaims, OkComplete, Like
  <2>4. QED
    BY <1>1, <1>6, <2>1, <2>2, <2>3 DEF Firm, UploadsClear, LaneAgrees, UploadClaims,
       WholeFiles, HashedIsWhole, Cared
<1>7. QED
  BY <1>1, <1>3, <1>4, <1>5, <1>6 DEF UploadInv

LEMMA NobodyListens ==
    ASSUME OneListened, StateTyped, tab.pc \notin {"waiting", "completing", "clearing"}
    PROVE  \A r \in Slots : req[r].live = FALSE
BY DEF OneListened, StateTyped, ReqType

LEMMA NoTabIs ==
    /\ NoTab \in TabType /\ NoTab.pc = "idle" /\ NoTab.job = 0 /\ NoTab.pick = 0
BY Constants DEF NoTab, TabType

\* A step of the client that leaves every request as it is.
LEMMA TabAlone ==
    ASSUME UploadInv, UNCHANGED <<server, worker, disk, blurred, req>>,
           Mishap \/ UNCHANGED mishaps, TabKnows', blurred \/ TabClaims',
           tab.pc \notin {"waiting", "completing", "clearing"}
    PROVE  UploadInv'
<1>1. StateTyped /\ ReqsHold /\ OneListened
  BY DEF UploadInv
<1>2. \A r \in Slots : req[r].live = FALSE
  BY <1>1, NobodyListens
<1>3. OneListened'
  BY <1>2 DEF OneListened
<1>4. \A r \in Slots : /\ Shape(req'[r]) /\ req'[r].job <= Len(row)
                       /\ Like(req'[r], req[r])
  BY <1>1 DEF ReqsHold, Like
<1>5. req' \in [Slots -> ReqType]
  BY <1>1 DEF StateTyped
<1>6. UNCHANGED <<server, worker, disk, blurred>>
  OBVIOUS
<1>7. QED
  BY <1>3, <1>4, <1>5, <1>6, ClientKeeps

LEMMA SlotIs ==
    ASSUME StateTyped, FreeSlots # {}
    PROVE  Min(FreeSlots) \in Slots /\ req[Min(FreeSlots)].at = "free"
<1>1. FreeSlots \in SUBSET Nat
  BY Constants DEF FreeSlots
<1>2. Min(FreeSlots) \in FreeSlots
  BY <1>1, MinIsIn
<1>3. QED
  BY <1>2 DEF FreeSlots

LEMMA FreshIs ==
    ASSUME TabKnows, fresh # {}
    PROVE  Min(fresh) \in Ids
<1>1. fresh \in SUBSET Nat
  BY Constants DEF TabKnows
<1>2. QED
  BY <1>1, MinIsIn DEF TabKnows

LEMMA StartUploadKeeps ==
    ASSUME UploadInv, NEW p \in Picks, StartUpload(p)
    PROVE  UploadInv'
<1>1. /\ tab.pc = "idle" /\ Cardinality(fresh) > 1 /\ UNCHANGED <<req, tries, mishaps>>
      /\ fresh' = fresh \ {Min(fresh)} /\ saved' = Min(fresh)
      /\ tab' = [NoTab EXCEPT !.pc = "asking", !.id = Min(fresh), !.pick = p]
      /\ UNCHANGED <<server, worker, disk, blurred>> /\ UNCHANGED row
  BY DEF StartUpload, Rest, worker
<1>2. TabKnows
  BY DEF UploadInv
<1>3. Min(fresh) \in Ids
  <2>1. fresh # {}
    BY <1>1, FS_EmptySet
  <2>2. QED
    BY <1>2, <2>1, FreshIs
<1>4. /\ tab' \in TabType /\ tab'.pc = "asking" /\ tab'.id = Min(fresh) /\ tab'.pick = p
      /\ tab'.job = 0
  BY <1>1, <1>3, NoTabIs DEF TabType
<1>5. TabKnows'
  BY <1>1, <1>2, <1>3, <1>4 DEF TabKnows
<1>6. TabClaims'
  BY <1>4 DEF TabClaims
<1>7. QED
  BY <1>1, <1>5, <1>6, TabAlone

LEMMA AskStagedKeeps ==
    ASSUME UploadInv, AskStaged
    PROVE  UploadInv'
<1>1. PICK s \in SUBSET Chunks :
        /\ tab' = [tab EXCEPT !.pc = "sending", !.attempt = 1, !.staged = s]
        /\ Mishap \/ UNCHANGED mishaps
  <2>1. upload[tab.id].received \in SUBSET Chunks
    BY DEF UploadInv, StateTyped, UploadType, TabKnows, AskStaged
  <2> DEFINE held == IF upload[tab.id].known /\ ~upload[tab.id].cancelled
                     THEN upload[tab.id].received ELSE {}
  <2>2. held \in SUBSET Chunks
    BY <2>1
  <2>3. \/ /\ tab' = [tab EXCEPT !.pc = "sending", !.attempt = 1, !.staged = held]
           /\ UNCHANGED mishaps
        \/ /\ tab' = [tab EXCEPT !.pc = "sending", !.attempt = 1, !.staged = {}]
           /\ Mishap
    BY DEF AskStaged
  <2> HIDE DEF held
  <2>4. QED
    BY <2>2, <2>3
<1>2. /\ tab.pc = "asking" /\ UNCHANGED <<saved, fresh, req, tries>>
      /\ UNCHANGED <<server, worker, disk, blurred>> /\ UNCHANGED row
  BY DEF AskStaged, Rest, worker
<1>3. TabKnows
  BY DEF UploadInv
<1>4. /\ tab' \in TabType /\ tab'.pc = "sending" /\ tab'.id = tab.id /\ tab'.pick = tab.pick
      /\ tab'.job = tab.job
  <2>1. tab \in TabType /\ 1 \in 1 .. ChunkAttempts
    BY <1>3, Constants DEF TabKnows
  <2>2. QED
    BY <1>1, <2>1 DEF TabType
<1>5. TabKnows'
  BY <1>2, <1>3, <1>4 DEF TabKnows
<1>6. TabClaims'
  BY <1>4 DEF TabClaims
<1>7. QED
  BY <1>1, <1>2, <1>5, <1>6, TabAlone

LEMMA RetryKeeps ==
    ASSUME UploadInv, NEW p \in Picks, Retry(p)
    PROVE  UploadInv'
<1>1. /\ tab.pc = "error" /\ tab' = [tab EXCEPT !.pc = "asking", !.pick = p]
      /\ UNCHANGED <<saved, fresh, req, mishaps>> /\ UNCHANGED <<server, worker, disk, blurred>>
      /\ UNCHANGED row /\ (Try \/ UNCHANGED tries)
  BY DEF Retry, Rest, worker
<1>2. TabKnows
  BY DEF UploadInv
<1>3. /\ tab' \in TabType /\ tab'.pc = "asking" /\ tab'.id = tab.id /\ tab'.pick = p
      /\ tab'.job = tab.job
  BY <1>1, <1>2 DEF TabKnows, TabType
<1>4. tries' \in 0 .. MaxTries
  BY <1>1, <1>2, Constants DEF TabKnows, Try
<1>5. TabKnows'
  BY <1>1, <1>2, <1>3, <1>4 DEF TabKnows
<1>6. TabClaims'
  BY <1>3 DEF TabClaims
<1>7. QED
  BY <1>1, <1>5, <1>6, TabAlone

LEMMA RemoveRowKeeps ==
    ASSUME UploadInv, RemoveRow
    PROVE  UploadInv'
<1>1. /\ tab.pc \in {"done", "error"} /\ tab' = NoTab
      /\ UNCHANGED <<saved, tries, fresh, req, mishaps>>
      /\ UNCHANGED <<server, worker, disk, blurred>> /\ UNCHANGED row
  BY DEF RemoveRow, Quiet, Rest, worker
<1>2. TabKnows /\ StateTyped
  BY DEF UploadInv
<1>3. TabKnows' /\ TabClaims'
  BY <1>1, <1>2, NoTabIs DEF TabKnows, TabClaims
<1>4. QED
  BY <1>1, <1>3, TabAlone

\* After which the tab listens to nobody.
LEMMA DeafKeeps ==
    ASSUME UploadInv, UNCHANGED <<server, worker, disk, blurred>>,
           Mishap \/ UNCHANGED mishaps,
           req' \in [Slots -> ReqType], TabKnows', blurred \/ TabClaims',
           \A r \in Slots : /\ Shape(req'[r]) /\ req'[r].job <= Len(row) /\ ~req'[r].live
                            /\ req'[r].at \in {"free", "new"} \/ Like(req'[r], req[r])
    PROVE  UploadInv'
<1>1. OneListened'
  BY DEF OneListened
<1>2. QED
  BY <1>1, ClientKeeps

\* The tab takes an answer, or its connection breaks.
LEMMA DropKeeps ==
    ASSUME UploadInv, UNCHANGED <<server, worker, disk, blurred>>,
           Mishap \/ UNCHANGED mishaps, TabKnows', blurred \/ TabClaims',
           NEW r \in Slots, req[r].live,
           req' = [req EXCEPT ![r] = NoReq] \/ req' = [req EXCEPT ![r] = Unheard(@)]
    PROVE  UploadInv'
<1>1. req \in [Slots -> ReqType] /\ ReqsHold /\ OneListened
  BY DEF UploadInv, StateTyped
<1>2. PICK a \in ReqType : /\ a = NoReq \/ a = Unheard(req[r])
                           /\ req' = [req EXCEPT ![r] = a]
  BY <1>1, NoReqIs, UnheardIs DEF ReqsHold
<1>3. Shape(req[r]) /\ req[r].job <= Len(row) /\ Len(row) \in Nat
  BY <1>1 DEF ReqsHold, UploadInv, StateTyped
<1>4. Shape(a) /\ ~a.live /\ (a.at = "free" \/ Like(a, req[r]))
  BY <1>1, <1>2, <1>3, NoReqIs, UnheardIs
<1>5. a.job <= Len(row)
  BY <1>2, <1>3, <1>1, NoReqIs, UnheardIs DEF Like
<1>6. \A s \in Slots \ {r} : req'[s] = req[s] /\ ~req[s].live
  BY <1>1, <1>2 DEF OneListened
<1>7. req' \in [Slots -> ReqType] /\ req'[r] = a
  BY <1>1, <1>2
<1>8. \A s \in Slots :
          /\ Shape(req'[s]) /\ req'[s].job <= Len(row) /\ ~req'[s].live
          /\ req'[s].at \in {"free", "new"} \/ Like(req'[s], req[s])
  BY <1>1, <1>4, <1>5, <1>6, <1>7 DEF ReqsHold, Like
<1>9. QED
  BY <1>7, <1>8, DeafKeeps

\* The tab sends a request.
LEMMA OpenKeeps ==
    ASSUME UploadInv, UNCHANGED <<server, worker, disk, blurred>>,
           Mishap \/ UNCHANGED mishaps, TabKnows', blurred \/ TabClaims',
           tab.pc \notin {"waiting", "completing", "clearing"}, FreeSlots # {},
           NEW q \in ReqType, req' = Opened(q), Shape(q), q.at = "new", q.job = 0,
           \/ tab'.pc = "waiting" /\ q.kind = "chunk"
           \/ /\ tab'.pc = "completing" /\ q.kind = "complete"
              /\ q.id = tab'.id /\ q.pick = tab'.pick
           \/ tab'.pc = "clearing" /\ q.kind = "cancel"
    PROVE  UploadInv'
<1>1. StateTyped /\ req \in [Slots -> ReqType] /\ ReqsHold /\ OneListened /\ Len(row) \in Nat
  BY DEF UploadInv, StateTyped
<1>2. PICK r \in Slots : req' = [req EXCEPT ![r] = q]
  BY <1>1, SlotIs DEF Opened
<1>3. /\ req' \in [Slots -> ReqType] /\ req'[r] = q
      /\ \A s \in Slots \ {r} : req'[s] = req[s] /\ ~req[s].live
  BY <1>1, <1>2, NobodyListens
<1>4. OneListened'
  BY <1>3 DEF OneListened
<1>5. \A s \in Slots :
          /\ Shape(req'[s]) /\ req'[s].job <= Len(row)
          /\ req'[s].at \in {"free", "new"} \/ Like(req'[s], req[s])
  BY <1>1, <1>3 DEF ReqsHold, Like
<1>6. QED
  BY <1>3, <1>4, <1>5, ClientKeeps

LEMMA NewReqIs ==
    ASSUME tab.id \in Ids, NEW c \in Chunks, NEW p \in Picks
    PROVE  /\ LET q == NewReq("chunk", c, p) IN
              /\ q \in ReqType /\ Shape(q) /\ q.at = "new" /\ q.job = 0 /\ q.kind = "chunk"
           /\ LET q == NewReq("complete", 0, p) IN
              /\ q \in ReqType /\ Shape(q) /\ q.at = "new" /\ q.job = 0
              /\ q.kind = "complete" /\ q.id = tab.id /\ q.pick = p
<1> DEFINE k == NewReq("chunk", c, p)  f == NewReq("complete", 0, p)
<1>1. /\ k \in ReqType /\ k.at = "new" /\ k.job = 0 /\ k.kind = "chunk" /\ k.chunk = c
      /\ k.id = tab.id /\ k.pick = p
  BY DEF NewReq, ReqType
<1>2. /\ f \in ReqType /\ f.at = "new" /\ f.job = 0 /\ f.kind = "complete"
      /\ f.id = tab.id /\ f.pick = p
  BY DEF NewReq, ReqType
<1> HIDE DEF k, f
<1>3. Shape(k) /\ Shape(f)
  BY <1>1, <1>2 DEF Shape
<1>4. QED
  BY <1>1, <1>2, <1>3 DEF k, f

LEMMA CancelReqIs ==
    ASSUME tab.id \in Ids
    PROVE  LET q == NewReq("cancel", 0, 0) IN
           /\ q \in ReqType /\ Shape(q) /\ q.at = "new" /\ q.job = 0 /\ q.kind = "cancel"
<1> DEFINE x == NewReq("cancel", 0, 0)
<1>1. /\ x \in ReqType /\ x.at = "new" /\ x.job = 0 /\ x.kind = "cancel" /\ x.id = tab.id
  BY DEF NewReq, ReqType
<1> HIDE DEF x
<1>2. Shape(x)
  BY <1>1 DEF Shape
<1>3. QED
  BY <1>1, <1>2 DEF x

\* Whoever the tab listened to, it does so no more.
LEMMA UnheardOrNot ==
    ASSUME StateTyped, ReqsHold, NEW r \in Slots, Len(row) \in Nat
    PROVE  LET a == IF r \in Mine THEN Unheard(req[r]) ELSE req[r] IN
           /\ a \in ReqType /\ Shape(a) /\ a.job <= Len(row) /\ ~a.live
           /\ a.at \in {"free", "new"} \/ Like(a, req[r])
<1>1. req[r] \in ReqType /\ Shape(req[r]) /\ req[r].job <= Len(row)
  BY DEF StateTyped, ReqsHold
<1>2. CASE req[r].live
  <2>1. LET a == Unheard(req[r]) IN
           /\ a \in ReqType /\ Shape(a) /\ ~a.live /\ (a = NoReq \/ Like(a, req[r]))
    BY <1>1, UnheardIs
  <2>2. LET a == Unheard(req[r]) IN a.job <= Len(row) /\ (a.at = "free" \/ Like(a, req[r]))
    BY <1>1, <2>1, NoReqIs DEF Like
  <2>3. QED
    BY <1>2, <2>1, <2>2 DEF Mine
<1>3. CASE ~req[r].live
  BY <1>1, <1>3 DEF Mine, Like
<1>4. QED
  BY <1>2, <1>3

LEMMA SendNextKeeps ==
    ASSUME UploadInv, SendNext
    PROVE  UploadInv'
<1>1. /\ tab.pc = "sending" /\ FreeSlots # {} /\ UNCHANGED <<saved, fresh, tries, mishaps>>
      /\ UNCHANGED <<server, worker, disk, blurred>> /\ UNCHANGED row
  BY DEF SendNext, Rest, worker
<1>2. TabKnows /\ tab \in TabType /\ tab.id \in Ids /\ tab.pick \in Picks
  BY <1>1 DEF UploadInv, TabKnows
<1>3. CASE tab.staged = Chunks
  <2> DEFINE q == NewReq("complete", 0, tab.pick)
  <2>1. req' = Opened(q) /\ tab' = [tab EXCEPT !.pc = "completing"]
    BY <1>3 DEF SendNext, Go
  <2>2. /\ q \in ReqType /\ Shape(q) /\ q.at = "new" /\ q.job = 0 /\ q.kind = "complete"
        /\ q.id = tab.id /\ q.pick = tab.pick
    BY <1>2, NewReqIs, Constants
  <2> HIDE DEF q
  <2>3. /\ tab' \in TabType /\ tab'.pc = "completing" /\ tab'.id = tab.id
        /\ tab'.pick = tab.pick /\ tab'.job = tab.job
    BY <1>2, <2>1 DEF TabType
  <2>4. TabKnows' /\ TabClaims'
    BY <1>1, <1>2, <2>3 DEF TabKnows, TabClaims
  <2>5. QED
    BY <1>1, <2>1, <2>2, <2>3, <2>4, OpenKeeps
<1>4. CASE tab.staged # Chunks
  <2> DEFINE c == Min(Chunks \ tab.staged)  q == NewReq("chunk", c, tab.pick)
  <2>1. req' = Opened(q) /\ tab' = [tab EXCEPT !.pc = "waiting"]
    BY <1>4 DEF SendNext, Go
  <2>2. c \in Chunks
    <3>1. Chunks \ tab.staged # {} /\ Chunks \ tab.staged \in SUBSET Nat
      BY <1>2, <1>4, Constants DEF TabType
    <3>2. QED
      BY <3>1, MinIsIn
  <2> HIDE DEF c
  <2>3. /\ q \in ReqType /\ Shape(q) /\ q.at = "new" /\ q.job = 0 /\ q.kind = "chunk"
    BY <1>2, <2>2, NewReqIs
  <2> HIDE DEF q
  <2>4. /\ tab' \in TabType /\ tab'.pc = "waiting" /\ tab'.id = tab.id
        /\ tab'.pick = tab.pick /\ tab'.job = tab.job
    BY <1>2, <2>1 DEF TabType
  <2>5. TabKnows' /\ TabClaims'
    BY <1>1, <1>2, <2>4 DEF TabKnows, TabClaims
  <2>6. QED
    BY <1>1, <2>1, <2>3, <2>4, <2>5, OpenKeeps
<1>5. QED
  BY <1>3, <1>4

\* Steps of the tab that leave what it works on.
LEMMA TabMoves ==
    ASSUME TabKnows, UNCHANGED <<saved, fresh, tries, row>>, tab' \in TabType,
           tab'.id = tab.id, tab'.pick = tab.pick, tab'.job = tab.job, tab.pc # "idle",
           \/ tab'.pc \in {"done", "error", "clearing"}
           \/ tab'.pc = "sending" /\ tab.pc = "waiting"
    PROVE  TabKnows'
BY DEF TabKnows

LEMMA ChunkAgainIs ==
    ASSUME TabKnows, ChunkAgain
    PROVE  /\ tab' \in TabType /\ tab'.id = tab.id /\ tab'.pick = tab.pick
           /\ tab'.job = tab.job /\ tab'.pc \in {"error", "sending"}
<1>1. CASE tab.attempt = ChunkAttempts
  BY <1>1 DEF ChunkAgain, Go, TabKnows, TabType
<1>2. CASE tab.attempt # ChunkAttempts
  <2>1. tab.attempt + 1 \in 1 .. ChunkAttempts /\ tab \in TabType
    BY <1>2, Constants DEF TabKnows, TabType
  <2> DEFINE n == tab.attempt + 1
  <2>2. tab' = [tab EXCEPT !.pc = "sending", !.attempt = n]
    BY <1>2 DEF ChunkAgain
  <2> HIDE DEF n
  <2>3. QED
    BY <2>1, <2>2 DEF TabType, n
<1>3. QED
  BY <1>1, <1>2

LEMMA ChunkAnsweredKeeps ==
    ASSUME UploadInv, ChunkAnswered
    PROVE  UploadInv'
<1>1. PICK r \in Slots :
        /\ req[r].live /\ req' = [req EXCEPT ![r] = NoReq]
        /\ \/ tab' = [tab EXCEPT !.pc = "sending", !.attempt = 1,
                                 !.staged = @ \cup {req[r].chunk}]
              /\ req[r].at = "replied"
           \/ Go("error")
           \/ ChunkAgain
  BY DEF ChunkAnswered, MyReplies, Mine
<1>2. /\ tab.pc = "waiting" /\ UNCHANGED <<saved, fresh, tries, mishaps>>
      /\ UNCHANGED <<server, worker, disk, blurred>> /\ UNCHANGED row
  BY DEF ChunkAnswered, Rest, worker
<1>3. TabKnows /\ tab \in TabType /\ OneListened /\ Shape(req[r]) /\ 1 \in 1 .. ChunkAttempts
  BY Constants DEF UploadInv, TabKnows, ReqsHold
<1>4. /\ tab' \in TabType /\ tab'.id = tab.id /\ tab'.pick = tab.pick
      /\ tab'.job = tab.job /\ tab'.pc \in {"error", "sending"}
  <2>1. CASE /\ req[r].at = "replied"
             /\ tab' = [tab EXCEPT !.pc = "sending", !.attempt = 1,
                                   !.staged = @ \cup {req[r].chunk}]
    <3> DEFINE s == tab.staged \cup {req[r].chunk}
    <3>1. req[r].chunk \in Chunks
      BY <1>1, <1>2, <1>3, <2>1 DEF Shape, OneListened
    <3>2. s \in SUBSET Chunks
      BY <3>1, <1>3 DEF TabType
    <3>3. tab' = [tab EXCEPT !.pc = "sending", !.attempt = 1, !.staged = s]
      BY <2>1, <1>3 DEF TabType
    <3> HIDE DEF s
    <3>4. QED
      BY <1>3, <3>2, <3>3 DEF TabType
  <2>2. CASE Go("error")
    BY <1>3, <2>2 DEF Go, TabType
  <2>3. CASE ChunkAgain
    BY <1>3, <2>3, ChunkAgainIs
  <2>4. QED
    BY <1>1, <2>1, <2>2, <2>3
<1>5. TabKnows' /\ TabClaims'
  BY <1>2, <1>3, <1>4, TabMoves DEF TabClaims
<1>6. QED
  BY <1>1, <1>2, <1>5, DropKeeps

LEMMA CompleteAnsweredKeeps ==
    ASSUME UploadInv, CompleteAnswered
    PROVE  UploadInv'
<1>1. PICK r \in Slots :
        /\ req[r].live /\ req[r].at = "replied" /\ req' = [req EXCEPT ![r] = NoReq]
        /\ IF req[r].out = "ok" THEN tab' = [tab EXCEPT !.pc = "verifying", !.job = req[r].job]
                                ELSE Go("error")
  BY DEF CompleteAnswered, MyReplies, Mine
<1>2. /\ tab.pc = "completing" /\ UNCHANGED <<saved, fresh, tries, mishaps>>
      /\ UNCHANGED <<server, worker, disk, blurred>> /\ row' = row /\ jobs' = jobs /\ dest' = dest
  BY DEF CompleteAnswered, Rest, worker, disk
<1>3. /\ TabKnows /\ tab \in TabType /\ tab.id \in Ids /\ tab.pick \in Picks /\ OneListened
      /\ req[r] \in ReqType /\ req[r].job <= Len(row)
  BY <1>2 DEF UploadInv, TabKnows, ReqsHold, StateTyped
<1>4. req[r].kind = "complete" /\ req[r].id = tab.id /\ req[r].pick = tab.pick
  BY <1>1, <1>2, <1>3 DEF OneListened
<1>5. TabKnows' /\ (blurred \/ TabClaims')
  <2>1. CASE req[r].out = "ok"
    <3>1. req[r].job \in Nat
      BY <1>3 DEF ReqType
    <3>2. /\ tab' \in TabType /\ tab'.pc = "verifying" /\ tab'.job = req[r].job
          /\ tab'.id = tab.id /\ tab'.pick = tab.pick
      BY <1>1, <1>3, <2>1, <3>1 DEF TabType
    <3>3. TabKnows'
      BY <1>2, <1>3, <3>2 DEF TabKnows
    <3>4. blurred \/ AnswerClaims
      BY DEF UploadInv, Firm
    <3>5. blurred \/ TabClaims'
      BY <1>1, <1>2, <1>3, <1>4, <2>1, <3>2, <3>4 DEF AnswerClaims, OkComplete, TabClaims
    <3>6. QED
      BY <3>3, <3>5
  <2>2. CASE req[r].out # "ok"
    <3>1. /\ tab' \in TabType /\ tab'.pc = "error" /\ tab'.job = tab.job
          /\ tab'.id = tab.id /\ tab'.pick = tab.pick
      BY <1>1, <1>3, <2>2 DEF Go, TabType
    <3>2. QED
      BY <1>2, <1>3, <3>1, TabMoves DEF TabClaims
  <2>3. QED
    BY <2>1, <2>2
<1>6. QED
  BY <1>1, <1>2, <1>5, DropKeeps

\* A step of the tab that leaves it at "error" or "clearing", with the same transfer.
LEMMA GoStops ==
    ASSUME TabKnows, NEW pc \in {"error", "clearing"}, Go(pc), tab.pc # "idle",
           UNCHANGED <<fresh, tries, row>>, saved' \in Ids \cup {0}
    PROVE  TabKnows' /\ TabClaims' /\ tab'.pc = pc
<1>1. /\ tab' \in TabType /\ tab'.pc = pc /\ tab'.job = tab.job
      /\ tab'.id = tab.id /\ tab'.pick = tab.pick
  BY DEF Go, TabKnows, TabType
<1>2. QED
  BY <1>1 DEF TabKnows, TabClaims

LEMMA PollKeeps ==
    ASSUME UploadInv, Poll
    PROVE  UploadInv'
<1>1. /\ tab.pc = "verifying" /\ UNCHANGED <<fresh, tries>>
      /\ UNCHANGED <<server, worker, disk, blurred>> /\ row' = row /\ jobs' = jobs /\ dest' = dest
  BY DEF Poll, Rest, worker, disk
<1>2. /\ TabKnows /\ tab \in TabType /\ tab.id \in Ids /\ saved \in Ids \cup {0}
      /\ blurred \/ TabClaims
  BY <1>1 DEF UploadInv, TabKnows, Firm
<1>3. CASE row[tab.job] = "completed" /\ Go("done") /\ saved' = 0 /\ UNCHANGED <<req, mishaps>>
  <2>1. /\ tab' \in TabType /\ tab'.pc = "done" /\ tab'.job = tab.job
        /\ tab'.id = tab.id /\ tab'.pick = tab.pick
    BY <1>2, <1>3 DEF Go, TabType
  <2>2. TabKnows'
    BY <1>1, <1>2, <1>3, <2>1 DEF TabKnows
  <2>3. ASSUME ~blurred
        PROVE  TabClaims'
    <3>1. PICK p \in Picks : tab.pick \in {0, p} /\ Claim(tab.job, tab.id, p, row, jobs, dest)
      BY <1>1, <1>2, <2>3 DEF TabClaims
    <3>2. \E f \in dest[tab.id] : Whole(f, p)
      BY <1>3, <3>1 DEF Claim
    <3>3. \E f \in dest[tab.id] : tab.pick = 0 \/ Whole(f, tab.pick)
      BY <3>1, <3>2
    <3>4. QED
      BY <1>1, <2>1, <3>3 DEF TabClaims
  <2>4. QED
    BY <1>1, <1>3, <2>2, <2>3, TabAlone
<1>4. CASE /\ Go("error") /\ UNCHANGED <<saved, req>> /\ (Mishap \/ UNCHANGED mishaps)
  <2>1. TabKnows' /\ TabClaims'
    BY <1>1, <1>2, <1>4, GoStops
  <2>2. QED
    BY <1>1, <1>4, <2>1, TabAlone
<1>5. CASE /\ FreeSlots # {} /\ req' = Opened(NewReq("cancel", 0, 0)) /\ Go("clearing")
           /\ UNCHANGED <<saved, mishaps>>
  <2> DEFINE q == NewReq("cancel", 0, 0)
  <2>1. /\ q \in ReqType /\ Shape(q) /\ q.at = "new" /\ q.job = 0 /\ q.kind = "cancel"
    BY <1>2, CancelReqIs
  <2>2. req' = Opened(q)
    BY <1>5
  <2> HIDE DEF q
  <2>3. TabKnows' /\ TabClaims' /\ tab'.pc = "clearing"
    BY <1>1, <1>2, <1>5, GoStops
  <2>4. QED
    BY <1>1, <1>5, <2>1, <2>2, <2>3, OpenKeeps
<1>6. QED
  BY <1>3, <1>4, <1>5 DEF Poll

LEMMA TakeIdIs ==
    ASSUME TabKnows, TakeId("error"), UNCHANGED <<tries, row>>
    PROVE  TabKnows' /\ TabClaims'
<1>1. /\ fresh' = fresh \ {Min(fresh)} /\ saved' = Min(fresh) /\ Min(fresh) \in Ids
      /\ tab' = [tab EXCEPT !.pc = "error", !.id = Min(fresh)]
  BY FreshIs DEF TakeId
<1>2. /\ tab' \in TabType /\ tab'.pc = "error" /\ tab'.id \in Ids /\ tab'.job = tab.job
  BY <1>1 DEF TabKnows, TabType
<1>3. QED
  BY <1>1, <1>2 DEF TabKnows, TabClaims

LEMMA ClearAnsweredKeeps ==
    ASSUME UploadInv, ClearAnswered
    PROVE  UploadInv'
<1>1. PICK r \in Slots : req[r].live /\ req' = [req EXCEPT ![r] = NoReq]
  BY DEF ClearAnswered, MyReplies, Mine
<1>2. /\ TakeId("error") /\ UNCHANGED <<tries, mishaps>>
      /\ UNCHANGED <<server, worker, disk, blurred>> /\ row' = row
  BY DEF ClearAnswered, Rest, worker
<1>3. TabKnows' /\ TabClaims'
  BY <1>2, TakeIdIs DEF UploadInv
<1>4. QED
  BY <1>1, <1>2, <1>3, DropKeeps

LEMMA BreakKeeps ==
    ASSUME UploadInv, Break
    PROVE  UploadInv'
<1>1. PICK r \in Slots : /\ req[r].live
                         /\ \/ req' = [req EXCEPT ![r] = NoReq]
                            \/ req' = [req EXCEPT ![r] = Unheard(@)]
  BY DEF Break, Mine
<1>2. /\ Mishap /\ UNCHANGED <<tries>>
      /\ UNCHANGED <<server, worker, disk, blurred>> /\ row' = row
  BY DEF Break, Rest, worker
<1>3. TabKnows
  BY DEF UploadInv
<1>4. CASE tab.pc = "waiting" /\ ChunkAgain /\ UNCHANGED <<saved, fresh>>
  <2>1. /\ tab' \in TabType /\ tab'.id = tab.id /\ tab'.pick = tab.pick
        /\ tab'.job = tab.job /\ tab'.pc \in {"error", "sending"}
    BY <1>3, <1>4, ChunkAgainIs
  <2>2. TabKnows' /\ TabClaims'
    BY <1>2, <1>3, <1>4, <2>1, TabMoves DEF TabClaims
  <2>3. QED
    BY <1>1, <1>2, <2>2, DropKeeps
<1>5. CASE tab.pc = "completing" /\ Go("error") /\ UNCHANGED <<saved, fresh>>
  <2>1. TabKnows' /\ TabClaims'
    BY <1>2, <1>3, <1>5, GoStops DEF TabKnows
  <2>2. QED
    BY <1>1, <1>2, <2>1, DropKeeps
<1>6. CASE tab.pc = "clearing" /\ TakeId("error")
  <2>1. TabKnows' /\ TabClaims'
    BY <1>2, <1>3, <1>6, TakeIdIs
  <2>2. QED
    BY <1>1, <1>2, <2>1, DropKeeps
<1>7. QED
  BY <1>4, <1>5, <1>6 DEF Break

LEMMA UserCancelKeeps ==
    ASSUME UploadInv, UserCancel
    PROVE  UploadInv'
<1> DEFINE x == Unheard(NewReq("cancel", 0, 0))  m == Min(FreeSlots)
<1>1. /\ tab.pc # "idle" /\ FreeSlots # {} /\ tab' = NoTab /\ saved' = 0
      /\ req' = [r \in Slots |-> IF r = m THEN x
                                 ELSE IF r \in Mine THEN Unheard(req[r]) ELSE req[r]]
      /\ UNCHANGED <<fresh, tries, mishaps>>
      /\ UNCHANGED <<server, worker, disk, blurred>> /\ row' = row
  BY DEF UserCancel, Rest, worker
<1>2. TabKnows /\ tab.id \in Ids /\ StateTyped /\ ReqsHold /\ Len(row) \in Nat
  BY <1>1 DEF UploadInv, TabKnows, StateTyped
<1>3. m \in Slots
  BY <1>1, <1>2, SlotIs
<1>4. /\ x \in ReqType /\ Shape(x) /\ ~x.live /\ x.job = 0 /\ x.at \in {"free", "new"}
  <2> DEFINE q == NewReq("cancel", 0, 0)
  <2>1. /\ q \in ReqType /\ Shape(q) /\ q.at = "new" /\ q.job = 0
    BY <1>2, CancelReqIs
  <2> HIDE DEF q
  <2>2. /\ Unheard(q) \in ReqType /\ Shape(Unheard(q)) /\ ~Unheard(q).live
        /\ Unheard(q) = NoReq \/ Like(Unheard(q), q)
    BY <2>1, UnheardIs
  <2>3. QED
    BY <2>1, <2>2, NoReqIs DEF q, Like
<1> HIDE DEF x, m
<1>5. \A r \in Slots :
          /\ req'[r] \in ReqType /\ Shape(req'[r]) /\ req'[r].job <= Len(row)
          /\ ~req'[r].live
          /\ req'[r].at \in {"free", "new"} \/ Like(req'[r], req[r])
  <2> SUFFICES ASSUME NEW r \in Slots
               PROVE  /\ req'[r] \in ReqType /\ Shape(req'[r]) /\ req'[r].job <= Len(row)
                      /\ ~req'[r].live
                      /\ req'[r].at \in {"free", "new"} \/ Like(req'[r], req[r])
    OBVIOUS
  <2>1. CASE r = m
    BY <1>1, <1>2, <1>3, <1>4, <2>1
  <2>2. CASE r # m
    BY <1>1, <1>2, <2>2, UnheardOrNot
  <2>3. QED
    BY <2>1, <2>2
<1>6. req' \in [Slots -> ReqType]
  BY <1>1, <1>5
<1>7. TabKnows' /\ TabClaims'
  BY <1>1, <1>2, NoTabIs DEF TabKnows, TabClaims
<1>8. QED
  BY <1>1, <1>5, <1>6, <1>7, DeafKeeps

LEMMA ReloadKeeps ==
    ASSUME UploadInv, Reload
    PROVE  UploadInv'
<1>1. /\ saved # 0 /\ Try /\ tab' = [NoTab EXCEPT !.pc = "loading", !.id = saved]
      /\ req' = [r \in Slots |-> IF r \in Mine THEN Unheard(req[r]) ELSE req[r]]
      /\ UNCHANGED <<saved, fresh, mishaps>>
      /\ UNCHANGED <<server, worker, disk, blurred>> /\ row' = row
  BY DEF Reload, Rest, worker
<1>2. TabKnows /\ StateTyped /\ ReqsHold /\ Len(row) \in Nat /\ saved \in Ids
  BY <1>1 DEF UploadInv, TabKnows, StateTyped
<1>3. \A r \in Slots :
          /\ req'[r] \in ReqType /\ Shape(req'[r]) /\ req'[r].job <= Len(row)
          /\ ~req'[r].live
          /\ req'[r].at \in {"free", "new"} \/ Like(req'[r], req[r])
  BY <1>1, <1>2, UnheardOrNot
<1>4. req' \in [Slots -> ReqType]
  BY <1>1, <1>3
<1>5. /\ tab' \in TabType /\ tab'.pc = "loading" /\ tab'.id = saved /\ tab'.job = 0
      /\ tab'.pick = 0
  BY <1>1, <1>2, NoTabIs DEF TabType
<1>6. tries' \in 0 .. MaxTries
  BY <1>1, <1>2, Constants DEF TabKnows, Try
<1>7. TabKnows' /\ TabClaims'
  BY <1>1, <1>2, <1>5, <1>6 DEF TabKnows, TabClaims
<1>8. QED
  BY <1>1, <1>3, <1>4, <1>7, DeafKeeps

LEMMA HydrateKeeps ==
    ASSUME UploadInv, Hydrate
    PROVE  UploadInv'
<1> DEFINE u == upload[tab.id]  status == IF u.job = 0 THEN "none" ELSE row[u.job]
<1>1. /\ tab.pc = "loading" /\ UNCHANGED <<fresh, tries>>
      /\ UNCHANGED <<server, worker, disk, blurred>> /\ row' = row /\ jobs' = jobs /\ dest' = dest
  BY DEF Hydrate, Rest, worker, disk
<1>2. /\ TabKnows /\ tab \in TabType /\ tab.id \in Ids /\ saved \in Ids \cup {0}
      /\ u \in UploadType /\ u.job <= Len(row) /\ (u.job # 0 => u.sha # 0)
      /\ blurred \/ UploadClaims
  BY <1>1 DEF UploadInv, TabKnows, Firm, StateTyped, UploadsSound, Sound
<1>3. CASE tab' = NoTab /\ saved' \in {0, saved} /\ req' = req /\ (Mishap \/ UNCHANGED mishaps)
  <2>1. TabKnows' /\ TabClaims'
    BY <1>1, <1>2, <1>3, NoTabIs DEF TabKnows, TabClaims
  <2>2. QED
    BY <1>1, <1>3, <2>1, TabAlone
<1>4. CASE /\ Unfinished(status) /\ tab' = [tab EXCEPT !.pc = "verifying", !.job = u.job]
           /\ UNCHANGED <<saved, req, mishaps>>
  <2>1. u.job # 0 /\ u.job \in Nat
    BY <1>2, <1>4 DEF Unfinished, UploadType
  <2>2. /\ tab' \in TabType /\ tab'.pc = "verifying" /\ tab'.job = u.job
        /\ tab'.id = tab.id /\ tab'.pick = tab.pick
    BY <1>2, <1>4, <2>1 DEF TabType
  <2> HIDE DEF u, status
  <2>3. TabKnows'
    BY <1>1, <1>2, <1>4, <2>2 DEF TabKnows
  <2>4. ASSUME ~blurred
        PROVE  TabClaims'
    <3>1. u.sha \in Picks
      BY <1>2, <2>1 DEF UploadType
    <3>2. Claim(u.job, tab.id, u.sha, row, jobs, dest)
      BY <1>2, <2>1, <2>4 DEF UploadClaims, u
    <3>3. \E p \in Picks : tab'.pick \in {0, p} /\ Claim(tab'.job, tab'.id, p, row, jobs, dest)
      BY <1>1, <1>2, <2>2, <3>1, <3>2 DEF TabKnows
    <3>4. QED
      BY <1>1, <2>2, <3>3 DEF TabClaims
  <2>5. QED
    BY <1>1, <1>4, <2>3, <2>4, TabAlone
<1>5. CASE Go("error") /\ UNCHANGED <<saved, req, mishaps>>
  <2>1. TabKnows' /\ TabClaims'
    BY <1>1, <1>2, <1>5, GoStops
  <2>2. QED
    BY <1>1, <1>5, <2>1, TabAlone
<1>6. CASE /\ FreeSlots # {} /\ req' = Opened(NewReq("cancel", 0, 0)) /\ Go("clearing")
           /\ UNCHANGED <<saved, mishaps>>
  <2> DEFINE q == NewReq("cancel", 0, 0)
  <2>1. /\ q \in ReqType /\ Shape(q) /\ q.at = "new" /\ q.job = 0 /\ q.kind = "cancel"
    BY <1>2, CancelReqIs
  <2>2. req' = Opened(q)
    BY <1>6
  <2> HIDE DEF q
  <2>3. TabKnows' /\ TabClaims' /\ tab'.pc = "clearing"
    BY <1>1, <1>2, <1>6, GoStops
  <2>4. QED
    BY <1>1, <1>6, <2>1, <2>2, <2>3, OpenKeeps
<1>7. QED
  BY <1>3, <1>4, <1>5, <1>6 DEF Hydrate

----------------------------------------------------------------------------
(* The backend's steps *)

\* What is required of the request in a slot after a step.
Listens(a, q) == a.live => q.live /\ a.kind = q.kind /\ a.id = q.id /\ a.pick = q.pick

LEMMA ListeningStays ==
    ASSUME OneListened, UNCHANGED tab, \A s \in Slots : Listens(req'[s], req[s])
    PROVE  OneListened'
BY DEF OneListened, Listens

\* What is required of the request in slot s after a step about upload id, whose state is w
\* afterwards.
FitsRequest(s, id, w) ==
    \/ req'[s] = req[s] /\ (req[s].at = "free" \/ req[s].id # id \/ w = upload[id])
    \/ req'[s] = NoReq
    \/ /\ req'[s].id = id /\ Shape(req'[s]) /\ req'[s].job <= Len(row')
       /\ Holds(req'[s], w) /\ Listens(req'[s], req[s])
       /\ blurred' \/ /\ Agrees(req'[s], w, row')
                      /\ OkComplete(req'[s]) =>
                            Claim(req'[s].job, id, req'[s].pick, row', jobs', dest')

\* What is required of its jobs and its files.
FitsRest(id, w) ==
    /\ Clears(id, w, row', jobs', part'[id])
    /\ w.job # 0 => Claim(w.job, id, w.sha, row', jobs', dest')
    /\ part'[id].there => w.known \/ \E i \in 1 .. Len(jobs') : jobs'[i].id = id
    /\ \A i \in 1 .. Len(jobs') : jobs'[i].id = id =>
          /\ row'[jobs'[i].n] = "pending"
          /\ jobs'[i].kind = "finalize" => w.job = jobs'[i].n

\* What is required of the lane and the disk, and of the other uploads' part of them.
OthersStay(id) ==
    /\ late' = {}
    /\ \A n \in 1 .. Len(row) : row[n] # "pending" => row'[n] # "pending"
    /\ \A n \in Nat, o \in Ids, p \in Picks :
          Claim(n, o, p, row, jobs, dest) => Claim(n, o, p, row', jobs', dest')
    /\ \A o \in Ids \ {id} :
          /\ Clears(o, upload[o], row, jobs, part[o]) =>
                Clears(o, upload[o], row', jobs', part'[o])
          /\ part'[o].there => part[o].there
          /\ (\E i \in 1 .. Len(jobs) : jobs[i].id = o) =>
                \E i \in 1 .. Len(jobs') : jobs'[i].id = o
    /\ \A i \in 1 .. Len(jobs') : jobs'[i].id # id => InLane(jobs'[i], upload, row')
    /\ \A o \in Ids : dest[o] \subseteq dest'[o]
    /\ WholeFiles' /\ HashedIsWhole'

LaneTyped ==
    /\ jobs \in Seq(JobType) /\ row \in Seq(Statuses) /\ hashed \in BOOLEAN
    /\ part \in [Ids -> PartType] /\ dest \in [Ids -> SUBSET Files] /\ late \subseteq LateType

\* A step about one upload, with the new value w of its state and t of its tombstone.
LEMMA StepKeeps ==
    ASSUME UploadInv, UNCHANGED client, Mishap \/ UNCHANGED mishaps,
           blurred' \in BOOLEAN, blurred => blurred',
           NEW id \in Ids, NEW w \in UploadType, NEW t \in BOOLEAN,
           upload' = [upload EXCEPT ![id] = w], tomb' = [tomb EXCEPT ![id] = t],
           LaneTyped', LaneSound', Len(row) <= Len(row'), Sound(w, t, row'),
           req' \in [Slots -> ReqType],
           \A s \in Slots : FitsRequest(s, id, w),
           blurred' \/ (FitsRest(id, w) /\ OthersStay(id))
    PROVE  UploadInv'
<1>1. tab' = tab /\ saved' = saved /\ fresh' = fresh /\ tries' = tries
  BY DEF client
<1>2. /\ StateTyped /\ TabKnows /\ OneListened /\ ReqsHold /\ UploadsSound /\ LaneSound
      /\ blurred \/ Firm
  BY DEF UploadInv
<1>3. /\ upload' \in [Ids -> UploadType] /\ upload'[id] = w /\ tomb' \in [Ids -> BOOLEAN]
      /\ tomb'[id] = t
      /\ \A o \in Ids \ {id} : upload'[o] = upload[o] /\ tomb'[o] = tomb[o]
  BY <1>2 DEF StateTyped
<1>4. StateTyped'
  BY <1>1, <1>2, <1>3, MishapCounts DEF StateTyped, LaneTyped
<1>5. Len(row) \in Nat /\ Len(row') \in Nat
  BY <1>2, <1>4 DEF StateTyped
<1>6. TabKnows'
  <2>1. tab.job \in Nat
    BY <1>2 DEF TabKnows, TabType
  <2>2. QED
    BY <1>1, <1>2, <1>5, <2>1 DEF TabKnows
<1>7. OneListened'
  <2>1. \A s \in Slots : Listens(req'[s], req[s])
    BY NoReqIs DEF Listens, FitsRequest
  <2>2. QED
    BY <1>1, <1>2, <2>1, ListeningStays
<1>8. \A s \in Slots : req'[s] = req[s] /\ req[s].at # "free"
                         /\ (req[s].id # id \/ w = upload[id])
          => upload'[req[s].id] = upload[req[s].id] /\ req[s].id \in Ids
  BY <1>2, <1>3 DEF ReqsHold, Shape
<1>9. ReqsHold'
  <2> SUFFICES ASSUME NEW s \in Slots
               PROVE  /\ Shape(req'[s]) /\ req'[s].job <= Len(row')
                      /\ req'[s].at # "free" => Holds(req'[s], upload'[req'[s].id])
    BY DEF ReqsHold
  <2>1. CASE /\ req'[s] = req[s]
             /\ req[s].at = "free" \/ req[s].id # id \/ w = upload[id]
    <3>1. req[s].job \in Nat
      BY <1>2 DEF StateTyped, ReqType
    <3>2. QED
      BY <1>2, <1>5, <1>8, <2>1, <3>1 DEF ReqsHold
  <2>2. CASE req'[s] = NoReq
    BY <1>5, <2>2, NoReqIs
  <2>3. QED
    BY <1>3, <2>1, <2>2 DEF FitsRequest
<1>10. UploadsSound'
  <2>1. \A o \in Ids : upload[o].job \in Nat /\ upload[o].cleanJob \in Nat
    BY <1>2 DEF StateTyped, UploadType
  <2>2. \A o \in Ids : Sound(upload[o], tomb[o], row) => Sound(upload[o], tomb[o], row')
    BY <1>5, <2>1 DEF Sound
  <2>3. QED
    BY <1>2, <1>3, <2>2 DEF UploadsSound
<1>11. ASSUME ~blurred'
       PROVE  Firm'
  <2>1. Firm /\ ~blurred /\ FitsRest(id, w) /\ OthersStay(id)
    BY <1>2, <1>11
  <2>2. \A o \in Ids : Finished(upload[o], row) => Finished(upload[o], row')
    <3>1. \A o \in Ids : upload[o].job \in Nat /\ upload[o].job <= Len(row)
      BY <1>2 DEF StateTyped, UploadType, UploadsSound, Sound
    <3>2. QED
      BY <1>5, <2>1, <3>1 DEF Finished, OthersStay
  <2>3. \A n \in Nat, o \in Ids, p \in Picks :
          Claim(n, o, p, row, jobs, dest) => Claim(n, o, p, row', jobs', dest')
    BY <2>1 DEF OthersStay
  <2>4. ReqsAgree' /\ AnswerClaims'
    <3> SUFFICES ASSUME NEW s \in Slots
                 PROVE  /\ req'[s].at # "free" => Agrees(req'[s], upload'[req'[s].id], row')
                        /\ OkComplete(req'[s]) =>
                              Claim(req'[s].job, req'[s].id, req'[s].pick, row', jobs', dest')
      BY DEF ReqsAgree, AnswerClaims
    <3>1. CASE /\ req'[s] = req[s]
               /\ req[s].at = "free" \/ req[s].id # id \/ w = upload[id]
      <4>1. req[s].at # "free" => Agrees(req[s], upload[req[s].id], row')
        <5>1. req[s].at # "free" => Agrees(req[s], upload[req[s].id], row) /\ req[s].id \in Ids
          BY <1>8, <2>1, <3>1 DEF Firm, ReqsAgree
        <5>2. QED
          BY <5>1, <2>2 DEF Agrees
      <4>2. OkComplete(req[s]) => req[s].job \in Nat /\ req[s].id \in Ids /\ req[s].pick \in Picks
        BY <1>2 DEF OkComplete, ReqsHold, Shape, StateTyped, ReqType
      <4>3. OkComplete(req[s]) => Claim(req[s].job, req[s].id, req[s].pick, row, jobs, dest)
        BY <2>1 DEF Firm, AnswerClaims
      <4>4. QED
        BY <1>8, <2>3, <3>1, <4>1, <4>2, <4>3
    <3>2. CASE req'[s] = NoReq
      BY <3>2, NoReqIs DEF OkComplete
    <3>3. QED
      BY <1>3, <1>11, <3>1, <3>2 DEF FitsRequest
  <2>5. UploadsClear'
    BY <1>3, <2>1 DEF Firm, UploadsClear, FitsRest, OthersStay
  <2>6. UploadClaims'
    <3>1. \A o \in Ids : upload[o].job # 0 => upload[o].sha \in Picks /\ upload[o].job \in Nat
      BY <1>2 DEF StateTyped, UploadType, UploadsSound, Sound
    <3>2. QED
      BY <1>3, <2>1, <2>3, <3>1 DEF Firm, UploadClaims, FitsRest
  <2>7. Cared'
    BY <1>3, <2>1 DEF Firm, Cared, FitsRest, OthersStay
  <2>8. LaneAgrees'
    <3>1. \A i \in 1 .. Len(jobs') : jobs'[i] \in JobType
      BY <1>4 DEF StateTyped
    <3>2. \A i \in 1 .. Len(jobs') : jobs'[i].id \in Ids
      BY <3>1 DEF JobType
    <3>3. QED
      BY <1>3, <2>1, <3>2 DEF LaneAgrees, InLane, FitsRest, OthersStay
  <2>9. TabClaims'
    <3>1. tab.job \in Nat /\ (tab.pc # "idle" => tab.id \in Ids)
      BY <1>2 DEF TabKnows, TabType
    <3>2. \A o \in Ids : dest[o] \subseteq dest'[o]
      BY <2>1 DEF OthersStay
    <3>3. TabClaims
      BY <2>1 DEF Firm
    <3>4. QED
      BY <1>1, <2>3, <3>1, <3>2, <3>3 DEF TabClaims
  <2>10. QED
    BY <2>1, <2>4, <2>5, <2>6, <2>7, <2>8, <2>9 DEF Firm, OthersStay
<1>12. QED
  BY <1>4, <1>6, <1>7, <1>9, <1>10, <1>11 DEF UploadInv

\* One that leaves the lane and the files as they are.
LEMMA OneUploadKeeps ==
    ASSUME UploadInv, UNCHANGED <<client, worker, disk>>, Mishap \/ UNCHANGED mishaps,
           blurred' \in BOOLEAN, blurred => blurred',
           NEW id \in Ids, NEW w \in UploadType, NEW t \in BOOLEAN,
           upload' = [upload EXCEPT ![id] = w], tomb' = [tomb EXCEPT ![id] = t],
           Sound(w, t, row),
           req' \in [Slots -> ReqType],
           \A s \in Slots : FitsRequest(s, id, w), blurred' \/ FitsRest(id, w)
    PROVE  UploadInv'
<1>1. /\ UNCHANGED client /\ jobs' = jobs /\ hashed' = hashed /\ row' = row
      /\ part' = part /\ late' = late /\ dest' = dest
  BY DEF worker, disk
<1>2. StateTyped /\ LaneSound /\ (blurred \/ Firm)
  BY DEF UploadInv
<1>3. LaneTyped' /\ LaneSound' /\ Len(row) <= Len(row')
  BY <1>1, <1>2 DEF StateTyped, LaneTyped, LaneSound
<1>4. blurred' \/ OthersStay(id)
  BY <1>1, <1>2 DEF Firm, OthersStay, LaneAgrees, WholeFiles, HashedIsWhole
<1>5. Sound(w, t, row')
  BY <1>1
<1>6. QED
  BY <1>1, <1>3, <1>4, <1>5, StepKeeps


\* What the invariant says of the upload of a request.
LEMMA OfUpload ==
    ASSUME UploadInv, NEW id \in Ids
    PROVE  /\ upload[id] \in UploadType /\ tomb[id] \in BOOLEAN
           /\ Sound(upload[id], tomb[id], row)
           /\ \/ blurred
              \/ /\ Clears(id, upload[id], row, jobs, part[id])
                 /\ upload[id].job # 0 =>
                       Claim(upload[id].job, id, upload[id].sha, row, jobs, dest)
                 /\ part[id].there =>
                       upload[id].known \/ \E i \in 1 .. Len(jobs) : jobs[i].id = id
                 /\ \A i \in 1 .. Len(jobs) : jobs[i].id = id =>
                       /\ row[jobs[i].n] = "pending"
                       /\ jobs[i].kind = "finalize" => upload[id].job = jobs[i].n
BY DEF UploadInv, StateTyped, UploadsSound, Firm, UploadsClear, UploadClaims, Cared, LaneAgrees,
       InLane

\* What it says of a request.
LEMMA OfRequest ==
    ASSUME UploadInv, NEW s \in Slots, req[s].at # "free"
    PROVE  /\ req[s] \in ReqType /\ req[s].id \in Ids /\ Shape(req[s])
           /\ req[s].job <= Len(row) /\ req[s].job \in Nat /\ Len(row) \in Nat
           /\ Holds(req[s], upload[req[s].id])
           /\ \/ blurred
              \/ /\ Agrees(req[s], upload[req[s].id], row)
                 /\ OkComplete(req[s]) =>
                       Claim(req[s].job, req[s].id, req[s].pick, row, jobs, dest)
<1>1. req[s] \in ReqType /\ req[s].id \in Ids /\ Shape(req[s]) /\ Len(row) \in Nat
  BY DEF UploadInv, StateTyped, ReqsHold, Shape
<1>2. req[s].job \in Nat
  BY <1>1 DEF ReqType
<1>3. QED
  BY <1>1, <1>2 DEF UploadInv, ReqsHold, Firm, ReqsAgree, AnswerClaims

\* A step of one request that changes nothing else.
LEMMA OneRequestKeeps ==
    ASSUME UploadInv, UNCHANGED <<client, server, worker, disk, blurred>>,
           Mishap \/ UNCHANGED mishaps,
           NEW r \in Slots, req[r].at # "free",
           NEW a \in ReqType, req' = [req EXCEPT ![r] = a],
           \/ a = NoReq
           \/ /\ a.id = req[r].id /\ Shape(a) /\ a.job <= Len(row) /\ ~OkComplete(a)
              /\ Holds(a, upload[a.id]) /\ Listens(a, req[r])
              /\ blurred \/ Agrees(a, upload[a.id], row)
    PROVE  UploadInv'
<1> DEFINE id == req[r].id
<1>1. id \in Ids
  BY OfRequest
<1>2. /\ req' \in [Slots -> ReqType] /\ req'[r] = a /\ \A s \in Slots \ {r} : req'[s] = req[s]
  BY DEF UploadInv, StateTyped
<1>3. /\ upload[id] \in UploadType /\ tomb[id] \in BOOLEAN
      /\ upload' = [upload EXCEPT ![id] = upload[id]]
      /\ tomb' = [tomb EXCEPT ![id] = tomb[id]]
  BY <1>1 DEF UploadInv, StateTyped, server
<1> HIDE DEF id
<1>4. \A s \in Slots : FitsRequest(s, id, upload[id])
  <2> TAKE s \in Slots
  <2>0. row' = row /\ jobs' = jobs /\ dest' = dest /\ blurred' = blurred
    BY DEF worker, disk
  <2>1. CASE s = r
    BY <2>0, <2>1, <1>2 DEF id, FitsRequest
  <2>2. CASE s # r /\ req[s].at # "free"
    BY <2>2, <1>2, OfRequest DEF Listens, FitsRequest
  <2>3. QED
    BY <2>1, <2>2, <1>2 DEF FitsRequest
<1>5. blurred' \in BOOLEAN /\ (blurred => blurred') /\ UNCHANGED <<client, worker, disk>>
  BY DEF UploadInv, StateTyped
<1>6. Sound(upload[id], tomb[id], row) /\ (blurred' \/ FitsRest(id, upload[id]))
  <2>1. row' = row /\ jobs' = jobs /\ dest' = dest /\ part' = part /\ blurred' = blurred
    BY DEF worker, disk
  <2>2. QED
    BY <1>1, <2>1, OfUpload DEF FitsRest
<1>7. QED
  BY <1>1, <1>2, <1>3, <1>4, <1>5, <1>6, OneUploadKeeps

\* An answer that is not the success of a completion says nothing of the upload.
LEMMA AnswerIs ==
    ASSUME UploadInv, NEW r \in Slots, req[r].at # "free",
           NEW out \in {"ok", "refused", "failed"},
           out # "ok" \/ req[r].kind # "complete"
    PROVE  LET a == Answered(req[r], out) IN
           /\ a \in ReqType
           /\ \/ a = NoReq
              \/ /\ a.id = req[r].id /\ Shape(a) /\ a.job <= Len(row) /\ ~OkComplete(a)
                 /\ Listens(a, req[r]) /\ \A u : Holds(a, u)
                 /\ \A u, rw : Agrees(a, u, rw)
<1>1. req[r] \in ReqType /\ Shape(req[r]) /\ req[r].job <= Len(row) /\ req[r].job \in Nat
      /\ Len(row) \in Nat
  BY OfRequest
<1> DEFINE q == req[r]
<1> HIDE DEF q
<1> DEFINE a == Answered(q, out)
<1>2. /\ a \in ReqType /\ Shape(a) /\ a.job <= q.job
      /\ \/ a = NoReq
         \/ /\ a.at = "replied" /\ a.out = out /\ a.live /\ q.live
            /\ a.kind = q.kind /\ a.id = q.id /\ a.pick = q.pick
            /\ a.job = q.job
  <2>1. q \in ReqType /\ Shape(q) /\ q.at # "free"
    BY <1>1 DEF q
  <2>2. QED
    BY <2>1, AnsweredIs
<1> HIDE DEF a
<1>3. a.job \in Nat
  BY <1>2 DEF ReqType
<1>4. QED
  BY <1>1, <1>2, <1>3 DEF q, a, OkComplete, Listens, Holds, Agrees, Cancelling

LEMMA ChunkArriveKeeps ==
    ASSUME UploadInv, NEW r \in Slots, ChunkArrive(r)
    PROVE  UploadInv'
<1> DEFINE q == req[r]  u == upload[q.id]
<1>1. /\ q.at = "new" /\ q.kind = "chunk"
      /\ IF u.cancelled \/ tomb[q.id] \/ FinalizationStarted(u)
         THEN Answer(r, "refused")
         ELSE req' = [req EXCEPT ![r].at = "pre", ![r].had = u.known]
      /\ UNCHANGED <<client, server, worker, disk, blurred>> /\ UNCHANGED mishaps
  BY DEF ChunkArrive
<1>2. /\ q \in ReqType /\ q.id \in Ids /\ Shape(q) /\ q.job <= Len(row) /\ u.known \in BOOLEAN
  BY <1>1, OfRequest, OfUpload DEF UploadType
<1>3. CASE Answer(r, "refused")
  <2>1. req' = [req EXCEPT ![r] = Answered(q, "refused")]
    BY <1>3 DEF Answer, UploadInv, StateTyped
  <2>2. QED
    BY <1>1, <2>1, AnswerIs, OneRequestKeeps
<1>4. CASE req' = [req EXCEPT ![r].at = "pre", ![r].had = u.known]
  <2> DEFINE a == [q EXCEPT !.at = "pre", !.had = u.known]
  <2>1. /\ a \in ReqType /\ a.at = "pre" /\ a.had = u.known /\ a.id = q.id /\ a.kind = q.kind
        /\ a.chunk = q.chunk /\ a.pick = q.pick /\ a.live = q.live /\ a.job = q.job
    BY <1>2 DEF ReqType
  <2>2. req' = [req EXCEPT ![r] = a]
    BY <1>4
  <2> HIDE DEF a
  <2>3. Shape(a) /\ Listens(a, q) /\ ~OkComplete(a)
    BY <1>1, <1>2, <2>1 DEF Shape, Listens, OkComplete
  <2>4. Holds(a, u) /\ Agrees(a, u, row)
    BY <2>1 DEF Holds, Agrees, Cancelling
  <2>5. QED
    BY <1>1, <1>2, <2>1, <2>2, <2>3, <2>4, OneRequestKeeps
<1>5. QED
  BY <1>1, <1>3, <1>4

LEMMA ChunkRefusedKeeps ==
    ASSUME UploadInv, NEW r \in Slots, ChunkRefused(r)
    PROVE  UploadInv'
<1>1. PICK out \in {"refused", "failed"} : Answer(r, out)
  BY DEF ChunkRefused
<1>2. /\ req[r].at = "pre" /\ Mishap /\ UNCHANGED <<client, server, worker, disk, blurred>>
  BY DEF ChunkRefused
<1>3. req' = [req EXCEPT ![r] = Answered(req[r], out)]
  BY <1>1 DEF Answer, UploadInv, StateTyped
<1>4. QED
  BY <1>2, <1>3, AnswerIs, OneRequestKeeps

\* A request that goes to its next step.
LEMMA MovedIs ==
    ASSUME NEW q \in ReqType, Shape(q),
           NEW x \in {"write", "join", "drain", "clean"},
           \/ x = "write" /\ q.kind = "chunk"
           \/ x = "join" /\ q.kind = "complete"
           \/ x \in {"drain", "clean"} /\ q.kind = "cancel",
           q.at # "free"
    PROVE  LET a == [q EXCEPT !.at = x] IN
           /\ a \in ReqType /\ Shape(a) /\ a.at = x /\ a.id = q.id /\ a.kind = q.kind
           /\ a.pick = q.pick /\ a.job = q.job /\ Listens(a, q) /\ ~OkComplete(a)
<1> DEFINE a == [q EXCEPT !.at = x]
<1>1. /\ a \in ReqType /\ a.at = x /\ a.id = q.id /\ a.kind = q.kind /\ a.chunk = q.chunk
      /\ a.pick = q.pick /\ a.job = q.job /\ a.live = q.live
  BY DEF ReqType
<1> HIDE DEF a
<1>2. Shape(a) /\ Listens(a, q) /\ ~OkComplete(a)
  BY <1>1 DEF Shape, Listens, OkComplete
<1>3. QED
  BY <1>1, <1>2 DEF a

\* A request the step does not touch fits the new state of its upload when whatever it
\* knew of the old one is true of the new one.
LEMMA SameFits ==
    ASSUME UploadInv, NEW s \in Slots, req'[s] = req[s], UNCHANGED <<row, jobs, dest>>,
           blurred => blurred', NEW id \in Ids, NEW w,
           req[s].at # "free" /\ req[s].id = id =>
               /\ Holds(req[s], upload[id]) => Holds(req[s], w)
               /\ Agrees(req[s], upload[id], row) => Agrees(req[s], w, row)
    PROVE  FitsRequest(s, id, w)
<1>1. CASE req[s].at = "free" \/ req[s].id # id
  BY <1>1 DEF FitsRequest
<1>2. CASE req[s].at # "free" /\ req[s].id = id
  BY <1>2, OfRequest DEF FitsRequest, Listens
<1>3. QED
  BY <1>1, <1>2

\* The state of an upload that differs from the old one in nothing its jobs, its cleanup
\* and its files are about.
LEMMA RestFits ==
    ASSUME UploadInv, NEW id \in Ids, NEW w, UNCHANGED <<row, jobs, dest, part>>,
           blurred => blurred',
           w.job = upload[id].job, w.job # 0 => w.sha = upload[id].sha,
           w.clean # "no" =>
               w.clean = upload[id].clean /\ w.cleanJob = upload[id].cleanJob /\ w.cancelled,
           upload[id].known => w.known
    PROVE  blurred' \/ FitsRest(id, w)
<1>1. \/ blurred
      \/ /\ Clears(id, upload[id], row, jobs, part[id])
         /\ upload[id].job # 0 => Claim(upload[id].job, id, upload[id].sha, row, jobs, dest)
         /\ part[id].there => upload[id].known \/ \E i \in 1 .. Len(jobs) : jobs[i].id = id
         /\ \A i \in 1 .. Len(jobs) : jobs[i].id = id =>
               /\ row[jobs[i].n] = "pending"
               /\ jobs[i].kind = "finalize" => upload[id].job = jobs[i].n
  BY OfUpload
<1>2. Clears(id, upload[id], row, jobs, part[id]) => Clears(id, w, row, jobs, part[id])
  BY DEF Clears, Finished
<1>3. QED
  BY <1>1, <1>2 DEF FitsRest

LEMMA ChunkClaimKeeps ==
    ASSUME UploadInv, NEW r \in Slots, ChunkClaim(r)
    PROVE  UploadInv'
<1> DEFINE q == req[r]  id == q.id  u == upload[id]
<1>1. /\ q.at = "pre" /\ UNCHANGED <<client, tomb, worker, disk, blurred>> /\ UNCHANGED mishaps
      /\ row' = row /\ jobs' = jobs /\ dest' = dest /\ part' = part
  BY DEF ChunkClaim, worker, disk
<1>2. /\ q \in ReqType /\ id \in Ids /\ Shape(q) /\ q.job <= Len(row) /\ q.kind = "chunk"
      /\ Holds(q, u) /\ q.chunk \in Chunks
  BY <1>1, OfRequest DEF Shape
<1>3. CASE Answer(r, "refused") /\ UNCHANGED upload
  <2>1. req' = [req EXCEPT ![r] = Answered(q, "refused")]
    BY <1>3 DEF Answer, UploadInv, StateTyped
  <2>2. UNCHANGED <<client, server, worker, disk, blurred>>
    BY <1>1, <1>3 DEF server
  <2>3. QED
    BY <1>1, <2>1, <2>2, AnswerIs, OneRequestKeeps
<1>4. CASE /\ ~(~q.had /\ tomb[id]) /\ ~u.cancelled /\ ~FinalizationStarted(u)
           /\ req' = [req EXCEPT ![r].at = "write"]
           /\ upload' = [upload EXCEPT ![id].known = TRUE]
  <2> DEFINE a == [q EXCEPT !.at = "write"]  w == [u EXCEPT !.known = TRUE]
  <2>1. /\ u \in UploadType /\ tomb[id] \in BOOLEAN /\ Sound(u, tomb[id], row)
        /\ blurred \/ Clears(id, u, row, jobs, part[id])
    BY <1>2, OfUpload
  <2>2. /\ w \in UploadType /\ w.known /\ w.received = u.received /\ w.cancelled = u.cancelled
        /\ w.sha = u.sha /\ w.fin = u.fin /\ w.job = u.job /\ w.clean = u.clean
        /\ w.cleanJob = u.cleanJob
    BY <2>1 DEF UploadType
  <2>3. /\ a \in ReqType /\ Shape(a) /\ a.at = "write" /\ a.id = id /\ a.kind = q.kind
        /\ a.pick = q.pick /\ a.job = q.job /\ Listens(a, q) /\ ~OkComplete(a)
    BY <1>1, <1>2, MovedIs
  <2>4. req' = [req EXCEPT ![r] = a] /\ upload' = [upload EXCEPT ![id] = w]
        /\ tomb' = [tomb EXCEPT ![id] = tomb[id]]
    BY <1>1, <1>4 DEF UploadInv, StateTyped
  <2> HIDE DEF a, w
  <2>5. ~tomb[id]
    BY <1>1, <1>2, <1>4, <2>1 DEF Holds, Sound
  <2>6. Sound(w, tomb[id], row)
    BY <2>1, <2>2, <2>5 DEF Sound, KnownActive
  <2>7. Holds(a, w) /\ (blurred \/ Agrees(a, w, row))
    BY <1>4, <2>1, <2>2, <2>3 DEF Holds, Agrees, Clears, FinalizationStarted, Cancelling
  <2>8. req' \in [Slots -> ReqType] /\ req'[r] = a /\ \A s \in Slots \ {r} : req'[s] = req[s]
    BY <2>3, <2>4 DEF UploadInv, StateTyped
  <2>9. \A s \in Slots : FitsRequest(s, id, w)
    <3> TAKE s \in Slots
    <3>1. CASE s = r
      BY <1>1, <1>2, <2>3, <2>7, <2>8, <3>1 DEF FitsRequest
    <3>2. CASE s # r
      <4>1. /\ Holds(req[s], u) => Holds(req[s], w)
            /\ Agrees(req[s], u, row) => Agrees(req[s], w, row)
        BY <2>2 DEF Holds, Agrees, Finished, FinalizationStarted
      <4>2. QED
        BY <1>1, <1>2, <2>8, <3>2, <4>1, SameFits
    <3>3. QED
      BY <3>1, <3>2
  <2>10. blurred' \/ FitsRest(id, w)
    <3>1. w.clean = "no" \/ blurred
      BY <1>4, <2>1, <2>2 DEF Clears
    <3>2. QED
      BY <1>1, <1>2, <2>2, <3>1, RestFits
  <2>11. blurred' \in BOOLEAN
    BY <1>1 DEF UploadInv, StateTyped
  <2>12. QED
    BY <1>1, <1>2, <2>1, <2>2, <2>4, <2>6, <2>8, <2>9, <2>10, <2>11, OneUploadKeeps
<1>5. QED
  BY <1>3, <1>4 DEF ChunkClaim

LEMMA WrittenIs ==
    ASSUME part \in [Ids -> PartType], NEW id \in Ids, NEW c \in Chunks, NEW p \in Picks
    PROVE  /\ Written(id, c, p) \in [Ids -> PartType]
           /\ \A o \in Ids \ {id} : Written(id, c, p)[o] = part[o]
<1> DEFINE f == [part[id].data EXCEPT ![c] = p]  b == [there |-> TRUE, data |-> f]
<1>1. part[id] \in PartType
  OBVIOUS
<1>2. part[id].data \in Files
  BY <1>1 DEF PartType
<1>3. f \in Files
  BY <1>2 DEF Files
<1> HIDE DEF f
<1>4. b \in PartType
  BY <1>3 DEF PartType
<1>5. Written(id, c, p) = [part EXCEPT ![id] = b]
  BY DEF Written, f
<1> HIDE DEF b
<1>6. QED
  BY <1>4, <1>5

\* What a change of one staging file leaves, when the lane stays as it is.
LEMMA PartStays ==
    ASSUME UploadInv, UNCHANGED <<row, jobs, hashed, dest, late>>, NEW id \in Ids,
           \A o \in Ids \ {id} : part'[o] = part[o],
           ~blurred, hashed => Head(jobs).id # id
    PROVE  OthersStay(id)
<1>1. Firm /\ LaneSound /\ jobs \in Seq(JobType)
  BY DEF UploadInv, StateTyped
<1>2. HashedIsWhole'
  <2> SUFFICES ASSUME hashed
               PROVE  /\ part'[Head(jobs).id].there
                      /\ Whole(part'[Head(jobs).id].data, Head(jobs).pick)
    BY DEF HashedIsWhole
  <2>1. Head(jobs) \in JobType
    BY <1>1 DEF LaneSound
  <2>2. Head(jobs).id \in Ids \ {id}
    BY <2>1 DEF JobType
  <2>3. QED
    BY <1>1, <2>2 DEF Firm, HashedIsWhole
<1>3. QED
  BY <1>1, <1>2 DEF OthersStay, Firm, LaneAgrees, WholeFiles

\* A chunk is being written: no finalisation of the upload is at work or waits.
LEMMA WritingIs ==
    ASSUME UploadInv, NEW r \in Slots, req[r].at = "write", ~blurred
    PROVE  /\ upload[req[r].id].known /\ upload[req[r].id].clean = "no"
           /\ upload[req[r].id].job = 0
           /\ hashed => Head(jobs).id # req[r].id
<1> DEFINE u == upload[req[r].id]
<1>1. u.known /\ u.clean = "no" /\ u.job = 0
  BY OfRequest DEF Agrees, Holds, FinalizationStarted
<1>2. ASSUME hashed
      PROVE  Head(jobs).id # req[r].id
  <2>1. /\ jobs \in Seq(JobType) /\ jobs # <<>> /\ Head(jobs).kind = "finalize"
        /\ jobs[1].n \in 1 .. Len(row) /\ InLane(jobs[1], upload, row) /\ Head(jobs) = jobs[1]
    BY <1>2 DEF UploadInv, StateTyped, LaneSound, Firm, LaneAgrees
  <2>2. upload[Head(jobs).id].job = jobs[1].n
    BY <2>1 DEF InLane
  <2>3. QED
    BY <1>1, <2>1, <2>2
<1>3. QED
  BY <1>1, <1>2

LEMMA ChunkWriteKeeps ==
    ASSUME UploadInv, NEW r \in Slots, ChunkWrite(r)
    PROVE  UploadInv'
<1> DEFINE q == req[r]  id == q.id  u == upload[id]
<1>1. /\ q.at = "write" /\ part' = Written(id, q.chunk, q.pick)
      /\ upload' = [upload EXCEPT ![id].received = @ \cup {q.chunk}]
      /\ Answer(r, "ok")
      /\ UNCHANGED <<client, tomb, blurred>> /\ UNCHANGED mishaps
      /\ row' = row /\ jobs' = jobs /\ hashed' = hashed /\ dest' = dest /\ late' = late
  BY DEF ChunkWrite, worker
<1>2. /\ q \in ReqType /\ id \in Ids /\ Shape(q) /\ q.job <= Len(row) /\ q.kind = "chunk"
      /\ Holds(q, u) /\ q.chunk \in Chunks /\ q.pick \in Picks
  BY <1>1, OfRequest DEF Shape
<1> DEFINE x == u.received \cup {q.chunk}  w == [u EXCEPT !.received = x]
           a == Answered(q, "ok")
<1>3. /\ u \in UploadType /\ tomb[id] \in BOOLEAN /\ Sound(u, tomb[id], row)
  BY <1>2, OfUpload
<1>4. /\ w \in UploadType /\ w.known = u.known /\ w.cancelled = u.cancelled
      /\ w.sha = u.sha /\ w.fin = u.fin /\ w.job = u.job /\ w.clean = u.clean
      /\ w.cleanJob = u.cleanJob
  <2>1. x \in SUBSET Chunks
    BY <1>2, <1>3 DEF UploadType
  <2> HIDE DEF x
  <2>2. QED
    BY <1>3, <2>1 DEF UploadType
<1>5. /\ a \in ReqType
      /\ \/ a = NoReq
         \/ /\ a.id = id /\ Shape(a) /\ a.job <= Len(row) /\ ~OkComplete(a)
            /\ Listens(a, q) /\ \A v : Holds(a, v)
            /\ \A v, rw : Agrees(a, v, rw)
  BY <1>1, <1>2, AnswerIs
<1>6. req' = [req EXCEPT ![r] = a] /\ upload' = [upload EXCEPT ![id] = w]
      /\ tomb' = [tomb EXCEPT ![id] = tomb[id]]
  <2>1. upload' = [upload EXCEPT ![id] = [@ EXCEPT !.received = upload[id].received
                                                          \cup {q.chunk}]]
    BY <1>1, <1>2, <1>3 DEF UploadInv, StateTyped, UploadType
  <2>2. QED
    BY <1>1, <1>2, <2>1 DEF UploadInv, StateTyped, Answer
<1> HIDE DEF a, w, x
<1>7. Sound(w, tomb[id], row')
  BY <1>1, <1>3, <1>4 DEF Sound, KnownActive
<1>8. req' \in [Slots -> ReqType] /\ req'[r] = a /\ \A s \in Slots \ {r} : req'[s] = req[s]
  BY <1>5, <1>6 DEF UploadInv, StateTyped
<1>9. \A s \in Slots : FitsRequest(s, id, w)
  <2> TAKE s \in Slots
  <2>1. CASE s = r
    BY <1>1, <1>5, <1>8, <2>1 DEF FitsRequest
  <2>2. CASE s # r
    <3>1. /\ Holds(req[s], u) => Holds(req[s], w)
          /\ Agrees(req[s], u, row) => Agrees(req[s], w, row)
      BY <1>4 DEF Holds, Agrees, Finished, FinalizationStarted
    <3>2. QED
      BY <1>1, <1>2, <1>8, <2>2, <3>1, SameFits
  <2>3. QED
    BY <2>1, <2>2
<1>10. part \in [Ids -> PartType] /\ LaneTyped /\ LaneSound /\ Len(row) \in Nat
       /\ blurred \in BOOLEAN
  BY DEF UploadInv, StateTyped, LaneTyped
<1>11. part' \in [Ids -> PartType] /\ \A o \in Ids \ {id} : part'[o] = part[o]
  BY <1>1, <1>2, <1>10, WrittenIs
<1>12. LaneTyped' /\ LaneSound' /\ Len(row) <= Len(row')
  BY <1>1, <1>10, <1>11 DEF LaneTyped, LaneSound
<1>13. ASSUME ~blurred
       PROVE  FitsRest(id, w) /\ OthersStay(id)
  <2>1. u.known /\ u.clean = "no" /\ u.job = 0 /\ (hashed => Head(jobs).id # id)
    BY <1>1, <1>13, WritingIs
  <2>2. OthersStay(id)
    BY <1>1, <1>2, <1>11, <1>13, <2>1, PartStays
  <2>3. Clears(id, w, row', jobs', part'[id])
    BY <1>4, <2>1 DEF Clears
  <2>4. \A i \in 1 .. Len(jobs) : jobs[i].id = id =>
            /\ row[jobs[i].n] = "pending"
            /\ jobs[i].kind = "finalize" => u.job = jobs[i].n
    BY <1>2, <1>13, OfUpload
  <2>5. QED
    BY <1>1, <1>4, <2>1, <2>2, <2>3, <2>4 DEF FitsRest
<1>14. QED
  BY <1>1, <1>2, <1>3, <1>4, <1>6, <1>7, <1>8, <1>9, <1>10, <1>12, <1>13, StepKeeps

\* A chunk is written, at once or later, without being staged.
LEMMA UnstagedKeeps ==
    ASSUME UploadInv, UNCHANGED <<client, server, worker, dest>>, Mishap \/ UNCHANGED mishaps,
           blurred' \in BOOLEAN, blurred => blurred',
           part' \in [Ids -> PartType], late' \subseteq LateType,
           req' \in [Slots -> ReqType], NEW id \in Ids,
           \A s \in Slots : FitsRequest(s, id, upload[id]),
           blurred' \/ /\ late' = late /\ \A o \in Ids \ {id} : part'[o] = part[o]
                       /\ upload[id].known /\ upload[id].clean = "no"
                       /\ hashed => Head(jobs).id # id
    PROVE  UploadInv'
<1>1. /\ row' = row /\ jobs' = jobs /\ hashed' = hashed /\ dest' = dest
      /\ upload' = [upload EXCEPT ![id] = upload[id]]
      /\ tomb' = [tomb EXCEPT ![id] = tomb[id]]
  BY DEF worker, server, UploadInv, StateTyped
<1>2. /\ LaneTyped /\ LaneSound /\ Len(row) \in Nat
      /\ upload[id] \in UploadType /\ tomb[id] \in BOOLEAN
      /\ Sound(upload[id], tomb[id], row)
  BY OfUpload DEF UploadInv, StateTyped, LaneTyped
<1>3. LaneTyped' /\ LaneSound' /\ Len(row) <= Len(row') /\ Sound(upload[id], tomb[id], row')
  BY <1>1, <1>2 DEF LaneTyped, LaneSound
<1>4. ASSUME ~blurred'
      PROVE  FitsRest(id, upload[id]) /\ OthersStay(id)
  <2>1. OthersStay(id)
    BY <1>1, <1>4, PartStays
  <2>2. Clears(id, upload[id], row', jobs', part'[id])
    BY <1>4 DEF Clears
  <2>3. /\ upload[id].job # 0 => Claim(upload[id].job, id, upload[id].sha, row, jobs, dest)
        /\ \A i \in 1 .. Len(jobs) : jobs[i].id = id =>
               /\ row[jobs[i].n] = "pending"
               /\ jobs[i].kind = "finalize" => upload[id].job = jobs[i].n
    BY <1>4, OfUpload
  <2>4. QED
    BY <1>1, <1>4, <2>1, <2>2, <2>3 DEF FitsRest
<1>5. UNCHANGED client
  OBVIOUS
<1>6. QED
  BY <1>1, <1>2, <1>3, <1>4, <1>5, StepKeeps

LEMMA ChunkFailsKeeps ==
    ASSUME UploadInv, NEW r \in Slots, ChunkFails(r)
    PROVE  UploadInv'
<1> DEFINE q == req[r]  id == q.id
<1>1. PICK out \in {"refused", "failed"} :
        /\ Answer(r, out)
        /\ \/ UNCHANGED <<part, late, blurred>>
           \/ part' = Written(id, q.chunk, q.pick) /\ UNCHANGED <<late, blurred>>
           \/ /\ late' = late \cup {[id |-> id, chunk |-> q.chunk, pick |-> q.pick]}
              /\ blurred' = TRUE /\ UNCHANGED part
  BY DEF ChunkFails
<1>2. q.at = "write" /\ Mishap /\ UNCHANGED <<client, server, worker, dest>>
  BY DEF ChunkFails
<1>3. /\ q \in ReqType /\ id \in Ids /\ Shape(q) /\ q.kind = "chunk" /\ q.chunk \in Chunks
      /\ q.pick \in Picks
  BY <1>2, OfRequest DEF Shape
<1>4. req' = [req EXCEPT ![r] = Answered(q, out)]
  BY <1>1 DEF Answer, UploadInv, StateTyped
<1> DEFINE a == Answered(q, out)
<1>5. /\ a \in ReqType
      /\ \/ a = NoReq
         \/ /\ a.id = id /\ Shape(a) /\ a.job <= Len(row) /\ ~OkComplete(a)
            /\ Listens(a, q) /\ \A v : Holds(a, v)
            /\ \A v, rw : Agrees(a, v, rw)
  BY <1>2, AnswerIs
<1>6. req' \in [Slots -> ReqType] /\ req'[r] = a /\ \A s \in Slots \ {r} : req'[s] = req[s]
  BY <1>4, <1>5 DEF UploadInv, StateTyped
<1> HIDE DEF a
<1>7. \A s \in Slots : FitsRequest(s, id, upload[id])
  BY <1>2, <1>5, <1>6 DEF FitsRequest, worker
<1>8. part \in [Ids -> PartType] /\ late \subseteq LateType /\ blurred \in BOOLEAN
  BY DEF UploadInv, StateTyped
<1>9. CASE UNCHANGED <<part, late, blurred>>
  <2>1. UNCHANGED <<client, server, worker, disk, blurred>>
    BY <1>2, <1>9 DEF disk
  <2>2. QED
    BY <1>2, <1>4, <2>1, AnswerIs, OneRequestKeeps
<1>10. CASE part' = Written(id, q.chunk, q.pick) /\ UNCHANGED <<late, blurred>>
  <2>1. part' \in [Ids -> PartType] /\ \A o \in Ids \ {id} : part'[o] = part[o]
    BY <1>3, <1>8, <1>10, WrittenIs
  <2>2. \/ blurred
        \/ upload[id].known /\ upload[id].clean = "no" /\ (hashed => Head(jobs).id # id)
    BY <1>2, WritingIs
  <2>3. QED
    BY <1>2, <1>3, <1>6, <1>7, <1>8, <1>10, <2>1, <2>2, UnstagedKeeps
<1>11. CASE /\ late' = late \cup {[id |-> id, chunk |-> q.chunk, pick |-> q.pick]}
            /\ blurred' = TRUE /\ UNCHANGED part
  <2>1. late' \subseteq LateType
    BY <1>3, <1>8, <1>11 DEF LateType
  <2>2. QED
    BY <1>2, <1>3, <1>6, <1>7, <1>8, <1>11, <2>1, UnstagedKeeps
<1>12. QED
  BY <1>1, <1>9, <1>10, <1>11

LEMMA LateWriteKeeps ==
    ASSUME UploadInv, LateWrite
    PROVE  UploadInv'
<1>1. PICK x \in late : part' = Written(x.id, x.chunk, x.pick) /\ late' = late \ {x}
  BY DEF LateWrite
<1>2. /\ UNCHANGED <<client, server, worker, dest>> /\ req' = req /\ blurred' = blurred
      /\ mishaps' = mishaps
  BY DEF LateWrite
<1>3. /\ part \in [Ids -> PartType] /\ late \subseteq LateType /\ blurred \in BOOLEAN
      /\ req \in [Slots -> ReqType] /\ (blurred \/ late = {})
  BY DEF UploadInv, StateTyped, Firm
<1>4. x.id \in Ids /\ x.chunk \in Chunks /\ x.pick \in Picks /\ blurred
  BY <1>1, <1>3 DEF LateType
<1>5. part' \in [Ids -> PartType] /\ late' \subseteq LateType
  BY <1>1, <1>3, <1>4, WrittenIs
<1>6. \A s \in Slots : FitsRequest(s, x.id, upload[x.id])
  BY <1>2 DEF FitsRequest
<1>7. QED
  BY <1>2, <1>3, <1>4, <1>5, <1>6, UnstagedKeeps

LEMMA CompleteArriveKeeps ==
    ASSUME UploadInv, NEW r \in Slots, CompleteArrive(r)
    PROVE  UploadInv'
<1> DEFINE q == req[r]  id == q.id  u == upload[id]
<1>1. /\ q.at = "new" /\ q.kind = "complete"
      /\ UNCHANGED <<client, tomb, worker, disk, blurred>> /\ UNCHANGED mishaps
      /\ row' = row /\ jobs' = jobs /\ dest' = dest /\ part' = part
  BY DEF CompleteArrive, worker, disk
<1>2. /\ q \in ReqType /\ id \in Ids /\ Shape(q) /\ q.job <= Len(row) /\ q.pick \in Picks
  BY <1>1, OfRequest DEF Shape
<1>3. CASE Answer(r, "refused") /\ UNCHANGED upload
  <2>1. req' = [req EXCEPT ![r] = Answered(q, "refused")]
    BY <1>3 DEF Answer, UploadInv, StateTyped
  <2>2. UNCHANGED <<client, server, worker, disk, blurred>>
    BY <1>1, <1>3 DEF server
  <2>3. QED
    BY <1>1, <2>1, <2>2, AnswerIs, OneRequestKeeps
<1>4. CASE /\ u.known /\ ~u.cancelled /\ ~Writing(id) /\ u.sha \in {0, q.pick}
           /\ req' = [req EXCEPT ![r].at = "join"]
           /\ upload' = IF u.fin # "no" THEN upload
                        ELSE [upload EXCEPT ![id].sha = q.pick, ![id].fin = "check"]
  <2> DEFINE a == [q EXCEPT !.at = "join"]
             w == IF u.fin # "no" THEN u ELSE [u EXCEPT !.sha = q.pick, !.fin = "check"]
  <2>1. /\ u \in UploadType /\ tomb[id] \in BOOLEAN /\ Sound(u, tomb[id], row)
        /\ blurred \/ Clears(id, u, row, jobs, part[id])
    BY <1>2, OfUpload
  <2>2. /\ w \in UploadType /\ w.known = u.known /\ w.cancelled = u.cancelled
        /\ w.job = u.job /\ w.clean = u.clean /\ w.cleanJob = u.cleanJob
        /\ w.sha = q.pick /\ w.fin # "no"
        /\ u.fin # "no" => w = u
        /\ u.fin = "no" => w.fin = "check"
    <3>1. CASE u.fin # "no"
      BY <1>4, <2>1, <3>1 DEF Sound
    <3>2. CASE u.fin = "no"
      BY <1>2, <2>1, <3>2 DEF UploadType
    <3>3. QED
      BY <3>1, <3>2
  <2>3. /\ a \in ReqType /\ Shape(a) /\ a.at = "join" /\ a.id = id /\ a.kind = q.kind
        /\ a.pick = q.pick /\ a.job = q.job /\ Listens(a, q) /\ ~OkComplete(a)
    BY <1>1, <1>2, MovedIs
  <2>4. req' = [req EXCEPT ![r] = a] /\ upload' = [upload EXCEPT ![id] = w]
        /\ tomb' = [tomb EXCEPT ![id] = tomb[id]]
    BY <1>1, <1>2, <1>4 DEF UploadInv, StateTyped
  <2> HIDE DEF a, w
  <2>5. Sound(w, tomb[id], row)
    BY <1>2, <1>4, <2>1, <2>2, Constants DEF Sound, KnownActive
  <2>6. Holds(a, w) /\ Agrees(a, w, row)
    BY <2>2, <2>3 DEF Holds, Agrees, Cancelling
  <2>7. req' \in [Slots -> ReqType] /\ req'[r] = a /\ \A s \in Slots \ {r} : req'[s] = req[s]
    BY <2>3, <2>4 DEF UploadInv, StateTyped
  <2>8. \A s \in Slots : FitsRequest(s, id, w)
    <3> TAKE s \in Slots
    <3>1. CASE s = r
      BY <1>1, <1>2, <2>3, <2>6, <2>7, <3>1 DEF FitsRequest
    <3>2. CASE s # r
      <4>1. req[s].id = id => req[s].at # "write"
        BY <1>4 DEF Writing
      <4>2. req[s].id = id =>
              /\ Holds(req[s], u) => Holds(req[s], w)
              /\ Agrees(req[s], u, row) => Agrees(req[s], w, row)
        BY <2>2, <4>1 DEF Holds, Agrees, Finished
      <4>3. QED
        BY <1>1, <1>2, <2>7, <3>2, <4>2, SameFits
    <3>3. QED
      BY <3>1, <3>2
  <2>9. blurred' \/ FitsRest(id, w)
    <3>1. w.clean = "no" \/ blurred
      BY <1>4, <2>1, <2>2 DEF Clears
    <3>2. u.job # 0 => w.sha = u.sha
      BY <1>4, <2>1, <2>2 DEF Sound
    <3>3. QED
      BY <1>1, <1>2, <2>2, <3>1, <3>2, RestFits
  <2>10. blurred' \in BOOLEAN
    BY <1>1 DEF UploadInv, StateTyped
  <2>11. QED
    BY <1>1, <1>2, <2>1, <2>2, <2>4, <2>5, <2>7, <2>8, <2>9, <2>10, OneUploadKeeps
<1>5. QED
  BY <1>3, <1>4 DEF CompleteArrive

\* Everybody who awaits the finalisation of upload id is answered.
LEMMA JoinedFits ==
    ASSUME UploadInv, NEW id \in Ids, NEW w, NEW out \in {"ok", "refused", "failed"},
           NEW n \in Nat, req' = Joined(id, out, n), n <= Len(row'), Len(row') \in Nat,
           blurred => blurred',
           blurred' \/ out # "ok" \/ Claim(n, id, upload[id].sha, row', jobs', dest'),
           \A s \in Slots : req[s].at \notin {"free", "join"} /\ req[s].id = id =>
               /\ req[s].job <= Len(row') /\ Holds(req[s], w)
               /\ blurred' \/ /\ Agrees(req[s], w, row')
                              /\ OkComplete(req[s]) =>
                                    Claim(req[s].job, id, req[s].pick, row', jobs', dest')
    PROVE  req' \in [Slots -> ReqType] /\ \A s \in Slots : FitsRequest(s, id, w)
<1> SUFFICES ASSUME NEW s \in Slots
             PROVE  req'[s] \in ReqType /\ FitsRequest(s, id, w)
  BY DEF Joined
<1>1. req[s] \in ReqType
  BY DEF UploadInv, StateTyped
<1>2. CASE req[s].at = "join" /\ req[s].id = id
  <2> DEFINE q == req[s]  b == [q EXCEPT !.job = n]  a == Answered(b, out)
  <2>1. Shape(q) /\ (blurred \/ upload[id].sha = q.pick)
    BY <1>2, OfRequest DEF Agrees
  <2>2. /\ b \in ReqType /\ b.at = "join" /\ b.id = id /\ b.kind = q.kind /\ b.chunk = q.chunk
        /\ b.pick = q.pick /\ b.job = n /\ b.live = q.live
    BY <1>1, <1>2 DEF ReqType
  <2>3. req'[s] = a
    BY <1>2 DEF Joined
  <2> HIDE DEF q, b
  <2>4. Shape(b)
    BY <1>2, <2>1, <2>2 DEF Shape, q
  <2>5. /\ a \in ReqType /\ Shape(a) /\ a.job <= b.job
        /\ \/ a = NoReq
           \/ /\ a.at = "replied" /\ a.out = out /\ a.live /\ b.live
              /\ a.kind = b.kind /\ a.id = b.id /\ a.pick = b.pick /\ a.job = b.job
    BY <2>2, <2>4, AnsweredIs
  <2> HIDE DEF a
  <2>6. CASE a = NoReq
    BY <2>3, <2>5, <2>6 DEF FitsRequest
  <2>7. CASE /\ a.at = "replied" /\ a.out = out /\ a.live /\ b.live
             /\ a.kind = b.kind /\ a.id = b.id /\ a.pick = b.pick /\ a.job = b.job
    <3>1. Holds(a, w) /\ Agrees(a, w, row') /\ a.job <= Len(row') /\ a.id = id
      BY <2>2, <2>7 DEF Holds, Agrees, Cancelling
    <3>2. Listens(a, q)
      BY <1>2, <2>2, <2>7 DEF Listens, q
    <3>3. blurred' \/ (OkComplete(a) => Claim(a.job, id, a.pick, row', jobs', dest'))
      BY <2>1, <2>2, <2>7 DEF OkComplete
    <3>4. QED
      BY <2>3, <2>5, <3>1, <3>2, <3>3 DEF FitsRequest, q
  <2>8. QED
    BY <2>3, <2>5, <2>6, <2>7
<1>3. CASE ~(req[s].at = "join" /\ req[s].id = id)
  <2>1. req'[s] = req[s]
    BY <1>3 DEF Joined
  <2>2. req[s].at # "free" => Shape(req[s])
    BY OfRequest
  <2>3. QED
    BY <1>1, <1>3, <2>1, <2>2 DEF FitsRequest, Listens
<1>4. QED
  BY <1>2, <1>3

LEMMA RejectKeeps ==
    ASSUME UploadInv, UNCHANGED <<client, tomb, worker, disk, blurred>>,
           Mishap \/ UNCHANGED mishaps, NEW id \in Ids, upload[id].fin # "no",
           NEW out \in {"refused", "failed"}, FinReject(id, out)
    PROVE  UploadInv'
<1> DEFINE u == upload[id]  x == IF u.job = 0 THEN 0 ELSE u.sha
           w == [u EXCEPT !.fin = "no", !.sha = x]
<1>1. /\ row' = row /\ jobs' = jobs /\ dest' = dest /\ part' = part /\ Len(row) \in Nat
      /\ req' = Joined(id, out, 0) /\ blurred' = blurred /\ blurred \in BOOLEAN
      /\ UNCHANGED <<client, worker, disk>>
  BY DEF worker, disk, UploadInv, StateTyped, FinReject
<1>2. u \in UploadType /\ tomb[id] \in BOOLEAN /\ Sound(u, tomb[id], row)
  BY OfUpload
<1>3. /\ w \in UploadType /\ w.known = u.known /\ w.cancelled = u.cancelled
      /\ w.job = u.job /\ w.clean = u.clean /\ w.cleanJob = u.cleanJob
      /\ w.sha = x /\ w.fin = "no"
  <2>1. x \in Picks \cup {0}
    BY <1>2 DEF UploadType
  <2> HIDE DEF x
  <2>2. QED
    BY <1>2, <2>1 DEF UploadType
<1>4. upload' = [upload EXCEPT ![id] = w] /\ tomb' = [tomb EXCEPT ![id] = tomb[id]]
  BY DEF FinReject, UploadInv, StateTyped
<1> HIDE DEF w
<1>5. Sound(w, tomb[id], row)
  BY <1>2, <1>3 DEF Sound, KnownActive
<1>6. req' \in [Slots -> ReqType] /\ \A s \in Slots : FitsRequest(s, id, w)
  <2>1. \A s \in Slots : req[s].at \notin {"free", "join"} /\ req[s].id = id =>
            /\ req[s].job <= Len(row') /\ Holds(req[s], w)
            /\ blurred' \/ /\ Agrees(req[s], w, row')
                           /\ OkComplete(req[s]) =>
                                 Claim(req[s].job, id, req[s].pick, row', jobs', dest')
    <3> SUFFICES ASSUME NEW s \in Slots, req[s].at \notin {"free", "join"}, req[s].id = id
                 PROVE  /\ req[s].job <= Len(row') /\ Holds(req[s], w)
                        /\ blurred' \/ /\ Agrees(req[s], w, row')
                                       /\ OkComplete(req[s]) =>
                                           Claim(req[s].job, id, req[s].pick, row', jobs', dest')
      OBVIOUS
    <3>1. /\ req[s].job <= Len(row) /\ Holds(req[s], u)
          /\ \/ blurred
             \/ /\ Agrees(req[s], u, row)
                /\ OkComplete(req[s]) => Claim(req[s].job, id, req[s].pick, row, jobs, dest)
      BY OfRequest
    <3>2. Holds(req[s], w)
      BY <1>3, <3>1 DEF Holds, FinalizationStarted
    <3>3. Agrees(req[s], u, row) => Agrees(req[s], w, row)
      BY <1>3 DEF Agrees, Finished
    <3>4. QED
      BY <1>1, <3>1, <3>2, <3>3
  <2>2. 0 \in Nat /\ 0 <= Len(row')
    BY <1>1
  <2>3. req' = Joined(id, out, 0) /\ (blurred => blurred') /\ Len(row') \in Nat
    BY <1>1
  <2>4. QED
    BY <2>1, <2>2, <2>3, JoinedFits
<1>7. blurred' \/ FitsRest(id, w)
  <2>1. w.clean # "no" => w.cancelled \/ blurred
    BY <1>3, OfUpload DEF Clears
  <2>2. w.job # 0 => w.sha = u.sha
    BY <1>3
  <2>3. QED
    BY <1>1, <1>3, <2>1, <2>2, RestFits
<1>8. w \in UploadType /\ blurred' \in BOOLEAN /\ (blurred => blurred')
  BY <1>1, <1>3
<1>9. QED
  BY <1>1, <1>2, <1>4, <1>5, <1>6, <1>7, <1>8, OneUploadKeeps

LEMMA FinCheckKeeps ==
    ASSUME UploadInv, NEW id \in Ids, FinCheck(id)
    PROVE  UploadInv'
<1> DEFINE u == upload[id]
<1>1. /\ u.fin = "check" /\ UNCHANGED <<client, tomb, worker, disk, blurred>>
      /\ UNCHANGED <<client, worker, disk>> /\ UNCHANGED mishaps
      /\ row' = row /\ jobs' = jobs /\ dest' = dest /\ part' = part
      /\ Len(row) \in Nat /\ blurred' \in BOOLEAN /\ (blurred => blurred')
  BY DEF FinCheck, worker, disk, UploadInv, StateTyped
<1>2. /\ u \in UploadType /\ tomb[id] \in BOOLEAN /\ Sound(u, tomb[id], row)
      /\ \/ blurred
         \/ /\ Clears(id, u, row, jobs, part[id])
            /\ u.job # 0 => Claim(u.job, id, u.sha, row, jobs, dest)
            /\ part[id].there => u.known \/ \E i \in 1 .. Len(jobs) : jobs[i].id = id
            /\ \A i \in 1 .. Len(jobs) : jobs[i].id = id =>
                  /\ row[jobs[i].n] = "pending"
                  /\ jobs[i].kind = "finalize" => u.job = jobs[i].n
  BY OfUpload
<1>3. ~u.cancelled /\ u.sha # 0 /\ u.job \in Nat /\ u.job <= Len(row) /\ u.known
  BY <1>1, <1>2 DEF Sound, KnownActive, UploadType
<1>4. CASE FinReject(id, "refused")
  BY <1>1, <1>4, RejectKeeps
<1>5. CASE /\ u.job # 0 /\ upload' = [upload EXCEPT ![id].fin = "no"]
           /\ req' = Joined(id, "ok", u.job)
  <2> DEFINE w == [u EXCEPT !.fin = "no"]
  <2>1. /\ w \in UploadType /\ w.known = u.known /\ w.cancelled = u.cancelled
        /\ w.job = u.job /\ w.clean = u.clean /\ w.cleanJob = u.cleanJob
        /\ w.sha = u.sha /\ w.fin = "no"
    BY <1>2 DEF UploadType
  <2>2. upload' = [upload EXCEPT ![id] = w] /\ tomb' = [tomb EXCEPT ![id] = tomb[id]]
    BY <1>1, <1>5 DEF UploadInv, StateTyped
  <2> HIDE DEF w
  <2>3. Sound(w, tomb[id], row)
    BY <1>2, <1>3, <1>5, <2>1 DEF Sound, KnownActive
  <2>4. req' \in [Slots -> ReqType] /\ \A s \in Slots : FitsRequest(s, id, w)
    <3>1. \A s \in Slots : req[s].at \notin {"free", "join"} /\ req[s].id = id =>
            /\ req[s].job <= Len(row') /\ Holds(req[s], w)
            /\ blurred' \/ /\ Agrees(req[s], w, row')
                           /\ OkComplete(req[s]) =>
                                 Claim(req[s].job, id, req[s].pick, row', jobs', dest')
      <4> SUFFICES ASSUME NEW s \in Slots, req[s].at \notin {"free", "join"}, req[s].id = id
                   PROVE  /\ req[s].job <= Len(row') /\ Holds(req[s], w)
                          /\ blurred' \/ /\ Agrees(req[s], w, row')
                                         /\ OkComplete(req[s]) =>
                                           Claim(req[s].job, id, req[s].pick, row', jobs', dest')
        OBVIOUS
      <4>1. /\ req[s].job <= Len(row) /\ Holds(req[s], u)
            /\ \/ blurred
               \/ /\ Agrees(req[s], u, row)
                  /\ OkComplete(req[s]) => Claim(req[s].job, id, req[s].pick, row, jobs, dest)
        BY OfRequest
      <4>2. Holds(req[s], w)
        BY <1>1, <2>1, <4>1 DEF Holds, FinalizationStarted
      <4>3. Agrees(req[s], u, row) => Agrees(req[s], w, row)
        BY <2>1 DEF Agrees, Finished
      <4>4. QED
        BY <1>1, <4>1, <4>2, <4>3
    <3>2. /\ u.job \in Nat /\ u.job <= Len(row') /\ Len(row') \in Nat
          /\ blurred' \/ Claim(u.job, id, u.sha, row', jobs', dest')
      BY <1>1, <1>2, <1>3, <1>5
    <3>3. QED
      BY <1>1, <1>5, <3>1, <3>2, JoinedFits
  <2>5. blurred' \/ FitsRest(id, w)
    <3>1. w.clean # "no" => blurred
      BY <1>2, <1>3, <2>1 DEF Clears
    <3>2. QED
      BY <1>1, <2>1, <3>1, RestFits
  <2>6. QED
    BY <1>1, <1>2, <2>1, <2>2, <2>3, <2>4, <2>5, OneUploadKeeps
<1>6. CASE /\ u.job = 0 \/ row[u.job] \in {"failed", "checksum"}
           /\ upload' = [upload EXCEPT ![id].fin = "publish", ![id].job = 0]
           /\ req' = req
  <2> DEFINE w == [u EXCEPT !.fin = "publish", !.job = 0]
  <2>1. /\ w \in UploadType /\ w.known = u.known /\ w.cancelled = u.cancelled
        /\ w.job = 0 /\ w.clean = u.clean /\ w.cleanJob = u.cleanJob
        /\ w.sha = u.sha /\ w.fin = "publish"
    BY <1>2 DEF UploadType
  <2>2. upload' = [upload EXCEPT ![id] = w] /\ tomb' = [tomb EXCEPT ![id] = tomb[id]]
    BY <1>1, <1>6 DEF UploadInv, StateTyped
  <2> HIDE DEF w
  <2>3. Sound(w, tomb[id], row)
    BY <1>2, <1>3, <2>1 DEF Sound, KnownActive
  <2>4. req' \in [Slots -> ReqType] /\ \A s \in Slots : FitsRequest(s, id, w)
    <3>1. req' \in [Slots -> ReqType]
      BY <1>6 DEF UploadInv, StateTyped
    <3>2. \A s \in Slots : FitsRequest(s, id, w)
      <4> TAKE s \in Slots
      <4>1. /\ Holds(req[s], u) => Holds(req[s], w)
            /\ Agrees(req[s], u, row) => Agrees(req[s], w, row)
        BY <1>1, <1>3, <2>1 DEF Holds, Agrees, Finished, FinalizationStarted, Cancelling
      <4>2. QED
        BY <1>1, <1>6, <4>1, SameFits
    <3>3. QED
      BY <3>1, <3>2
  <2>5. blurred' \/ FitsRest(id, w)
    <3> SUFFICES ASSUME ~blurred'
                 PROVE  FitsRest(id, w)
      OBVIOUS
    <3>1. Clears(id, w, row', jobs', part'[id])
      BY <1>1, <1>2, <1>3, <2>1 DEF Clears
    <3>2. \A i \in 1 .. Len(jobs) : jobs[i].id = id =>
             row[jobs[i].n] = "pending" /\ jobs[i].kind # "finalize"
      <4>1. \A i \in 1 .. Len(jobs) : jobs[i].n \in 1 .. Len(row)
        BY DEF UploadInv, LaneSound
      <4>2. QED
        BY <1>1, <1>2, <1>6, <4>1
    <3>3. QED
      BY <1>1, <1>2, <1>3, <2>1, <3>1, <3>2 DEF FitsRest
  <2>6. QED
    BY <1>1, <1>2, <2>1, <2>2, <2>3, <2>4, <2>5, OneUploadKeeps
<1>7. QED
  BY <1>4, <1>5, <1>6 DEF FinCheck

LEMMA FinRefusedKeeps ==
    ASSUME UploadInv, NEW id \in Ids, FinRefused(id)
    PROVE  UploadInv'
BY RejectKeeps DEF FinRefused

----------------------------------------------------------------------------
(* The steps that put a job into the lane *)

LEMMA PublishedIs ==
    ASSUME UploadInv, NEW id \in Ids, NEW kind \in {"finalize", "delete"},
           NEW pick \in Picks \cup {0}, kind = "finalize" => pick \in Picks,
           Published(kind, id, pick), UNCHANGED <<hashed, disk>>
    PROVE  /\ LaneTyped' /\ LaneSound'
           /\ Len(row) \in Nat /\ Len(row') = Len(row) + 1 /\ row'[Len(row) + 1] = "pending"
           /\ \A n \in 1 .. Len(row) : row'[n] = row[n]
           /\ Len(jobs) \in Nat /\ Len(jobs') = Len(jobs) + 1
           /\ \A i \in 1 .. Len(jobs) : jobs'[i] = jobs[i]
           /\ LET j == jobs'[Len(jobs) + 1] IN
              j.n = Len(row) + 1 /\ j.kind = kind /\ j.id = id /\ j.pick = pick
           /\ part' = part /\ dest' = dest /\ late' = late
<1> DEFINE j == [n |-> Len(row) + 1, kind |-> kind, id |-> id, pick |-> pick]
<1>1. /\ row' = Append(row, "pending") /\ jobs' = Append(jobs, j)
      /\ part' = part /\ dest' = dest /\ late' = late /\ hashed' = hashed
  BY DEF Published, disk
<1>2. /\ LaneTyped /\ LaneSound /\ jobs \in Seq(JobType) /\ row \in Seq(Statuses)
      /\ Len(row) \in Nat /\ Len(jobs) \in Nat
  BY DEF UploadInv, StateTyped, LaneTyped
<1>3. j \in JobType /\ j.n = Len(row) + 1 /\ j.kind = kind /\ j.id = id /\ j.pick = pick
  BY <1>2 DEF JobType
<1> HIDE DEF j
<1>4. /\ row' \in Seq(Statuses) /\ Len(row') = Len(row) + 1 /\ row'[Len(row) + 1] = "pending"
      /\ \A n \in 1 .. Len(row) : row'[n] = row[n]
  BY <1>1, <1>2 DEF Statuses
<1>5. /\ jobs' \in Seq(JobType) /\ Len(jobs') = Len(jobs) + 1 /\ jobs'[Len(jobs) + 1] = j
      /\ \A i \in 1 .. Len(jobs) : jobs'[i] = jobs[i]
  BY <1>1, <1>2, <1>3
<1>6. LaneTyped'
  BY <1>1, <1>2, <1>4, <1>5 DEF LaneTyped
<1>7. LaneSound'
  <2>1. \A i \in 1 .. Len(jobs') :
            /\ jobs'[i].n \in 1 .. Len(row')
            /\ jobs'[i].kind = "finalize" => jobs'[i].pick \in Picks
    BY <1>2, <1>3, <1>4, <1>5 DEF LaneSound
  <2>2. \A i, k \in 1 .. Len(jobs') : jobs'[i].n = jobs'[k].n => i = k
    <3>1. \A i \in 1 .. Len(jobs) : jobs'[i].n = jobs[i].n /\ jobs[i].n \in 1 .. Len(row)
      BY <1>2, <1>5 DEF LaneSound
    <3>2. jobs'[Len(jobs) + 1].n = Len(row) + 1
      BY <1>3, <1>5
    <3>3. \A i, k \in 1 .. Len(jobs) : jobs[i].n = jobs[k].n => i = k
      BY <1>2 DEF LaneSound
    <3>4. \A i \in 1 .. Len(jobs') : i \in 1 .. Len(jobs) \/ i = Len(jobs) + 1
      BY <1>2, <1>5
    <3> TAKE i, k \in 1 .. Len(jobs')
    <3>5. CASE i \in 1 .. Len(jobs) /\ k \in 1 .. Len(jobs)
      BY <3>1, <3>3, <3>5
    <3>6. CASE ~(i \in 1 .. Len(jobs) /\ k \in 1 .. Len(jobs))
      BY <1>2, <3>1, <3>2, <3>4, <3>6
    <3>7. QED
      BY <3>5, <3>6
  <2>3. hashed => jobs' # <<>> /\ Head(jobs') = Head(jobs) /\ Head(jobs).kind = "finalize"
    BY <1>1, <1>2, <1>5 DEF LaneSound
  <2>4. QED
    BY <1>1, <2>1, <2>2, <2>3 DEF LaneSound
<1>8. QED
  BY <1>1, <1>2, <1>3, <1>4, <1>5, <1>6, <1>7

\* A job more in the lane changes nothing that was said of the earlier ones.
LEMMA PublishedKeeps ==
    ASSUME UploadInv, NEW id \in Ids, NEW kind \in {"finalize", "delete"},
           NEW pick \in Picks \cup {0}, kind = "finalize" => pick \in Picks,
           Published(kind, id, pick), UNCHANGED <<hashed, disk>>
    PROVE  /\ \A n \in Nat, o \in Ids, p \in Picks :
                 Claim(n, o, p, row, jobs, dest) => Claim(n, o, p, row', jobs', dest')
           /\ \A o \in Ids : Clears(o, upload[o], row, jobs, part[o]) =>
                 Clears(o, upload[o], row', jobs', part'[o])
           /\ kind = "finalize" => Claim(Len(row) + 1, id, pick, row', jobs', dest')
           /\ \A i \in 1 .. Len(jobs) : InLane(jobs[i], upload, row) =>
                 InLane(jobs'[i], upload, row')
           /\ ~blurred => OthersStay(id)
<1> DEFINE j == jobs'[Len(jobs) + 1]
<1>1. /\ Len(row) \in Nat /\ Len(row') = Len(row) + 1 /\ row'[Len(row) + 1] = "pending"
      /\ \A n \in 1 .. Len(row) : row'[n] = row[n]
      /\ Len(jobs) \in Nat /\ Len(jobs') = Len(jobs) + 1
      /\ \A i \in 1 .. Len(jobs) : jobs'[i] = jobs[i]
      /\ j.n = Len(row) + 1 /\ j.kind = kind /\ j.id = id /\ j.pick = pick
      /\ part' = part /\ dest' = dest /\ late' = late
  BY PublishedIs
<1>2. LaneSound /\ UploadsSound /\ StateTyped /\ (blurred \/ Firm)
  BY DEF UploadInv
<1>3. \A i \in 1 .. Len(jobs) : jobs[i].n \in 1 .. Len(row)
  BY <1>2 DEF LaneSound
<1> HIDE DEF j
<1>4. \A i \in 1 .. Len(jobs') : (i \in 1 .. Len(jobs) /\ jobs'[i] = jobs[i]) \/ jobs'[i] = j
  BY <1>1 DEF j
<1>5. \A n \in Nat, o \in Ids, p \in Picks :
          Claim(n, o, p, row, jobs, dest) => Claim(n, o, p, row', jobs', dest')
  BY <1>1, <1>4 DEF Claim
<1>6. \A o \in Ids : Clears(o, upload[o], row, jobs, part[o]) =>
                         Clears(o, upload[o], row', jobs', part'[o])
  <2> TAKE o \in Ids
  <2>1. /\ upload[o].job \in Nat /\ upload[o].job <= Len(row) /\ upload[o].cleanJob \in Nat
        /\ upload[o].cleanJob <= Len(row) /\ (upload[o].clean = "wait" => upload[o].cleanJob # 0)
    BY <1>2 DEF StateTyped, UploadType, UploadsSound, Sound
  <2>2. Finished(upload[o], row) => Finished(upload[o], row')
    BY <1>1, <2>1 DEF Finished
  <2>3. SUFFICES ASSUME Clears(o, upload[o], row, jobs, part[o])
                 PROVE  Clears(o, upload[o], row', jobs', part'[o])
    OBVIOUS
  <2>4. ASSUME upload[o].clean = "wait"
        PROVE  /\ \A i \in 1 .. Len(jobs') : jobs'[i].n = upload[o].cleanJob =>
                      jobs'[i].kind = "delete" /\ jobs'[i].id = o
               /\ row'[upload[o].cleanJob] = "completed" => ~part'[o].there
    <3>1. upload[o].cleanJob \in 1 .. Len(row)
      BY <1>1, <2>1, <2>4
    <3>2. upload[o].cleanJob # j.n /\ row'[upload[o].cleanJob] = row[upload[o].cleanJob]
      BY <1>1, <3>1
    <3>3. QED
      BY <1>1, <1>4, <2>3, <2>4, <3>2 DEF Clears
  <2>5. QED
    BY <2>2, <2>3, <2>4 DEF Clears
<1>7. kind = "finalize" => Claim(Len(row) + 1, id, pick, row', jobs', dest')
  BY <1>1, <1>3, <1>4 DEF Claim
<1>8. \A i \in 1 .. Len(jobs) : InLane(jobs[i], upload, row) => InLane(jobs'[i], upload, row')
  BY <1>1, <1>3 DEF InLane
<1>9. ASSUME ~blurred
      PROVE  OthersStay(id)
  <2>1. Firm
    BY <1>2, <1>9
  <2>2. \A o \in Ids : (\E i \in 1 .. Len(jobs) : jobs[i].id = o) =>
                           \E i \in 1 .. Len(jobs') : jobs'[i].id = o
    <3> SUFFICES ASSUME NEW o \in Ids, NEW i \in 1 .. Len(jobs), jobs[i].id = o
                 PROVE  \E k \in 1 .. Len(jobs') : jobs'[k].id = o
      OBVIOUS
    <3>1. i \in 1 .. Len(jobs') /\ jobs'[i].id = o
      BY <1>1
    <3>2. QED
      BY <3>1
  <2>3. \A i \in 1 .. Len(jobs') : jobs'[i].id # id => InLane(jobs'[i], upload, row')
    BY <1>1, <1>4, <1>8, <2>1 DEF Firm, LaneAgrees
  <2>4. HashedIsWhole' /\ WholeFiles'
    <3>1. hashed' = hashed /\ (hashed => Head(jobs') = Head(jobs))
      <4>1. hashed => jobs # <<>> /\ jobs \in Seq(JobType) /\ jobs' \in Seq(JobType)
        BY <1>2, PublishedIs DEF LaneSound, StateTyped, LaneTyped
      <4>2. QED
        BY <1>1, <4>1
    <3>2. QED
      BY <1>1, <2>1, <3>1 DEF Firm, HashedIsWhole, WholeFiles
  <2>5. late' = {}
    BY <1>1, <2>1 DEF Firm
  <2>6. QED
    BY <1>1, <1>5, <1>6, <2>2, <2>3, <2>4, <2>5 DEF OthersStay
<1>10. QED
  BY <1>5, <1>6, <1>7, <1>8, <1>9

LEMMA FinPublishKeeps ==
    ASSUME UploadInv, NEW id \in Ids, FinPublish(id)
    PROVE  UploadInv'
<1> DEFINE u == upload[id]  n == Len(row) + 1  w == [u EXCEPT !.fin = "no", !.job = n]
<1>1. /\ u.fin = "publish" /\ Published("finalize", id, u.sha)
      /\ upload' = [upload EXCEPT ![id].fin = "no", ![id].job = n]
      /\ req' = Joined(id, "ok", n) /\ UNCHANGED <<hashed, disk>>
      /\ UNCHANGED client /\ tomb' = tomb /\ blurred' = blurred /\ mishaps' = mishaps
  BY DEF FinPublish
<1>2. /\ u \in UploadType /\ tomb[id] \in BOOLEAN /\ Sound(u, tomb[id], row)
      /\ \/ blurred
         \/ /\ Clears(id, u, row, jobs, part[id])
            /\ part[id].there => u.known \/ \E i \in 1 .. Len(jobs) : jobs[i].id = id
            /\ \A i \in 1 .. Len(jobs) : jobs[i].id = id =>
                  /\ row[jobs[i].n] = "pending"
                  /\ jobs[i].kind = "finalize" => u.job = jobs[i].n
  BY OfUpload
<1>3. ~u.cancelled /\ u.sha # 0 /\ u.sha \in Picks /\ u.job = 0 /\ u.known
  BY <1>1, <1>2 DEF Sound, KnownActive, UploadType
<1>4. /\ LaneTyped' /\ LaneSound'
      /\ Len(row) \in Nat /\ Len(row') = n /\ row'[n] = "pending"
      /\ \A k \in 1 .. Len(row) : row'[k] = row[k]
      /\ Len(jobs) \in Nat /\ Len(jobs') = Len(jobs) + 1
      /\ \A i \in 1 .. Len(jobs) : jobs'[i] = jobs[i]
      /\ jobs'[Len(jobs) + 1].n = n /\ jobs'[Len(jobs) + 1].id = id
      /\ part' = part
  BY <1>1, <1>3, PublishedIs
<1>5. /\ \A k \in Nat, o \in Ids, p \in Picks :
            Claim(k, o, p, row, jobs, dest) => Claim(k, o, p, row', jobs', dest')
      /\ Claim(n, id, u.sha, row', jobs', dest')
      /\ ~blurred => OthersStay(id)
  BY <1>1, <1>3, PublishedKeeps
<1>6. /\ w \in UploadType /\ w.known = u.known /\ w.cancelled = u.cancelled
      /\ w.job = n /\ w.clean = u.clean /\ w.cleanJob = u.cleanJob
      /\ w.sha = u.sha /\ w.fin = "no" /\ n \in Nat \ {0} /\ u.cleanJob \in Nat
  <2>1. n \in Nat \ {0}
    BY <1>4
  <2> HIDE DEF n
  <2>2. QED
    BY <1>2, <2>1 DEF UploadType
<1>7. upload' = [upload EXCEPT ![id] = w] /\ tomb' = [tomb EXCEPT ![id] = tomb[id]]
  BY <1>1 DEF UploadInv, StateTyped
<1> HIDE DEF w, n
<1>8. Sound(w, tomb[id], row')
  BY <1>2, <1>3, <1>4, <1>6 DEF Sound, KnownActive, n
<1>9. req' \in [Slots -> ReqType] /\ \A s \in Slots : FitsRequest(s, id, w)
  <2>1. \A s \in Slots : req[s].at \notin {"free", "join"} /\ req[s].id = id =>
            /\ req[s].job <= Len(row') /\ Holds(req[s], w)
            /\ blurred' \/ /\ Agrees(req[s], w, row')
                           /\ OkComplete(req[s]) =>
                                 Claim(req[s].job, id, req[s].pick, row', jobs', dest')
    <3> SUFFICES ASSUME NEW s \in Slots, req[s].at \notin {"free", "join"}, req[s].id = id
                 PROVE  /\ req[s].job <= Len(row') /\ Holds(req[s], w)
                        /\ blurred' \/ /\ Agrees(req[s], w, row')
                                       /\ OkComplete(req[s]) =>
                                           Claim(req[s].job, id, req[s].pick, row', jobs', dest')
      OBVIOUS
    <3>1. /\ req[s].job <= Len(row) /\ req[s].job \in Nat /\ Holds(req[s], u) /\ Shape(req[s])
          /\ \/ blurred
             \/ /\ Agrees(req[s], u, row)
                /\ OkComplete(req[s]) => Claim(req[s].job, id, req[s].pick, row, jobs, dest)
          /\ req[s].pick \in Picks \cup {0}
      BY OfRequest DEF ReqType
    <3>2. req[s].at # "write" /\ (blurred \/ ~Cancelling(req[s]))
      BY <1>1, <1>3, <3>1 DEF Holds, FinalizationStarted, Agrees
    <3>3. Holds(req[s], w) /\ (blurred \/ Agrees(req[s], w, row'))
      BY <1>6, <3>1, <3>2 DEF Holds, Agrees, Cancelling
    <3>4. OkComplete(req[s]) => req[s].pick \in Picks
      BY <3>1 DEF OkComplete, Shape
    <3>5. req[s].job <= Len(row')
      BY <1>4, <3>1 DEF n
    <3>6. QED
      BY <1>1, <1>5, <3>1, <3>3, <3>4, <3>5
  <2>2. n <= Len(row') /\ Len(row') \in Nat /\ (blurred => blurred')
    BY <1>1, <1>4, <1>6
  <2>3. QED
    BY <1>1, <1>5, <1>6, <2>1, <2>2, JoinedFits
<1>10. ASSUME ~blurred'
       PROVE  FitsRest(id, w) /\ OthersStay(id)
  <2>1. Clears(id, w, row', jobs', part'[id])
    BY <1>1, <1>2, <1>3, <1>6, <1>10 DEF Clears
  <2>2. \A i \in 1 .. Len(jobs') : jobs'[i].id = id =>
            row'[jobs'[i].n] = "pending" /\ (jobs'[i].kind = "finalize" => n = jobs'[i].n)
    <3> TAKE i \in 1 .. Len(jobs')
    <3>1. CASE i \in 1 .. Len(jobs)
      <4>1. jobs[i].n \in 1 .. Len(row)
        BY <3>1 DEF UploadInv, LaneSound
      <4>2. QED
        BY <1>1, <1>2, <1>3, <1>4, <1>10, <3>1, <4>1
    <3>2. CASE i = Len(jobs) + 1
      BY <1>4, <3>2
    <3>3. QED
      BY <1>4, <3>1, <3>2
  <2>3. QED
    BY <1>1, <1>3, <1>5, <1>6, <1>10, <2>1, <2>2 DEF FitsRest
<1>11. Len(row) <= Len(row') /\ blurred' \in BOOLEAN /\ (blurred => blurred')
  BY <1>1, <1>4, <1>6 DEF UploadInv, StateTyped, n
<1>12. QED
  BY <1>1, <1>2, <1>4, <1>6, <1>7, <1>8, <1>9, <1>10, <1>11, StepKeeps

LEMMA FinPublishFailsKeeps ==
    ASSUME UploadInv, NEW id \in Ids, FinPublishFails(id)
    PROVE  UploadInv'
<1> DEFINE u == upload[id]
<1>1. /\ u.fin = "publish" /\ Mishap /\ FinReject(id, "failed") /\ tomb' = tomb
      /\ UNCHANGED client /\ UNCHANGED <<hashed, disk>>
      /\ UNCHANGED <<client, tomb, hashed, disk>>
  BY DEF FinPublishFails
<1>2. CASE UNCHANGED <<jobs, row, blurred>>
  <2>1. UNCHANGED <<client, tomb, worker, disk, blurred>>
    BY <1>1, <1>2 DEF worker
  <2>2. QED
    BY <1>1, <2>1, RejectKeeps
<1>3. CASE Published("finalize", id, u.sha) /\ blurred' = TRUE
  <2> DEFINE x == IF u.job = 0 THEN 0 ELSE u.sha  w == [u EXCEPT !.fin = "no", !.sha = x]
  <2>1. u \in UploadType /\ tomb[id] \in BOOLEAN /\ Sound(u, tomb[id], row)
    BY OfUpload
  <2>2. u.sha \in Picks /\ u.sha # 0 /\ u.job = 0
    BY <1>1, <2>1 DEF Sound, UploadType
  <2>3. LaneTyped' /\ LaneSound' /\ Len(row) \in Nat /\ Len(row') = Len(row) + 1
    BY <1>1, <1>3, <2>2, PublishedIs
  <2>4. /\ w \in UploadType /\ w.known = u.known /\ w.cancelled = u.cancelled
        /\ w.job = 0 /\ w.clean = u.clean /\ w.cleanJob = u.cleanJob
        /\ w.sha = 0 /\ w.fin = "no" /\ u.cleanJob \in Nat
    BY <2>1, <2>2 DEF UploadType
  <2>5. /\ upload' = [upload EXCEPT ![id] = w] /\ tomb' = [tomb EXCEPT ![id] = tomb[id]]
        /\ req' = Joined(id, "failed", 0)
    BY <1>1 DEF FinReject, UploadInv, StateTyped
  <2> HIDE DEF w, x
  <2>6. Sound(w, tomb[id], row')
    BY <2>1, <2>3, <2>4 DEF Sound, KnownActive
  <2>7. \A s \in Slots : req[s].at \notin {"free", "join"} /\ req[s].id = id =>
            req[s].job <= Len(row') /\ Holds(req[s], w)
    <3> SUFFICES ASSUME NEW s \in Slots, req[s].at \notin {"free", "join"}, req[s].id = id
                 PROVE  req[s].job <= Len(row') /\ Holds(req[s], w)
      OBVIOUS
    <3>1. req[s].job <= Len(row) /\ req[s].job \in Nat /\ Holds(req[s], u)
      BY OfRequest
    <3>2. QED
      BY <2>3, <2>4, <3>1 DEF Holds, FinalizationStarted
  <2>8. 0 <= Len(row') /\ Len(row') \in Nat /\ Len(row) <= Len(row')
    BY <2>3
  <2>9. req' \in [Slots -> ReqType] /\ \A s \in Slots : FitsRequest(s, id, w)
    BY <1>3, <2>5, <2>7, <2>8, JoinedFits
  <2>10. QED
    BY <1>1, <1>3, <2>1, <2>3, <2>4, <2>5, <2>6, <2>8, <2>9, StepKeeps
<1>4. QED
  BY <1>1, <1>2, <1>3 DEF FinPublishFails

LEMMA NoUploadIs ==
    /\ NoUpload \in UploadType /\ ~NoUpload.known /\ NoUpload.sha = 0 /\ NoUpload.fin = "no"
    /\ NoUpload.job = 0 /\ NoUpload.cleanJob = 0 /\ ~NoUpload.cancelled
    /\ NoUpload.clean = "no"
    /\ \A t, rw : Len(rw) \in Nat => Sound(NoUpload, t, rw)
    /\ \A id, rw, js, pt : Clears(id, NoUpload, rw, js, pt)
<1>1. /\ NoUpload \in UploadType /\ ~NoUpload.known /\ NoUpload.sha = 0 /\ NoUpload.fin = "no"
      /\ NoUpload.job = 0 /\ NoUpload.cleanJob = 0 /\ ~NoUpload.cancelled
      /\ NoUpload.clean = "no"
  BY DEF NoUpload, UploadType
<1>2. QED
  BY <1>1 DEF Sound, Clears

LEMMA EvictStaleKeeps ==
    ASSUME UploadInv, NEW id \in Ids, EvictStale(id)
    PROVE  UploadInv'
<1>1. /\ \A r \in Slots : req[r].id # id
      /\ \A i \in DOMAIN jobs : jobs[i].id # id
      /\ upload' = [upload EXCEPT ![id] = NoUpload] /\ tomb' = [tomb EXCEPT ![id] = TRUE]
      /\ Published("delete", id, 0) /\ Mishap /\ UNCHANGED client /\ UNCHANGED <<hashed, disk>>
      /\ req' = req /\ blurred' = blurred
  BY DEF EvictStale
<1>2. /\ LaneTyped' /\ LaneSound'
      /\ Len(row) \in Nat /\ Len(row') = Len(row) + 1 /\ row'[Len(row) + 1] = "pending"
      /\ Len(jobs) \in Nat /\ Len(jobs') = Len(jobs) + 1
      /\ \A i \in 1 .. Len(jobs) : jobs'[i] = jobs[i]
      /\ LET j == jobs'[Len(jobs) + 1] IN
         j.n = Len(row) + 1 /\ j.kind = "delete" /\ j.id = id
  BY <1>1, PublishedIs
<1>3. blurred \/ OthersStay(id)
  BY <1>1, PublishedKeeps
<1>4. DOMAIN jobs = 1 .. Len(jobs) /\ blurred \in BOOLEAN /\ req \in [Slots -> ReqType]
  BY DEF UploadInv, StateTyped
<1>5. FitsRest(id, NoUpload)
  <2>1. \A i \in 1 .. Len(jobs') : jobs'[i].id = id =>
            row'[jobs'[i].n] = "pending" /\ jobs'[i].kind # "finalize"
    BY <1>1, <1>2, <1>4
  <2>2. \E i \in 1 .. Len(jobs') : jobs'[i].id = id
    <3>1. Len(jobs) + 1 \in 1 .. Len(jobs')
      BY <1>2
    <3>2. QED
      BY <1>2, <3>1
  <2>3. QED
    BY <2>1, <2>2, NoUploadIs DEF FitsRest
<1>6. \A s \in Slots : FitsRequest(s, id, NoUpload)
  BY <1>1 DEF FitsRequest
<1>7. Sound(NoUpload, TRUE, row') /\ NoUpload \in UploadType /\ Len(row) <= Len(row')
  BY <1>2, NoUploadIs DEF Sound
<1>8. QED
  BY <1>1, <1>2, <1>3, <1>4, <1>5, <1>6, <1>7, StepKeeps

LEMMA TombExpireKeeps ==
    ASSUME UploadInv, NEW id \in Ids, TombExpire(id)
    PROVE  UploadInv'
<1>1. /\ \A r \in Slots : req[r].id # id
      /\ tomb' = [tomb EXCEPT ![id] = FALSE] /\ req' = req /\ upload' = upload
      /\ UNCHANGED <<client, worker, disk>> /\ blurred' = blurred /\ mishaps' = mishaps
      /\ row' = row /\ jobs' = jobs /\ dest' = dest /\ part' = part
  BY DEF TombExpire, worker, disk
<1>2. /\ upload[id] \in UploadType /\ Sound(upload[id], tomb[id], row)
      /\ upload' = [upload EXCEPT ![id] = upload[id]]
      /\ blurred \in BOOLEAN /\ req \in [Slots -> ReqType]
  BY <1>1, OfUpload DEF UploadInv, StateTyped
<1>3. Sound(upload[id], FALSE, row)
  BY <1>2 DEF Sound
<1>4. \A s \in Slots : FitsRequest(s, id, upload[id])
  BY <1>1 DEF FitsRequest
<1>5. blurred' \/ FitsRest(id, upload[id])
  BY <1>1, OfUpload DEF FitsRest
<1>6. QED
  BY <1>1, <1>2, <1>3, <1>4, <1>5, OneUploadKeeps

----------------------------------------------------------------------------
(* Cancellations and the cleanup *)

\* Everybody who waits for the cleanup of upload id is answered.
LEMMA CleanedFits ==
    ASSUME UploadInv, NEW id \in Ids, NEW w, NEW out \in {"ok", "refused", "failed"},
           NEW gone, req' = Cleaned(id, out, gone), UNCHANGED <<row, jobs, dest>>,
           blurred => blurred',
           \A s \in Slots :
             /\ req[s].at \notin {"free", "clean"} /\ req[s].id = id
             /\ gone => req[s].at \notin {"look", "drain"}
             /\ ~(gone /\ req[s].at = "pre" /\ req[s].had)
             => /\ Holds(req[s], upload[id]) => Holds(req[s], w)
                /\ blurred' \/ (Agrees(req[s], upload[id], row) => Agrees(req[s], w, row))
    PROVE  req' \in [Slots -> ReqType] /\ \A s \in Slots : FitsRequest(s, id, w)
<1> SUFFICES ASSUME NEW s \in Slots
             PROVE  req'[s] \in ReqType /\ FitsRequest(s, id, w)
  BY DEF Cleaned
<1>1. req[s] \in ReqType
  BY DEF UploadInv, StateTyped
<1>2. ASSUME req[s].id = id, req[s].at # "free", NEW o \in {"ok", "refused", "failed"},
             o # "ok" \/ req[s].kind # "complete", req'[s] = Answered(req[s], o)
      PROVE  req'[s] \in ReqType /\ FitsRequest(s, id, w)
  BY <1>2, AnswerIs DEF FitsRequest
<1>3. CASE req[s].id = id /\ (req[s].at = "clean" \/ (gone /\ req[s].at \in {"look", "drain"}))
  <2>1. req'[s] = Answered(req[s], out)
    BY <1>3 DEF Cleaned
  <2>2. req[s].kind = "cancel"
    BY <1>3, OfRequest DEF Shape
  <2>3. QED
    BY <1>2, <1>3, <2>1, <2>2
<1>4. CASE /\ ~ /\ req[s].id = id
                /\ req[s].at = "clean" \/ (gone /\ req[s].at \in {"look", "drain"})
           /\ req[s].id = id /\ gone /\ req[s].at = "pre" /\ req[s].had
  <2>1. req'[s] = Answered(req[s], "refused")
    BY <1>4 DEF Cleaned
  <2>2. QED
    BY <1>2, <1>4, <2>1
<1>5. CASE /\ ~ /\ req[s].id = id
                /\ req[s].at = "clean" \/ (gone /\ req[s].at \in {"look", "drain"})
           /\ ~(req[s].id = id /\ gone /\ req[s].at = "pre" /\ req[s].had)
  <2>1. req'[s] = req[s]
    BY <1>5 DEF Cleaned
  <2>2. CASE req[s].at = "free" \/ req[s].id # id
    BY <1>1, <2>1, <2>2 DEF FitsRequest
  <2>3. CASE req[s].at # "free" /\ req[s].id = id
    BY <1>1, <1>5, <2>1, <2>3, OfRequest DEF FitsRequest, Listens
  <2>4. QED
    BY <2>2, <2>3
<1>6. QED
  BY <1>3, <1>4, <1>5

LEMMA CancelArriveKeeps ==
    ASSUME UploadInv, NEW r \in Slots, CancelArrive(r)
    PROVE  UploadInv'
<1> DEFINE q == req[r]  id == q.id  u == upload[id]
<1>1. /\ q.at = "new" /\ q.kind = "cancel"
      /\ UNCHANGED <<client, worker, disk>> /\ UNCHANGED mishaps
      /\ row' = row /\ jobs' = jobs /\ dest' = dest /\ part' = part
  BY DEF CancelArrive, worker, disk
<1>2. /\ q \in ReqType /\ id \in Ids /\ Shape(q) /\ q.job <= Len(row) /\ Len(row) \in Nat
  BY <1>1, OfRequest DEF Shape
<1>3. /\ u \in UploadType /\ tomb[id] \in BOOLEAN /\ Sound(u, tomb[id], row)
      /\ blurred \/ Clears(id, u, row, jobs, part[id])
  BY <1>2, OfUpload
<1>4. /\ upload \in [Ids -> UploadType] /\ blurred \in BOOLEAN /\ req \in [Slots -> ReqType]
  BY DEF UploadInv, StateTyped
<1>5. ASSUME NEW out \in {"ok", "refused"}, Answer(r, out)
      PROVE  /\ req' \in [Slots -> ReqType]
             /\ \A s \in Slots \ {r} : req'[s] = req[s]
             /\ \A w : (blurred => blurred') => FitsRequest(r, id, w)
  <2> DEFINE a == Answered(q, out)
  <2>1. /\ a \in ReqType
        /\ \/ a = NoReq
           \/ /\ a.id = req[r].id /\ Shape(a) /\ a.job <= Len(row) /\ ~OkComplete(a)
              /\ Listens(a, req[r]) /\ \A v : Holds(a, v)
              /\ \A v, rw : Agrees(a, v, rw)
    BY <1>1, AnswerIs
  <2>2. req' = [req EXCEPT ![r] = a]
    BY <1>4, <1>5 DEF Answer
  <2> HIDE DEF a
  <2>3. QED
    BY <1>1, <1>4, <2>1, <2>2 DEF FitsRequest
<1>6. CASE /\ ~u.known /\ tomb' = [tomb EXCEPT ![id] = TRUE]
           /\ Answer(r, "ok") /\ UNCHANGED <<upload, blurred>>
  <2>1. upload' = [upload EXCEPT ![id] = u] /\ Sound(u, TRUE, row)
    BY <1>3, <1>4, <1>6 DEF Sound
  <2>2. \A s \in Slots : FitsRequest(s, id, u)
    BY <1>5, <1>6 DEF FitsRequest
  <2>3. blurred' \/ FitsRest(id, u)
    BY <1>1, <1>2, <1>6, OfUpload DEF FitsRest
  <2>4. QED
    BY <1>1, <1>2, <1>3, <1>4, <1>5, <1>6, <2>1, <2>2, <2>3, OneUploadKeeps
<1>7. CASE u.known /\ KnownActive(u) /\ Unlock(r) /\ Answer(r, "refused")
  <2>1. ~u.cancelled
    BY <1>3, <1>7 DEF Sound
  <2>2. upload' = [upload EXCEPT ![id] = u]
    <3>1. [u EXCEPT !.cancelled = FALSE] = u
      BY <1>3, <2>1 DEF UploadType
    <3>2. upload' = [upload EXCEPT ![id] = [u EXCEPT !.cancelled = FALSE]]
      BY <1>2, <1>4, <1>7 DEF Unlock
    <3>3. QED
      BY <3>1, <3>2
  <2>3. tomb' = [tomb EXCEPT ![id] = FALSE] /\ blurred' \in BOOLEAN /\ (blurred => blurred')
    BY <1>4, <1>7 DEF Unlock
  <2>4. Sound(u, FALSE, row)
    BY <1>3 DEF Sound
  <2>5. \A s \in Slots : FitsRequest(s, id, u)
    BY <1>5, <1>7, <2>3 DEF FitsRequest
  <2>6. blurred' \/ FitsRest(id, u)
    BY <1>1, <1>2, <2>3, OfUpload DEF FitsRest
  <2>7. QED
    BY <1>1, <1>2, <1>3, <1>5, <1>7, <2>2, <2>3, <2>4, <2>5, <2>6, OneUploadKeeps
<1>8. CASE /\ u.known /\ ~KnownActive(u)
           /\ upload' = [upload EXCEPT ![id].cancelled = TRUE]
           /\ tomb' = [tomb EXCEPT ![id] = TRUE] /\ UNCHANGED blurred
           /\ req' = [req EXCEPT ![r].at = IF u.job = 0 THEN "drain" ELSE "look",
                                 ![r].job = u.job]
  <2> DEFINE w == [u EXCEPT !.cancelled = TRUE]
             x == IF u.job = 0 THEN "drain" ELSE "look"
             a == [q EXCEPT !.at = x, !.job = u.job]
  <2>1. /\ w \in UploadType /\ w.known = u.known /\ w.cancelled
        /\ w.job = u.job /\ w.clean = u.clean /\ w.cleanJob = u.cleanJob
        /\ w.sha = u.sha /\ w.fin = u.fin /\ u.job \in Nat
    BY <1>3 DEF UploadType
  <2>2. x \in {"drain", "look"} /\ (x = "drain" => u.job = 0) /\ (x = "look" => u.job # 0)
    OBVIOUS
  <2>3. req' = [req EXCEPT ![r] = a]
    BY <1>4, <1>8
  <2>4. upload' = [upload EXCEPT ![id] = w]
    BY <1>4, <1>8
  <2> HIDE DEF x
  <2>5. /\ a \in ReqType /\ a.at = x /\ a.id = id /\ a.kind = q.kind /\ a.pick = q.pick
        /\ a.job = u.job /\ a.live = q.live
    BY <1>2, <2>1, <2>2 DEF ReqType
  <2> HIDE DEF a, w
  <2>6. Shape(a) /\ Listens(a, q) /\ ~OkComplete(a)
    BY <1>1, <1>2, <2>2, <2>5 DEF Shape, Listens, OkComplete
  <2>7. Sound(w, TRUE, row)
    BY <1>3, <1>8, <2>1 DEF Sound, KnownActive
  <2>8. Holds(a, w) /\ Agrees(a, w, row) /\ a.job <= Len(row)
    BY <1>3, <1>8, <2>1, <2>2, <2>5 DEF Holds, Agrees, Finished, Cancelling, Sound
  <2>9. req' \in [Slots -> ReqType] /\ req'[r] = a /\ \A s \in Slots \ {r} : req'[s] = req[s]
    BY <1>4, <2>3, <2>5
  <2>10. \A s \in Slots : FitsRequest(s, id, w)
    <3> TAKE s \in Slots
    <3>1. CASE s = r
      BY <1>1, <2>5, <2>6, <2>8, <2>9, <3>1 DEF FitsRequest
    <3>2. CASE s # r
      <4>1. /\ Holds(req[s], u) => Holds(req[s], w)
            /\ Agrees(req[s], u, row) => Agrees(req[s], w, row)
        BY <2>1 DEF Holds, Agrees, Finished, FinalizationStarted
      <4>2. QED
        BY <1>1, <1>2, <1>8, <2>9, <3>2, <4>1, SameFits
    <3>3. QED
      BY <3>1, <3>2
  <2>11. blurred' \/ FitsRest(id, w)
    BY <1>1, <1>2, <1>8, <2>1, RestFits
  <2>12. QED
    BY <1>1, <1>2, <1>4, <1>8, <2>1, <2>4, <2>7, <2>9, <2>10, <2>11, OneUploadKeeps
<1>9. QED
  BY <1>1, <1>6, <1>7, <1>8 DEF CancelArrive

LEMMA CancelLookKeeps ==
    ASSUME UploadInv, NEW r \in Slots, CancelLook(r)
    PROVE  UploadInv'
<1> DEFINE q == req[r]  id == q.id  u == upload[id]
<1>1. /\ q.at = "look" /\ UNCHANGED <<client, worker, disk>> /\ UNCHANGED mishaps
      /\ row' = row /\ jobs' = jobs /\ dest' = dest /\ part' = part
  BY DEF CancelLook, worker, disk
<1>2. /\ q \in ReqType /\ id \in Ids /\ Shape(q) /\ q.job <= Len(row) /\ q.kind = "cancel"
      /\ u.known /\ (blurred \/ Agrees(q, u, row))
  BY <1>1, OfRequest DEF Shape, Holds, Cancelling
<1>3. /\ u \in UploadType /\ tomb[id] \in BOOLEAN /\ Sound(u, tomb[id], row)
      /\ blurred \/ Clears(id, u, row, jobs, part[id])
  BY <1>2, OfUpload
<1>4. /\ upload \in [Ids -> UploadType] /\ blurred \in BOOLEAN /\ req \in [Slots -> ReqType]
  BY DEF UploadInv, StateTyped
<1>5. CASE row[q.job] = "pending" /\ Unlock(r) /\ Answer(r, "refused")
  <2> DEFINE a == Answered(q, "refused")  w == [u EXCEPT !.cancelled = FALSE]
  <2>1. /\ a \in ReqType
        /\ \/ a = NoReq
           \/ /\ a.id = id /\ Shape(a) /\ a.job <= Len(row) /\ ~OkComplete(a)
              /\ Listens(a, req[r]) /\ \A v : Holds(a, v)
              /\ \A v, rw : Agrees(a, v, rw)
    BY <1>1, <1>2, AnswerIs
  <2>2. req' = [req EXCEPT ![r] = a]
    BY <1>4, <1>5 DEF Answer
  <2>3. /\ w \in UploadType /\ w.known = u.known /\ ~w.cancelled
        /\ w.job = u.job /\ w.clean = u.clean /\ w.cleanJob = u.cleanJob
        /\ w.sha = u.sha /\ w.fin = u.fin
    BY <1>3 DEF UploadType
  <2>4. upload' = [upload EXCEPT ![id] = w] /\ tomb' = [tomb EXCEPT ![id] = FALSE]
        /\ blurred' \in BOOLEAN /\ (blurred => blurred')
    BY <1>4, <1>5 DEF Unlock
  <2>5. \A s \in Slots \ {r} : ~blurred' => req[s].id # id \/ ~Cancelling(req[s])
    BY <1>5 DEF Unlock, Cancelling
  <2> HIDE DEF a, w
  <2>6. req' \in [Slots -> ReqType] /\ req'[r] = a /\ \A s \in Slots \ {r} : req'[s] = req[s]
    BY <1>4, <2>1, <2>2
  <2>7. Sound(w, FALSE, row)
    BY <1>2, <1>3, <2>3 DEF Sound
  <2>8. \A s \in Slots : FitsRequest(s, id, w)
    <3> TAKE s \in Slots
    <3>1. CASE s = r
      BY <1>1, <2>1, <2>6, <3>1 DEF FitsRequest
    <3>2. CASE s # r /\ (req[s].at = "free" \/ req[s].id # id)
      BY <2>6, <3>2 DEF FitsRequest
    <3>3. CASE s # r /\ req[s].at # "free" /\ req[s].id = id
      <4>1. /\ Holds(req[s], u) => Holds(req[s], w)
            /\ ~Cancelling(req[s]) => (Agrees(req[s], u, row) => Agrees(req[s], w, row))
        BY <2>3 DEF Holds, Agrees, Finished, FinalizationStarted
      <4>2. blurred' \/ (Agrees(req[s], u, row) => Agrees(req[s], w, row))
        BY <2>5, <3>3, <4>1
      <4>3. QED
        BY <1>1, <2>4, <2>6, <3>3, <4>1, <4>2, OfRequest DEF FitsRequest, Listens
    <3>4. QED
      BY <3>1, <3>2, <3>3
  <2>9. blurred' \/ FitsRest(id, w)
    <3>1. w.clean # "no" => blurred
      <4>1. blurred \/ (u.job # 0 /\ row[u.job] = "pending")
        BY <1>1, <1>2, <1>5 DEF Agrees
      <4>2. QED
        BY <1>3, <2>3, <4>1 DEF Clears, Finished
    <3>2. QED
      BY <1>1, <1>2, <2>3, <2>4, <3>1, RestFits
  <2>10. QED
    BY <1>1, <1>2, <2>3, <2>4, <2>6, <2>7, <2>8, <2>9, OneUploadKeeps
<1>6. CASE row[q.job] # "pending" /\ req' = [req EXCEPT ![r].at = "drain"]
           /\ UNCHANGED <<server, blurred>>
  <2> DEFINE a == [q EXCEPT !.at = "drain"]
  <2>1. /\ a \in ReqType /\ Shape(a) /\ a.at = "drain" /\ a.id = id /\ a.kind = q.kind
        /\ a.pick = q.pick /\ a.job = q.job /\ Listens(a, q) /\ ~OkComplete(a)
    BY <1>1, <1>2, MovedIs
  <2>2. req' = [req EXCEPT ![r] = a]
    BY <1>4, <1>6
  <2> HIDE DEF a
  <2>3. Holds(a, u) /\ (blurred \/ Agrees(a, u, row))
    BY <1>1, <1>2, <1>6, <2>1 DEF Holds, Agrees, Cancelling, Finished
  <2>4. UNCHANGED <<client, server, worker, disk, blurred>>
    BY <1>1, <1>6
  <2>5. QED
    BY <1>1, <1>2, <2>1, <2>2, <2>3, <2>4, OneRequestKeeps
<1>7. QED
  BY <1>1, <1>5, <1>6 DEF CancelLook, Unfinished

LEMMA CancelDrainKeeps ==
    ASSUME UploadInv, NEW r \in Slots, CancelDrain(r)
    PROVE  UploadInv'
<1> DEFINE q == req[r]  id == q.id  u == upload[id]
           x == IF u.clean = "no" THEN "publish" ELSE u.clean
           a == [q EXCEPT !.at = "clean"]  w == [u EXCEPT !.clean = x]
<1>1. /\ q.at = "drain" /\ ~Writing(id) /\ req' = [req EXCEPT ![r].at = "clean"]
      /\ UNCHANGED <<client, worker, disk>> /\ UNCHANGED mishaps
      /\ upload' = [upload EXCEPT ![id].clean = IF @ = "no" THEN "publish" ELSE @]
      /\ tomb' = tomb /\ blurred' = blurred
      /\ row' = row /\ jobs' = jobs /\ dest' = dest /\ part' = part
  BY DEF CancelDrain, worker, disk
<1>2. /\ q \in ReqType /\ id \in Ids /\ Shape(q) /\ q.job <= Len(row) /\ q.kind = "cancel"
      /\ u.known /\ (blurred \/ (u.cancelled /\ Finished(u, row)))
  BY <1>1, OfRequest DEF Shape, Holds, Cancelling, Agrees
<1>3. /\ u \in UploadType /\ tomb[id] \in BOOLEAN /\ Sound(u, tomb[id], row)
      /\ blurred \/ Clears(id, u, row, jobs, part[id])
  BY <1>2, OfUpload
<1>4. /\ upload \in [Ids -> UploadType] /\ blurred \in BOOLEAN /\ req \in [Slots -> ReqType]
  BY DEF UploadInv, StateTyped
<1>5. /\ w \in UploadType /\ w.known = u.known /\ w.cancelled = u.cancelled
      /\ w.job = u.job /\ w.clean = x /\ w.cleanJob = u.cleanJob
      /\ w.sha = u.sha /\ w.fin = u.fin /\ x \in {u.clean, "publish"}
  <2>1. x \in {"no", "publish", "wait", "over"} /\ x \in {u.clean, "publish"}
    BY <1>3 DEF UploadType
  <2> HIDE DEF x
  <2>2. QED
    BY <1>3, <2>1 DEF UploadType
<1>6. /\ a \in ReqType /\ Shape(a) /\ a.at = "clean" /\ a.id = id /\ a.kind = q.kind
      /\ a.pick = q.pick /\ a.job = q.job /\ Listens(a, q) /\ ~OkComplete(a)
  BY <1>1, <1>2, MovedIs
<1>7. /\ req' = [req EXCEPT ![r] = a] /\ upload' = [upload EXCEPT ![id] = w]
      /\ tomb' = [tomb EXCEPT ![id] = tomb[id]]
  <2>1. upload' = [upload EXCEPT ![id].clean = x]
    BY <1>1, <1>2, <1>4
  <2> HIDE DEF x
  <2>2. QED
    BY <1>1, <1>2, <1>4, <2>1 DEF UploadInv, StateTyped
<1> HIDE DEF a, w, x
<1>8. Sound(w, tomb[id], row)
  BY <1>2, <1>3, <1>5 DEF Sound, KnownActive
<1>9. Holds(a, w) /\ (blurred \/ Agrees(a, w, row))
  BY <1>2, <1>5, <1>6 DEF Holds, Agrees, Cancelling, Finished
<1>10. req' \in [Slots -> ReqType] /\ req'[r] = a /\ \A s \in Slots \ {r} : req'[s] = req[s]
  BY <1>4, <1>6, <1>7
<1>11. \A s \in Slots : FitsRequest(s, id, w)
  <2> TAKE s \in Slots
  <2>1. CASE s = r
    BY <1>1, <1>2, <1>6, <1>9, <1>10, <2>1 DEF FitsRequest
  <2>2. CASE s # r
    <3>1. req[s].id = id => req[s].at # "write"
      BY <1>1 DEF Writing
    <3>2. req[s].id = id =>
              /\ Holds(req[s], u) => Holds(req[s], w)
              /\ Agrees(req[s], u, row) => Agrees(req[s], w, row)
      BY <1>5, <3>1 DEF Holds, Agrees, Finished
    <3>3. QED
      BY <1>1, <1>2, <1>10, <2>2, <3>2, SameFits
  <2>3. QED
    BY <2>1, <2>2
<1>12. blurred' \/ FitsRest(id, w)
  <2> SUFFICES ASSUME ~blurred'
               PROVE  FitsRest(id, w)
    OBVIOUS
  <2>1. Clears(id, w, row, jobs, part[id])
    BY <1>1, <1>2, <1>3, <1>5 DEF Clears, Finished
  <2>2. /\ u.job # 0 => Claim(u.job, id, u.sha, row, jobs, dest)
        /\ \A i \in 1 .. Len(jobs) : jobs[i].id = id =>
              /\ row[jobs[i].n] = "pending"
              /\ jobs[i].kind = "finalize" => u.job = jobs[i].n
    BY <1>1, <1>2, OfUpload
  <2>3. QED
    BY <1>1, <1>2, <1>5, <2>1, <2>2 DEF FitsRest
<1>13. QED
  BY <1>1, <1>2, <1>3, <1>4, <1>5, <1>7, <1>8, <1>10, <1>11, <1>12, OneUploadKeeps

LEMMA CleanPublishKeeps ==
    ASSUME UploadInv, NEW id \in Ids, CleanPublish(id)
    PROVE  UploadInv'
<1> DEFINE u == upload[id]
<1>1. /\ u.clean = "publish" /\ tomb' = tomb /\ blurred' = blurred /\ UNCHANGED client
      /\ UNCHANGED <<hashed, disk>> /\ UNCHANGED disk /\ hashed' = hashed
      /\ dest' = dest /\ part' = part
  BY DEF CleanPublish, disk
<1>2. /\ u \in UploadType /\ tomb[id] \in BOOLEAN /\ Sound(u, tomb[id], row)
      /\ \/ blurred
         \/ /\ Clears(id, u, row, jobs, part[id])
            /\ u.job # 0 => Claim(u.job, id, u.sha, row, jobs, dest)
            /\ part[id].there => u.known \/ \E i \in 1 .. Len(jobs) : jobs[i].id = id
            /\ \A i \in 1 .. Len(jobs) : jobs[i].id = id =>
                  /\ row[jobs[i].n] = "pending"
                  /\ jobs[i].kind = "finalize" => u.job = jobs[i].n
  BY OfUpload
<1>3. /\ upload \in [Ids -> UploadType] /\ blurred \in BOOLEAN /\ req \in [Slots -> ReqType]
      /\ u.known /\ u.job \in Nat /\ u.job <= Len(row)
  BY <1>1, <1>2 DEF UploadInv, StateTyped, Sound, UploadType
<1>4. CASE /\ Published("delete", id, 0)
           /\ upload' = [upload EXCEPT ![id].clean = "wait", ![id].cleanJob = Len(row) + 1]
           /\ UNCHANGED <<req, mishaps>>
  <2> DEFINE n == Len(row) + 1  w == [u EXCEPT !.clean = "wait", !.cleanJob = n]
             j == jobs'[Len(jobs) + 1]
  <2>1. /\ LaneTyped' /\ LaneSound'
        /\ Len(row) \in Nat /\ Len(row') = n /\ row'[n] = "pending"
        /\ \A k \in 1 .. Len(row) : row'[k] = row[k]
        /\ Len(jobs) \in Nat /\ Len(jobs') = Len(jobs) + 1
        /\ \A i \in 1 .. Len(jobs) : jobs'[i] = jobs[i]
        /\ j.n = n /\ j.kind = "delete" /\ j.id = id
    BY <1>1, <1>4, PublishedIs
  <2>2. /\ \A k \in Nat, o \in Ids, p \in Picks :
              Claim(k, o, p, row, jobs, dest) => Claim(k, o, p, row', jobs', dest')
        /\ ~blurred => OthersStay(id)
    BY <1>1, <1>4, PublishedKeeps
  <2>3. n \in Nat \ {0} /\ upload' = [upload EXCEPT ![id].clean = "wait", ![id].cleanJob = n]
    BY <1>4, <2>1
  <2> HIDE DEF n
  <2>4. /\ w \in UploadType /\ w.known = u.known /\ w.cancelled = u.cancelled
        /\ w.job = u.job /\ w.clean = "wait" /\ w.cleanJob = n
        /\ w.sha = u.sha /\ w.fin = u.fin
    BY <1>2, <2>3 DEF UploadType
  <2>5. upload' = [upload EXCEPT ![id] = w] /\ tomb' = [tomb EXCEPT ![id] = tomb[id]]
        /\ req' = req
    BY <1>1, <1>3, <1>4, <2>3 DEF UploadInv, StateTyped
  <2> HIDE DEF w
  <2>6. Sound(w, tomb[id], row') /\ Len(row) <= Len(row')
    BY <1>2, <1>3, <2>1, <2>3, <2>4 DEF Sound, KnownActive, n
  <2>7. Finished(u, row) => Finished(w, row')
    BY <1>3, <2>1, <2>4 DEF Finished
  <2>8. \A s \in Slots : FitsRequest(s, id, w)
    <3> TAKE s \in Slots
    <3>1. CASE req[s].at = "free" \/ req[s].id # id
      BY <2>5, <3>1 DEF FitsRequest
    <3>2. CASE req[s].at # "free" /\ req[s].id = id
      <4>1. /\ req[s].job <= Len(row) /\ req[s].job \in Nat /\ Holds(req[s], u)
            /\ Shape(req[s]) /\ req[s].pick \in Picks \cup {0}
            /\ \/ blurred
               \/ /\ Agrees(req[s], u, row)
                  /\ OkComplete(req[s]) => Claim(req[s].job, id, req[s].pick, row, jobs, dest)
        BY <3>2, OfRequest DEF ReqType
      <4>2. Holds(req[s], w) /\ req[s].job <= Len(row')
        BY <2>1, <2>4, <2>6, <4>1 DEF Holds, FinalizationStarted
      <4>3. blurred \/ Agrees(req[s], w, row')
        BY <1>1, <2>4, <2>7, <4>1 DEF Agrees
      <4>4. OkComplete(req[s]) => req[s].pick \in Picks
        BY <4>1 DEF OkComplete, Shape
      <4>5. QED
        BY <1>1, <2>2, <2>5, <3>2, <4>1, <4>2, <4>3, <4>4 DEF FitsRequest, Listens
    <3>3. QED
      BY <3>1, <3>2
  <2>9. ASSUME ~blurred
        PROVE  FitsRest(id, w) /\ OthersStay(id)
    <3>1. \A i \in 1 .. Len(jobs') : (i \in 1 .. Len(jobs) /\ jobs'[i] = jobs[i]) \/ jobs'[i] = j
      BY <2>1
    <3>2. \A i \in 1 .. Len(jobs) : jobs[i].n \in 1 .. Len(row) /\ jobs[i].n # n
      BY <2>1 DEF UploadInv, LaneSound, n
    <3> HIDE DEF j
    <3>3. Clears(id, w, row', jobs', part'[id])
      BY <1>1, <1>2, <2>1, <2>4, <2>7, <2>9, <3>1, <3>2 DEF Clears
    <3>4. \A i \in 1 .. Len(jobs') : jobs'[i].id = id =>
              row'[jobs'[i].n] = "pending" /\ (jobs'[i].kind = "finalize" => w.job = jobs'[i].n)
      BY <1>2, <2>1, <2>4, <2>9, <3>1, <3>2
    <3>5. w.job # 0 => Claim(w.job, id, w.sha, row', jobs', dest')
      BY <1>2, <1>3, <2>2, <2>4, <2>9 DEF UploadType, Sound
    <3>6. QED
      BY <1>3, <2>2, <2>4, <2>9, <3>3, <3>4, <3>5 DEF FitsRest
  <2>10. /\ req' \in [Slots -> ReqType] /\ blurred' \in BOOLEAN /\ (blurred => blurred')
         /\ blurred' \/ (FitsRest(id, w) /\ OthersStay(id))
    BY <1>1, <1>3, <2>5, <2>9
  <2>11. QED
    BY <1>1, <1>2, <1>4, <2>1, <2>4, <2>5, <2>6, <2>8, <2>10, StepKeeps
<1>5. CASE /\ Mishap /\ upload' = [upload EXCEPT ![id].clean = "no"]
           /\ req' = Cleaned(id, "failed", FALSE) /\ UNCHANGED <<row, jobs>>
  <2> DEFINE w == [u EXCEPT !.clean = "no"]
  <2>1. /\ w \in UploadType /\ w.known = u.known /\ w.cancelled = u.cancelled
        /\ w.job = u.job /\ w.clean = "no" /\ w.cleanJob = u.cleanJob
        /\ w.sha = u.sha /\ w.fin = u.fin
    BY <1>2 DEF UploadType
  <2>2. upload' = [upload EXCEPT ![id] = w] /\ tomb' = [tomb EXCEPT ![id] = tomb[id]]
    BY <1>1, <1>3, <1>5 DEF UploadInv, StateTyped
  <2> HIDE DEF w
  <2>3. Sound(w, tomb[id], row)
    BY <1>2, <2>1 DEF Sound, KnownActive
  <2>4. \A s \in Slots : /\ Holds(req[s], u) => Holds(req[s], w)
                         /\ Agrees(req[s], u, row) => Agrees(req[s], w, row)
    BY <2>1 DEF Holds, Agrees, Finished, FinalizationStarted
  <2>5. req' \in [Slots -> ReqType] /\ \A s \in Slots : FitsRequest(s, id, w)
    BY <1>1, <1>5, <2>4, CleanedFits
  <2>6. blurred' \/ FitsRest(id, w)
    BY <1>1, <1>5, <2>1, RestFits
  <2>7. UNCHANGED <<client, worker, disk>>
    BY <1>1, <1>5 DEF worker
  <2>8. QED
    BY <1>1, <1>2, <1>3, <1>5, <2>1, <2>2, <2>3, <2>5, <2>6, <2>7, OneUploadKeeps
<1>6. QED
  BY <1>4, <1>5 DEF CleanPublish

LEMMA CleanEndKeeps ==
    ASSUME UploadInv, NEW id \in Ids, CleanEnd(id)
    PROVE  UploadInv'
<1> DEFINE u == upload[id]
<1>1. /\ UNCHANGED <<client, worker, disk>> /\ mishaps' = mishaps /\ blurred' = blurred
      /\ row' = row /\ jobs' = jobs /\ dest' = dest /\ part' = part
  BY DEF CleanEnd, worker, disk
<1>2. /\ u \in UploadType /\ tomb[id] \in BOOLEAN /\ Sound(u, tomb[id], row)
      /\ \/ blurred
         \/ /\ Clears(id, u, row, jobs, part[id])
            /\ u.job # 0 => Claim(u.job, id, u.sha, row, jobs, dest)
            /\ part[id].there => u.known \/ \E i \in 1 .. Len(jobs) : jobs[i].id = id
            /\ \A i \in 1 .. Len(jobs) : jobs[i].id = id =>
                  /\ row[jobs[i].n] = "pending"
                  /\ jobs[i].kind = "finalize" => u.job = jobs[i].n
  BY OfUpload
<1>3. /\ upload \in [Ids -> UploadType] /\ tomb \in [Ids -> BOOLEAN] /\ blurred \in BOOLEAN
      /\ Len(row) \in Nat
  BY DEF UploadInv, StateTyped
<1>4. CASE /\ u.clean = "wait" /\ row[u.cleanJob] = "completed"
           /\ upload' = [upload EXCEPT ![id] = NoUpload]
           /\ tomb' = [tomb EXCEPT ![id] = FALSE]
           /\ req' = Cleaned(id, "ok", TRUE)
  <2>1. blurred \/ (u.cancelled /\ u.fin = "no" /\ Finished(u, row) /\ ~part[id].there)
    BY <1>2, <1>4 DEF Clears, Sound, KnownActive
  <2>2. \A s \in Slots :
             /\ req[s].at \notin {"free", "clean"} /\ req[s].id = id
             /\ req[s].at \notin {"look", "drain"}
             /\ ~(req[s].at = "pre" /\ req[s].had)
             => /\ Holds(req[s], NoUpload)
                /\ blurred' \/ (Agrees(req[s], u, row) => Agrees(req[s], NoUpload, row))
    BY <1>1, <1>4, <2>1, NoUploadIs DEF Holds, Agrees, FinalizationStarted, Cancelling
  <2>3. req' \in [Slots -> ReqType] /\ \A s \in Slots : FitsRequest(s, id, NoUpload)
    <3> DEFINE gone == TRUE
    <3>1. gone /\ req' = Cleaned(id, "ok", gone)
      BY <1>4
    <3> HIDE DEF gone
    <3>2. QED
      BY <1>1, <2>2, <3>1, CleanedFits
  <2>4. blurred' \/ FitsRest(id, NoUpload)
    <3> SUFFICES ASSUME ~blurred'
                 PROVE  FitsRest(id, NoUpload)
      OBVIOUS
    <3>1. \A i \in 1 .. Len(jobs) : jobs[i].id = id =>
             row[jobs[i].n] = "pending" /\ jobs[i].kind # "finalize"
      <4>1. \A i \in 1 .. Len(jobs) : jobs[i].n \in 1 .. Len(row)
        BY DEF UploadInv, LaneSound
      <4>2. QED
        BY <1>1, <1>2, <1>3, <2>1, <4>1 DEF Finished
    <3>2. QED
      BY <1>1, <2>1, <3>1, NoUploadIs DEF FitsRest
  <2>5. Sound(NoUpload, FALSE, row) /\ NoUpload \in UploadType
    BY <1>3, NoUploadIs DEF Sound
  <2>6. QED
    BY <1>1, <1>3, <1>4, <2>3, <2>4, <2>5, OneUploadKeeps
<1>5. CASE /\ u.clean = "wait" /\ upload' = [upload EXCEPT ![id].clean = "over"]
           /\ req' = Cleaned(id, "ok", FALSE) /\ UNCHANGED tomb
  <2> DEFINE w == [u EXCEPT !.clean = "over"]
  <2>1. /\ w \in UploadType /\ w.known = u.known /\ w.cancelled = u.cancelled
        /\ w.job = u.job /\ w.clean = "over" /\ w.cleanJob = u.cleanJob
        /\ w.sha = u.sha /\ w.fin = u.fin
    BY <1>2 DEF UploadType
  <2>2. upload' = [upload EXCEPT ![id] = w] /\ tomb' = [tomb EXCEPT ![id] = tomb[id]]
    BY <1>3, <1>5 DEF UploadInv, StateTyped
  <2> HIDE DEF w
  <2>3. Sound(w, tomb[id], row)
    BY <1>2, <1>5, <2>1 DEF Sound, KnownActive
  <2>4. \A s \in Slots : /\ Holds(req[s], u) => Holds(req[s], w)
                         /\ Agrees(req[s], u, row) => Agrees(req[s], w, row)
    BY <1>5, <2>1 DEF Holds, Agrees, Finished, FinalizationStarted
  <2>5. req' \in [Slots -> ReqType] /\ \A s \in Slots : FitsRequest(s, id, w)
    BY <1>1, <1>5, <2>4, CleanedFits
  <2>6. blurred' \/ FitsRest(id, w)
    <3>1. Clears(id, u, row, jobs, part[id]) => Clears(id, w, row, jobs, part[id])
      BY <1>5, <2>1 DEF Clears, Finished
    <3>2. QED
      BY <1>1, <1>2, <2>1, <3>1 DEF FitsRest
  <2>7. QED
    BY <1>1, <1>2, <1>3, <2>1, <2>2, <2>3, <2>5, <2>6, OneUploadKeeps
<1>6. CASE req' = Cleaned(id, "ok", FALSE) /\ UNCHANGED server
  <2>1. upload' = [upload EXCEPT ![id] = u] /\ tomb' = [tomb EXCEPT ![id] = tomb[id]]
    BY <1>3, <1>6 DEF server
  <2>2. req' \in [Slots -> ReqType] /\ \A s \in Slots : FitsRequest(s, id, u)
    BY <1>1, <1>6, CleanedFits
  <2>3. blurred' \/ FitsRest(id, u)
    BY <1>1, <1>2 DEF FitsRest
  <2>4. QED
    BY <1>1, <1>2, <1>3, <2>1, <2>2, <2>3, OneUploadKeeps
<1>7. QED
  BY <1>4, <1>5, <1>6 DEF CleanEnd

----------------------------------------------------------------------------
(* The worker's lane *)

\* The job at the head of the lane ends.
LEMMA EndedIs ==
    ASSUME UploadInv, jobs # <<>>, NEW status \in {"completed", "failed", "checksum"},
           Ended(status)
    PROVE  /\ jobs' \in Seq(JobType) /\ row' \in Seq(Statuses) /\ hashed' = FALSE
           /\ LaneSound' /\ Len(row) \in Nat /\ Len(row') = Len(row)
           /\ Head(jobs) = jobs[1] /\ Head(jobs) \in JobType
           /\ Head(jobs).n \in 1 .. Len(row) /\ row'[Head(jobs).n] = status
           /\ \A n \in 1 .. Len(row) : n # Head(jobs).n => row'[n] = row[n]
           /\ Len(jobs) \in Nat \ {0} /\ Len(jobs') = Len(jobs) - 1
           /\ \A i \in 1 .. Len(jobs') : jobs'[i] = jobs[i + 1] /\ jobs'[i].n # Head(jobs).n
           /\ \A i \in 1 .. Len(jobs) : i = 1 \/ jobs[i] = jobs'[i - 1]
<1> DEFINE h == Head(jobs)
<1>1. row' = [row EXCEPT ![h.n] = status] /\ jobs' = Tail(jobs) /\ hashed' = FALSE
  BY DEF Ended
<1>2. LaneSound /\ jobs \in Seq(JobType) /\ row \in Seq(Statuses) /\ Len(row) \in Nat
  BY DEF UploadInv, StateTyped
<1>3. /\ Len(jobs) \in Nat \ {0} /\ h = jobs[1] /\ h \in JobType
      /\ jobs' \in Seq(JobType) /\ Len(jobs') = Len(jobs) - 1
      /\ \A i \in 1 .. Len(jobs') : jobs'[i] = jobs[i + 1]
      /\ \A i \in 1 .. Len(jobs) : i = 1 \/ jobs[i] = jobs'[i - 1]
  BY <1>1, <1>2
<1> HIDE DEF h
<1>4. h.n \in 1 .. Len(row)
  BY <1>2, <1>3 DEF LaneSound
<1>5. /\ row' \in Seq(Statuses) /\ Len(row') = Len(row) /\ row'[h.n] = status
      /\ \A n \in 1 .. Len(row) : n # h.n => row'[n] = row[n]
  BY <1>1, <1>2, <1>4 DEF Statuses
<1>6. \A i \in 1 .. Len(jobs') : i + 1 \in 1 .. Len(jobs) /\ jobs'[i].n # h.n
  BY <1>2, <1>3 DEF LaneSound
<1>7. LaneSound'
  BY <1>1, <1>2, <1>3, <1>5, <1>6 DEF LaneSound
<1>8. QED
  BY <1>1, <1>2, <1>3, <1>4, <1>5, <1>6, <1>7 DEF h

\* What is required of the files when it does.
LEMMA LaneEnds ==
    ASSUME UploadInv, jobs # <<>>, NEW status \in {"completed", "failed", "checksum"},
           Ended(status), UNCHANGED <<client, req, server, late>>,
           Mishap \/ UNCHANGED mishaps, blurred' \in BOOLEAN, blurred => blurred',
           part' \in [Ids -> PartType], dest' \in [Ids -> SUBSET Files],
           blurred' \/
             /\ \A o \in Ids : /\ part'[o].there => part[o].there
                               /\ dest[o] \subseteq dest'[o]
             /\ WholeFiles'
             /\ part'[Head(jobs).id].there =>
                  upload[Head(jobs).id].known /\ Head(jobs).kind = "finalize"
             /\ status = "completed" /\ Head(jobs).kind = "finalize" =>
                  \E f \in dest'[Head(jobs).id] : Whole(f, Head(jobs).pick)
    PROVE  UploadInv'
<1> DEFINE h == Head(jobs)  id == h.id  u == upload[id]
<1>1. /\ jobs' \in Seq(JobType) /\ row' \in Seq(Statuses) /\ hashed' = FALSE
      /\ LaneSound' /\ Len(row) \in Nat /\ Len(row') = Len(row)
      /\ h = jobs[1] /\ h \in JobType
      /\ h.n \in 1 .. Len(row) /\ row'[h.n] = status
      /\ \A n \in 1 .. Len(row) : n # h.n => row'[n] = row[n]
      /\ Len(jobs) \in Nat \ {0} /\ Len(jobs') = Len(jobs) - 1
      /\ \A i \in 1 .. Len(jobs') : jobs'[i] = jobs[i + 1] /\ jobs'[i].n # h.n
      /\ \A i \in 1 .. Len(jobs) : i = 1 \/ jobs[i] = jobs'[i - 1]
  BY EndedIs
<1>2. /\ id \in Ids /\ u \in UploadType /\ tomb[id] \in BOOLEAN /\ Sound(u, tomb[id], row)
  BY <1>1, OfUpload DEF JobType
<1> HIDE DEF h
<1>3. /\ upload' = [upload EXCEPT ![id] = u] /\ tomb' = [tomb EXCEPT ![id] = tomb[id]]
      /\ req' = req /\ req \in [Slots -> ReqType] /\ late' = late /\ UNCHANGED client
  BY DEF server, UploadInv, StateTyped
<1>4. LaneTyped'
  BY <1>1, <1>3 DEF LaneTyped, UploadInv, StateTyped
<1>5. Sound(u, tomb[id], row') /\ Len(row) <= Len(row')
  BY <1>1, <1>2 DEF Sound
<1>6. \A s \in Slots : FitsRequest(s, id, u)
  BY <1>3 DEF FitsRequest
<1>7. ASSUME ~blurred'
      PROVE  FitsRest(id, u) /\ OthersStay(id)
  <2>1. Firm /\ ~blurred /\ UploadsSound /\ StateTyped /\ LaneSound
    BY <1>7 DEF UploadInv
  <2>2. /\ \A o \in Ids : (part'[o].there => part[o].there) /\ dest[o] \subseteq dest'[o]
        /\ WholeFiles'
        /\ part'[id].there => upload[id].known /\ h.kind = "finalize"
        /\ status = "completed" /\ h.kind = "finalize" =>
                  \E f \in dest'[id] : Whole(f, h.pick)
    BY <1>7 DEF h
  <2>3. \A n \in Nat, o \in Ids, p \in Picks :
            Claim(n, o, p, row, jobs, dest) => Claim(n, o, p, row', jobs', dest')
    <3> SUFFICES ASSUME NEW n \in Nat, NEW o \in Ids, NEW p \in Picks,
                        Claim(n, o, p, row, jobs, dest)
                 PROVE  Claim(n, o, p, row', jobs', dest')
      OBVIOUS
    <3>1. n \in 1 .. Len(row')
      BY <1>1 DEF Claim
    <3>2. \A i \in 1 .. Len(jobs') : jobs'[i].n = n =>
              jobs'[i].kind = "finalize" /\ jobs'[i].id = o /\ jobs'[i].pick = p
      <4>1. \A i \in 1 .. Len(jobs') : jobs'[i] = jobs[i + 1] /\ i + 1 \in 1 .. Len(jobs)
        BY <1>1
      <4>2. QED
        BY <4>1 DEF Claim
    <3>3. ASSUME row'[n] = "completed"
          PROVE  \E f \in dest'[o] : Whole(f, p)
      <4>1. CASE n = h.n
        <5>1. h.kind = "finalize" /\ id = o /\ h.pick = p
          BY <1>1, <4>1 DEF Claim
        <5>2. QED
          BY <1>1, <2>2, <3>3, <4>1, <5>1
      <4>2. CASE n # h.n
        <5>1. row[n] = "completed"
          BY <1>1, <3>1, <3>3, <4>2
        <5>2. PICK f \in dest[o] : Whole(f, p)
          BY <5>1 DEF Claim
        <5>3. QED
          BY <2>2, <5>2
      <4>3. QED
        BY <4>1, <4>2
    <3>4. QED
      BY <3>1, <3>2, <3>3 DEF Claim
  <2>4. \A n \in 1 .. Len(row) : row[n] # "pending" => row'[n] # "pending"
    BY <1>1
  <2>5. \A o \in Ids : Clears(o, upload[o], row', jobs', part'[o])
    <3> TAKE o \in Ids
    <3> DEFINE v == upload[o]
    <3>1. /\ v.job \in Nat /\ v.job <= Len(row) /\ v.cleanJob \in Nat /\ v.cleanJob <= Len(row)
          /\ (v.clean = "wait" => v.cleanJob # 0) /\ Clears(o, v, row, jobs, part[o])
      BY <2>1 DEF StateTyped, UploadType, UploadsSound, Sound, Firm, UploadsClear
    <3> HIDE DEF v
    <3>2. Finished(v, row) => Finished(v, row')
      BY <1>1, <2>4, <3>1 DEF Finished
    <3>3. ASSUME v.clean = "wait"
          PROVE  /\ \A i \in 1 .. Len(jobs') : jobs'[i].n = v.cleanJob =>
                        jobs'[i].kind = "delete" /\ jobs'[i].id = o
                 /\ row'[v.cleanJob] = "completed" => ~part'[o].there
      <4>1. v.cleanJob \in 1 .. Len(row)
        BY <1>1, <3>1, <3>3
      <4>2. CASE v.cleanJob = h.n
        <5>1. h.kind = "delete" /\ id = o
          BY <1>1, <3>1, <3>3, <4>2 DEF Clears
        <5>2. QED
          BY <1>1, <2>2, <4>2, <5>1
      <4>3. CASE v.cleanJob # h.n
        <5>1. row'[v.cleanJob] = row[v.cleanJob]
          BY <1>1, <4>1, <4>3
        <5>2. \A i \in 1 .. Len(jobs') : jobs'[i] = jobs[i + 1] /\ i + 1 \in 1 .. Len(jobs)
          BY <1>1
        <5>3. QED
          BY <2>2, <3>1, <3>3, <5>1, <5>2 DEF Clears
      <4>4. QED
        BY <4>2, <4>3
    <3>4. Clears(o, v, row', jobs', part'[o])
      BY <3>1, <3>2, <3>3 DEF Clears
    <3>5. QED
      BY <3>4 DEF v
  <2>6. \A i \in 1 .. Len(jobs') : InLane(jobs'[i], upload, row')
    <3>0. /\ Len(jobs) \in Nat /\ Len(jobs') = Len(jobs) - 1
          /\ \A i \in 1 .. Len(jobs') : jobs'[i] = jobs[i + 1] /\ jobs'[i].n # h.n
      BY <1>1
    <3> TAKE i \in 1 .. Len(jobs')
    <3>1. i + 1 \in 1 .. Len(jobs) /\ jobs'[i] = jobs[i + 1] /\ jobs'[i].n # h.n
      BY <3>0
    <3>2. InLane(jobs'[i], upload, row) /\ jobs'[i].n \in 1 .. Len(row)
      BY <2>1, <3>1 DEF Firm, LaneAgrees, LaneSound
    <3>3. QED
      BY <1>1, <3>1, <3>2 DEF InLane
  <2>7. \A o \in Ids \ {id} : (\E i \in 1 .. Len(jobs) : jobs[i].id = o) =>
                                  \E i \in 1 .. Len(jobs') : jobs'[i].id = o
    <3> SUFFICES ASSUME NEW o \in Ids \ {id}, NEW i \in 1 .. Len(jobs), jobs[i].id = o
                 PROVE  \E k \in 1 .. Len(jobs') : jobs'[k].id = o
      OBVIOUS
    <3>1. i # 1
      BY <1>1
    <3>2. i - 1 \in 1 .. Len(jobs') /\ jobs'[i - 1] = jobs[i]
      BY <1>1, <3>1
    <3>3. QED
      BY <3>2
  <2>8. OthersStay(id)
    <3>1. HashedIsWhole' /\ late' = {}
      BY <1>1, <1>3, <2>1 DEF HashedIsWhole, Firm
    <3>2. QED
      BY <2>2, <2>3, <2>4, <2>5, <2>6, <2>7, <3>1 DEF OthersStay
  <2>9. FitsRest(id, u)
    <3>1. u.job # 0 => /\ Claim(u.job, id, u.sha, row, jobs, dest)
                        /\ u.sha \in Picks /\ u.job \in Nat
      BY <1>2, <2>1, OfUpload DEF UploadType, Sound
    <3>2. \A i \in 1 .. Len(jobs') : jobs'[i].id = id =>
              /\ row'[jobs'[i].n] = "pending"
              /\ jobs'[i].kind = "finalize" => u.job = jobs'[i].n
      BY <2>6 DEF InLane
    <3>3. QED
      BY <1>2, <2>2, <2>3, <2>5, <3>1, <3>2 DEF FitsRest
  <2>10. QED
    BY <2>8, <2>9
<1>8. QED
  BY <1>1, <1>2, <1>3, <1>4, <1>5, <1>6, <1>7, StepKeeps

\* What is known of a finalisation at the head of the lane.
LEMMA HeadIs ==
    ASSUME UploadInv, jobs # <<>>
    PROVE  LET h == Head(jobs) IN
           /\ h \in JobType /\ h.id \in Ids /\ part[h.id] \in PartType
           /\ h.kind = "finalize" => h.pick \in Picks
           /\ h.kind = "finalize" /\ ~blurred => upload[h.id].known
<1>1. jobs \in Seq(JobType) /\ part \in [Ids -> PartType] /\ LaneSound
  BY DEF UploadInv, StateTyped
<1>2. Len(jobs) \in Nat \ {0} /\ Head(jobs) = jobs[1] /\ Head(jobs) \in JobType
  BY <1>1
<1>3. Head(jobs).id \in Ids
  BY <1>2 DEF JobType
<1>4. ASSUME Head(jobs).kind = "finalize", ~blurred
      PROVE  upload[Head(jobs).id].known
  <2>1. InLane(jobs[1], upload, row) /\ jobs[1].n \in 1 .. Len(row) /\ Len(row) \in Nat
    BY <1>1, <1>2, <1>4 DEF UploadInv, Firm, LaneAgrees, LaneSound, StateTyped
  <2>2. upload[Head(jobs).id].job # 0
    BY <1>2, <1>4, <2>1 DEF InLane
  <2>3. QED
    BY <1>3, <2>2, OfUpload DEF Sound
<1>5. QED
  BY <1>1, <1>2, <1>3, <1>4 DEF LaneSound

LEMMA AbsentIs ==
    Absent \in PartType /\ ~Absent.there
BY DEF Absent, PartType, Files, NoFile

\* A staging file goes.
LEMMA GoneIs ==
    ASSUME part \in [Ids -> PartType], NEW id \in Ids
    PROVE  LET p == [part EXCEPT ![id] = Absent] IN
           /\ p \in [Ids -> PartType] /\ ~p[id].there
           /\ \A o \in Ids : p[o].there => part[o].there
BY AbsentIs

\* A step of the lane that ends no job.
LEMMA LaneGoesOn ==
    ASSUME UploadInv, jobs # <<>>, Head(jobs).kind = "finalize",
           UNCHANGED <<client, req, server, jobs, row, late>>,
           Mishap \/ UNCHANGED mishaps, blurred' \in BOOLEAN, blurred => blurred',
           part' \in [Ids -> PartType], dest' \in [Ids -> SUBSET Files], hashed' \in BOOLEAN,
           blurred' \/ (part' = part /\ dest' = dest /\ HashedIsWhole')
    PROVE  UploadInv'
<1> DEFINE id == Head(jobs).id  u == upload[id]
<1>1. id \in Ids /\ LaneSound /\ StateTyped /\ Len(row) \in Nat
  BY HeadIs DEF UploadInv, StateTyped
<1>2. /\ u \in UploadType /\ tomb[id] \in BOOLEAN /\ Sound(u, tomb[id], row)
  BY <1>1, OfUpload
<1>3. /\ upload' = [upload EXCEPT ![id] = u] /\ tomb' = [tomb EXCEPT ![id] = tomb[id]]
      /\ req' = req /\ req \in [Slots -> ReqType] /\ late' = late /\ UNCHANGED client
      /\ row' = row /\ jobs' = jobs
  BY <1>1 DEF server, StateTyped
<1> HIDE DEF id
<1>4. LaneTyped' /\ LaneSound' /\ Len(row) <= Len(row') /\ Sound(u, tomb[id], row')
  BY <1>1, <1>2, <1>3 DEF LaneTyped, LaneSound, StateTyped
<1>5. \A s \in Slots : FitsRequest(s, id, u)
  BY <1>3 DEF FitsRequest
<1>6. ASSUME ~blurred'
      PROVE  FitsRest(id, u) /\ OthersStay(id)
  <2>1. part' = part /\ dest' = dest /\ HashedIsWhole' /\ ~blurred /\ Firm
    BY <1>6 DEF UploadInv
  <2>2. FitsRest(id, u)
    BY <1>1, <1>3, <2>1, OfUpload DEF FitsRest
  <2>3. OthersStay(id)
    BY <1>3, <2>1 DEF OthersStay, Firm, LaneAgrees, WholeFiles
  <2>4. QED
    BY <2>2, <2>3
<1>7. QED
  BY <1>1, <1>2, <1>3, <1>4, <1>5, <1>6, StepKeeps

LEMMA FinalizeHashKeeps ==
    ASSUME UploadInv, FinalizeHash
    PROVE  UploadInv'
<1> DEFINE h == Head(jobs)
<1>1. /\ jobs # <<>> /\ h.kind = "finalize"
      /\ UNCHANGED <<client, req, server, late>> /\ dest' = dest /\ blurred' = blurred
      /\ mishaps' = mishaps
  BY DEF FinalizeHash
<1>2. /\ h \in JobType /\ h.id \in Ids /\ (blurred \/ upload[h.id].known)
      /\ part \in [Ids -> PartType] /\ dest \in [Ids -> SUBSET Files] /\ blurred \in BOOLEAN
      /\ blurred \/ WholeFiles
  BY <1>1, HeadIs DEF UploadInv, StateTyped, Firm
<1> HIDE DEF h
<1>3. CASE ~part[h.id].there /\ Ended("failed") /\ UNCHANGED part
  BY <1>1, <1>2, <1>3, LaneEnds DEF WholeFiles, h
<1>4. CASE Ended("checksum") /\ part' = [part EXCEPT ![h.id] = Absent]
  <2>1. /\ part' \in [Ids -> PartType] /\ ~part'[h.id].there
        /\ \A o \in Ids : part'[o].there => part[o].there
    BY <1>2, <1>4, GoneIs
  <2>2. QED
    BY <1>1, <1>2, <1>4, <2>1, LaneEnds DEF WholeFiles, h
<1>5. CASE /\ part[h.id].there /\ Whole(part[h.id].data, h.pick) /\ hashed' = TRUE
           /\ UNCHANGED <<jobs, row, part>>
  <2>1. HashedIsWhole'
    BY <1>5 DEF HashedIsWhole, h
  <2>2. UNCHANGED <<client, req, server, jobs, row, late>>
    BY <1>1, <1>5
  <2>3. QED
    BY <1>1, <1>2, <1>5, <2>1, <2>2, LaneGoesOn DEF h
<1>6. QED
  BY <1>3, <1>4, <1>5 DEF FinalizeHash, h

LEMMA FinalizeFailsKeeps ==
    ASSUME UploadInv, FinalizeFails
    PROVE  UploadInv'
<1>1. /\ jobs # <<>> /\ Head(jobs).kind = "finalize" /\ Mishap /\ Ended("failed")
      /\ UNCHANGED <<client, req, server, late>> /\ dest' = dest /\ blurred' = blurred
      /\ part' = part
  BY DEF FinalizeFails, disk
<1>2. /\ Head(jobs).id \in Ids /\ (blurred \/ upload[Head(jobs).id].known)
      /\ part \in [Ids -> PartType] /\ dest \in [Ids -> SUBSET Files] /\ blurred \in BOOLEAN
      /\ blurred \/ WholeFiles
  BY <1>1, HeadIs DEF UploadInv, StateTyped, Firm
<1>3. QED
  BY <1>1, <1>2, LaneEnds DEF WholeFiles

LEMMA FinalizeRenameKeeps ==
    ASSUME UploadInv, FinalizeRename
    PROVE  UploadInv'
<1> DEFINE h == Head(jobs)  id == h.id  x == part[id].data
<1>1. /\ jobs # <<>> /\ hashed
      /\ dest' = [dest EXCEPT ![id] = @ \cup {x}] /\ part' = [part EXCEPT ![id] = Absent]
      /\ \/ Ended("completed") /\ UNCHANGED <<blurred, mishaps>>
         \/ Mishap /\ hashed' = FALSE /\ blurred' = TRUE /\ UNCHANGED <<jobs, row>>
      /\ UNCHANGED <<client, req, server, late>>
  BY DEF FinalizeRename
<1>2. /\ h.kind = "finalize" /\ h.id \in Ids /\ h.pick \in Picks /\ x \in Files
      /\ part \in [Ids -> PartType] /\ dest \in [Ids -> SUBSET Files] /\ blurred \in BOOLEAN
      /\ blurred \/ (WholeFiles /\ Whole(x, h.pick))
  BY <1>1, HeadIs DEF UploadInv, StateTyped, Firm, LaneSound, HashedIsWhole, PartType
<1> HIDE DEF x, h
<1>3. /\ part' \in [Ids -> PartType] /\ ~part'[id].there
      /\ \A o \in Ids : part'[o].there => part[o].there
  BY <1>1, <1>2, GoneIs
<1>4. /\ dest' \in [Ids -> SUBSET Files] /\ dest'[id] = dest[id] \cup {x}
      /\ \A o \in Ids : dest[o] \subseteq dest'[o] /\ dest'[o] \subseteq dest[o] \cup {x}
  BY <1>1, <1>2
<1>5. blurred \/ WholeFiles'
  BY <1>2, <1>4 DEF WholeFiles
<1>6. CASE Ended("completed") /\ UNCHANGED <<blurred, mishaps>>
  <2>1. blurred \/ \E f \in dest'[id] : Whole(f, h.pick)
    BY <1>2, <1>4
  <2>2. QED
    BY <1>1, <1>2, <1>3, <1>4, <1>5, <1>6, <2>1, LaneEnds DEF h
<1>7. CASE Mishap /\ hashed' = FALSE /\ blurred' = TRUE /\ UNCHANGED <<jobs, row>>
  <2>1. UNCHANGED <<client, req, server, jobs, row, late>>
    BY <1>1, <1>7
  <2>2. QED
    BY <1>1, <1>2, <1>3, <1>4, <1>7, <2>1, LaneGoesOn DEF h
<1>8. QED
  BY <1>1, <1>6, <1>7

LEMMA DeletePartKeeps ==
    ASSUME UploadInv, DeletePart
    PROVE  UploadInv'
<1> DEFINE h == Head(jobs)  id == h.id
<1>1. /\ jobs # <<>> /\ h.kind = "delete"
      /\ \/ part' = [part EXCEPT ![id] = Absent] /\ Ended("completed")
            /\ UNCHANGED <<blurred, mishaps>>
         \/ Mishap /\ Ended("failed") /\ blurred' = TRUE /\ UNCHANGED part
      /\ UNCHANGED <<client, req, server, late>> /\ dest' = dest
  BY DEF DeletePart
<1>2. /\ id \in Ids /\ part \in [Ids -> PartType] /\ dest \in [Ids -> SUBSET Files]
      /\ blurred \in BOOLEAN /\ (blurred \/ WholeFiles)
  BY <1>1, HeadIs DEF UploadInv, StateTyped, Firm
<1> HIDE DEF h
<1>3. CASE part' = [part EXCEPT ![id] = Absent] /\ Ended("completed")
           /\ UNCHANGED <<blurred, mishaps>>
  <2>1. /\ part' \in [Ids -> PartType] /\ ~part'[id].there
        /\ \A o \in Ids : part'[o].there => part[o].there
    BY <1>2, <1>3, GoneIs
  <2>2. QED
    BY <1>1, <1>2, <1>3, <2>1, LaneEnds DEF WholeFiles, h
<1>4. CASE Mishap /\ Ended("failed") /\ blurred' = TRUE /\ UNCHANGED part
  BY <1>1, <1>2, <1>4, LaneEnds
<1>5. QED
  BY <1>1, <1>3, <1>4

----------------------------------------------------------------------------
(* The restart of the backend, and the whole *)

LEMMA RestartKeeps ==
    ASSUME UploadInv, Restart
    PROVE  UploadInv'
<1>1. /\ Mishap /\ upload' = [id \in Ids |-> NoUpload] /\ tomb' = [id \in Ids |-> FALSE]
      /\ req' = [r \in Slots |-> IF req[r].at = "free" THEN req[r]
                                 ELSE IF req[r].at = "replied" THEN req[r]
                                 ELSE Answered(req[r], "failed")]
      /\ row' = [n \in DOMAIN row |-> IF Unfinished(row[n]) THEN "failed" ELSE row[n]]
      /\ blurred' = TRUE /\ UNCHANGED <<client, jobs, hashed, disk>>
  BY DEF Restart
<1>2. /\ tab' = tab /\ saved' = saved /\ fresh' = fresh /\ tries' = tries
      /\ jobs' = jobs /\ hashed' = hashed /\ part' = part /\ late' = late /\ dest' = dest
  BY <1>1 DEF client, disk
<1>3. StateTyped /\ TabKnows /\ OneListened /\ ReqsHold /\ LaneSound
  BY DEF UploadInv
<1>4. row' \in Seq(Statuses) /\ Len(row') = Len(row) /\ Len(row) \in Nat
  <2>1. row \in Seq(Statuses)
    BY <1>3 DEF StateTyped
  <2>2. /\ Len(row) \in Nat /\ DOMAIN row = 1 .. Len(row)
        /\ \A n \in 1 .. Len(row) : row[n] \in Statuses
    BY <2>1
  <2>3. row' \in [1 .. Len(row) -> Statuses]
    BY <1>1, <2>2 DEF Statuses
  <2>4. QED
    BY <2>2, <2>3
<1>5. \A r \in Slots :
        /\ req'[r] \in ReqType /\ Shape(req'[r]) /\ req'[r].job <= Len(row)
        /\ Listens(req'[r], req[r]) /\ req'[r].at \in {"free", "replied"}
  <2> TAKE r \in Slots
  <2>1. req[r] \in ReqType /\ Shape(req[r]) /\ req[r].job <= Len(row) /\ req[r].job \in Nat
    BY <1>3 DEF StateTyped, ReqsHold, ReqType
  <2>2. CASE req[r].at \in {"free", "replied"}
    BY <1>1, <2>1, <2>2 DEF Listens
  <2>3. CASE req[r].at \notin {"free", "replied"}
    <3>1. req'[r] = Answered(req[r], "failed")
      BY <1>1, <2>3
    <3>2. LET a == Answered(req[r], "failed") IN
          /\ a \in ReqType
          /\ \/ a = NoReq
             \/ /\ a.id = req[r].id /\ Shape(a) /\ a.job <= Len(row) /\ ~OkComplete(a)
                /\ Listens(a, req[r])
      BY <2>3, AnswerIs
    <3>3. Answered(req[r], "failed").at \in {"free", "replied"}
      BY <2>1, <2>3, AnsweredIs, NoReqIs
    <3>4. QED
      BY <1>4, <3>1, <3>2, <3>3, NoReqIs DEF Listens
  <2>4. QED
    BY <2>2, <2>3
<1>6. req' \in [Slots -> ReqType]
  BY <1>1, <1>5
<1>7. StateTyped'
  BY <1>1, <1>2, <1>3, <1>4, <1>6, NoUploadIs, MishapCounts DEF StateTyped
<1>8. TabKnows' /\ LaneSound'
  BY <1>2, <1>3, <1>4 DEF TabKnows, LaneSound
<1>9. OneListened'
  BY <1>2, <1>3, <1>5, ListeningStays
<1>10. ReqsHold'
  <2>1. \A r \in Slots : \A u : Holds(req'[r], u)
    BY <1>5 DEF Holds, Cancelling
  <2>2. QED
    BY <1>4, <1>5, <2>1 DEF ReqsHold
<1>11. UploadsSound'
  BY <1>1, <1>4, NoUploadIs DEF UploadsSound
<1>12. QED
  BY <1>1, <1>7, <1>8, <1>9, <1>10, <1>11 DEF UploadInv

LEMMA UploadBegins ==
    UploadInit => UploadInv
<1> SUFFICES ASSUME UploadInit
             PROVE  UploadInv
  OBVIOUS
<1>1. /\ tab = NoTab /\ saved = 0 /\ fresh = Ids
      /\ req = [r \in Slots |-> NoReq]
      /\ upload = [id \in Ids |-> NoUpload] /\ tomb = [id \in Ids |-> FALSE]
      /\ jobs = <<>> /\ hashed = FALSE /\ row = <<>>
      /\ part = [id \in Ids |-> Absent] /\ late = {} /\ dest = [id \in Ids |-> {}]
      /\ blurred = FALSE /\ tries = 0 /\ mishaps = 0 /\ Len(row) = 0 /\ Len(jobs) = 0
  BY DEF UploadInit
<1>2. StateTyped
  <2>1. req \in [Slots -> ReqType] /\ upload \in [Ids -> UploadType]
    BY <1>1, NoReqIs, NoUploadIs
  <2>2. tomb \in [Ids -> BOOLEAN] /\ part \in [Ids -> PartType] /\ dest \in [Ids -> SUBSET Files]
    BY <1>1, AbsentIs
  <2>3. jobs \in Seq(JobType) /\ row \in Seq(Statuses)
    BY <1>1
  <2>4. mishaps \in 0 .. MaxMishaps
    BY <1>1, Constants
  <2>5. QED
    BY <1>1, <2>1, <2>2, <2>3, <2>4 DEF StateTyped
<1>3. TabKnows
  BY <1>1, NoTabIs, Constants DEF TabKnows
<1>4. OneListened /\ ReqsHold
  BY <1>1, NoReqIs DEF OneListened, ReqsHold
<1>5. UploadsSound /\ LaneSound
  <2>1. \A id \in Ids : upload[id] = NoUpload
    BY <1>1
  <2>2. \A id \in Ids : Sound(upload[id], tomb[id], row)
    BY <1>1, <2>1, NoUploadIs DEF Sound
  <2>3. LaneSound
    <3>1. 1 .. Len(jobs) = {} /\ ~hashed
      BY <1>1
    <3>2. QED
      BY <3>1 DEF LaneSound
  <2>4. QED
    BY <2>2, <2>3 DEF UploadsSound
<1>6. ReqsAgree /\ AnswerClaims
  BY <1>1, NoReqIs DEF ReqsAgree, AnswerClaims, OkComplete
<1>7. UploadsClear /\ UploadClaims
  BY <1>1, NoUploadIs DEF UploadsClear, UploadClaims
<1>8. LaneAgrees /\ TabClaims /\ WholeFiles /\ HashedIsWhole /\ Cared
  BY <1>1, NoTabIs, AbsentIs DEF LaneAgrees, TabClaims, WholeFiles, HashedIsWhole, Cared
<1>9. QED
  BY <1>1, <1>2, <1>3, <1>4, <1>5, <1>6, <1>7, <1>8 DEF UploadInv, Firm

LEMMA UploadStutters ==
    ASSUME UploadInv, UNCHANGED uploadVars
    PROVE  UploadInv'
<1>1. /\ tab' = tab /\ saved' = saved /\ fresh' = fresh /\ req' = req /\ upload' = upload
      /\ tomb' = tomb /\ jobs' = jobs /\ hashed' = hashed /\ row' = row /\ part' = part
      /\ late' = late /\ dest' = dest /\ blurred' = blurred /\ tries' = tries
      /\ mishaps' = mishaps
  BY DEF uploadVars
<1>2. StateTyped' /\ TabKnows' /\ OneListened' /\ ReqsHold' /\ UploadsSound' /\ LaneSound'
  BY <1>1 DEF UploadInv, StateTyped, TabKnows, OneListened, ReqsHold, UploadsSound, LaneSound
<1>3. ~blurred => Firm'
  BY <1>1 DEF UploadInv, Firm, ReqsAgree, UploadsClear, LaneAgrees, UploadClaims, AnswerClaims,
     TabClaims, WholeFiles, HashedIsWhole, Cared
<1>4. QED
  BY <1>1, <1>2, <1>3 DEF UploadInv

LEMMA UploadMoves ==
    UploadInv /\ [UploadNext]_uploadVars => UploadInv'
<1> SUFFICES ASSUME UploadInv, [UploadNext]_uploadVars
             PROVE  UploadInv'
  OBVIOUS
<1>1. CASE \E r \in Slots : Handler(r) \/ ChunkRefused(r) \/ ChunkFails(r)
  <2>1. PICK r \in Slots : Handler(r) \/ ChunkRefused(r) \/ ChunkFails(r)
    BY <1>1
  <2>2. CASE Handler(r)
    BY <2>2, ChunkArriveKeeps, ChunkClaimKeeps, ChunkWriteKeeps, CompleteArriveKeeps,
       CancelArriveKeeps, CancelLookKeeps, CancelDrainKeeps DEF Handler
  <2>3. CASE ChunkRefused(r) \/ ChunkFails(r)
    BY <2>3, ChunkRefusedKeeps, ChunkFailsKeeps
  <2>4. QED
    BY <2>1, <2>2, <2>3
<1>2. CASE \E id \in Ids : \/ Shared(id) \/ FinRefused(id) \/ FinPublishFails(id)
                           \/ EvictStale(id) \/ TombExpire(id)
  <2>1. PICK id \in Ids : \/ Shared(id) \/ FinRefused(id) \/ FinPublishFails(id)
                          \/ EvictStale(id) \/ TombExpire(id)
    BY <1>2
  <2>2. CASE Shared(id)
    BY <2>2, FinCheckKeeps, FinPublishKeeps, CleanPublishKeeps, CleanEndKeeps DEF Shared
  <2>3. CASE FinRefused(id) \/ FinPublishFails(id) \/ EvictStale(id) \/ TombExpire(id)
    BY <2>3, FinRefusedKeeps, FinPublishFailsKeeps, EvictStaleKeeps, TombExpireKeeps
  <2>4. QED
    BY <2>1, <2>2, <2>3
<1>3. CASE Worker \/ FinalizeFails \/ LateWrite \/ Restart
  BY <1>3, FinalizeHashKeeps, FinalizeRenameKeeps, DeletePartKeeps, FinalizeFailsKeeps,
     LateWriteKeeps, RestartKeeps DEF Worker
<1>4. CASE Tab \/ Break \/ UserCancel \/ RemoveRow \/ Reload
  BY <1>4, AskStagedKeeps, SendNextKeeps, ChunkAnsweredKeeps, CompleteAnsweredKeeps, PollKeeps,
     ClearAnsweredKeeps, HydrateKeeps, BreakKeeps, UserCancelKeeps, RemoveRowKeeps,
     ReloadKeeps DEF Tab
<1>5. CASE \E p \in Picks : StartUpload(p) \/ Retry(p)
  BY <1>5, StartUploadKeeps, RetryKeeps
<1>6. CASE UNCHANGED uploadVars
  BY <1>6, UploadStutters
<1>7. QED
  BY <1>1, <1>2, <1>3, <1>4, <1>5, <1>6 DEF UploadNext

\* The uploads of every number of chunks, ids, requests and selectable files: nothing of
\* the above is lost by any interleaving of the tab, the requests, the lane and the faults.
THEOREM UploadStays == UploadSpec => []UploadInv
BY UploadBegins, UploadMoves, PTL DEF UploadSpec

\* Whatever is retried, broken off, cancelled or reloaded, what lands is one whole file,
\* and "done" is said of the file the tab read (finalizeUploadState, doFinalize, pollJobResult).
THEOREM DoneIsLanded == UploadSpec => []Landed
<1>1. UploadInv => Landed
  BY DEF UploadInv, Firm, Landed, WholeFiles, TabClaims
<1>2. QED
  BY <1>1, UploadStays, PTL

\* No staging file is left that nobody knows of: its upload is in memory, or a job about it
\* in the lane (startUploadGc, cleanupUpload, doFinalize).
THEOREM StagingIsOwned == UploadSpec => []Owned
<1>1. UploadInv => Owned
  <2>1. UploadInv => DOMAIN jobs = 1 .. Len(jobs)
    BY DEF UploadInv, StateTyped
  <2>2. QED
    BY <2>1 DEF UploadInv, Firm, Owned, Cared
<1>2. QED
  BY <1>1, UploadStays, PTL

\* One finalisation of an upload at a time, none under a cleanup, and nothing takes up a
\* cancelled upload (completeUpload, cancelUpload, beginUploadWrite).
THEOREM FinalisedAlone == UploadSpec => []Exclusive
<1>1. ASSUME UploadInv, NEW id \in Ids
      PROVE  /\ ~blurred =>
                  LET finals == {i \in DOMAIN jobs : jobs[i].id = id /\ jobs[i].kind = "finalize"}
                  IN  Cardinality(finals) <= (IF upload[id].clean = "wait" THEN 0 ELSE 1)
             /\ tomb[id] /\ upload[id].known => upload[id].cancelled
  <2> DEFINE finals == {i \in DOMAIN jobs : jobs[i].id = id /\ jobs[i].kind = "finalize"}
  <2>1. /\ Sound(upload[id], tomb[id], row)
        /\ \/ blurred
           \/ /\ Clears(id, upload[id], row, jobs, part[id])
              /\ \A i \in 1 .. Len(jobs) : jobs[i].id = id =>
                    /\ row[jobs[i].n] = "pending"
                    /\ jobs[i].kind = "finalize" => upload[id].job = jobs[i].n
    BY <1>1, OfUpload
  <2>2. DOMAIN jobs = 1 .. Len(jobs) /\ LaneSound /\ Len(row) \in Nat
    BY <1>1 DEF UploadInv, StateTyped
  <2>3. ASSUME ~blurred
        PROVE  Cardinality(finals) <= (IF upload[id].clean = "wait" THEN 0 ELSE 1)
    <3>1. \A i, k \in finals : i = k
      BY <2>1, <2>2, <2>3 DEF LaneSound
    <3>2. upload[id].clean = "wait" => finals = {}
      BY <2>1, <2>2, <2>3 DEF LaneSound, Clears, Finished
    <3>3. CASE finals = {}
      <4>1. Cardinality(finals) = 0
        BY <3>3, FS_EmptySet
      <4>2. QED
        BY <4>1
    <3>4. CASE finals # {}
      <4>1. PICK i \in finals : TRUE
        BY <3>4
      <4>2. finals = {i}
        BY <3>1, <4>1
      <4>3. Cardinality(finals) = 1
        BY <4>2, FS_Singleton
      <4>4. QED
        BY <3>2, <3>4, <4>3
    <3>5. QED
      BY <3>3, <3>4
  <2>4. tomb[id] /\ upload[id].known => upload[id].cancelled
    BY <2>1 DEF Sound
  <2>5. QED
    BY <2>3, <2>4
<1>2. UploadInv => Exclusive
  BY <1>1 DEF Exclusive
<1>3. QED
  BY <1>2, UploadStays, PTL

\* Every variable stays in its range, jobs are numbered by rows that exist, and the bounds
\* on tries and mishaps are kept.
THEOREM UploadTypeCorrect == UploadSpec => []UploadTypeOK
<1>1. ASSUME UploadInv
      PROVE  UploadTypeOK
  <2>1. StateTyped /\ TabKnows /\ ReqsHold /\ UploadsSound /\ Len(row) \in Nat
    BY <1>1 DEF UploadInv, StateTyped
  <2>2. /\ \A r \in Slots : req[r] \in ReqType /\ req[r].job \in Numbers
        /\ \A id \in Ids : /\ upload[id] \in UploadType /\ upload[id].job \in Numbers
                           /\ upload[id].cleanJob \in Numbers
    BY <2>1 DEF StateTyped, ReqsHold, UploadsSound, Sound, Numbers, ReqType, UploadType
  <2>3. tab \in TabType /\ tab.job \in Numbers
    BY <2>1 DEF TabKnows, TabType, Numbers
  <2>4. req \in [Slots ->
         [at : {"free", "new", "pre", "write", "join", "look", "drain", "clean", "replied"},
          kind : {"none", "chunk", "complete", "cancel"}, id : Ids \cup {0},
          chunk : Chunks \cup {0}, pick : Picks \cup {0}, had : BOOLEAN, live : BOOLEAN,
          out : {"none", "ok", "refused", "failed"}, job : Numbers]]
    <3>1. \A r \in Slots : req[r] \in
         [at : {"free", "new", "pre", "write", "join", "look", "drain", "clean", "replied"},
          kind : {"none", "chunk", "complete", "cancel"}, id : Ids \cup {0},
          chunk : Chunks \cup {0}, pick : Picks \cup {0}, had : BOOLEAN, live : BOOLEAN,
          out : {"none", "ok", "refused", "failed"}, job : Numbers]
      BY <2>2 DEF ReqType
    <3>2. QED
      BY <2>1, <3>1 DEF StateTyped
  <2>5. upload \in [Ids ->
         [known : BOOLEAN, received : SUBSET Chunks, cancelled : BOOLEAN,
          sha : Picks \cup {0}, fin : {"no", "check", "publish"}, job : Numbers,
          clean : {"no", "publish", "wait", "over"}, cleanJob : Numbers]]
    <3>1. \A id \in Ids : upload[id] \in
         [known : BOOLEAN, received : SUBSET Chunks, cancelled : BOOLEAN,
          sha : Picks \cup {0}, fin : {"no", "check", "publish"}, job : Numbers,
          clean : {"no", "publish", "wait", "over"}, cleanJob : Numbers]
      BY <2>2 DEF UploadType
    <3>2. QED
      BY <2>1, <3>1 DEF StateTyped
  <2>6. jobs \in Seq([n : Numbers, kind : {"finalize", "delete"}, id : Ids,
                      pick : Picks \cup {0}])
    <3> DEFINE J == [n : Numbers, kind : {"finalize", "delete"}, id : Ids, pick : Picks \cup {0}]
    <3>1. jobs \in Seq(JobType) /\ LaneSound
      BY <1>1 DEF UploadInv, StateTyped
    <3>2. \A i \in 1 .. Len(jobs) : jobs[i] \in JobType /\ jobs[i].n \in Numbers
      BY <2>1, <3>1 DEF LaneSound, Numbers
    <3>3. \A i \in 1 .. Len(jobs) : jobs[i] \in J
      BY <3>2 DEF JobType
    <3> HIDE DEF J
    <3>4. jobs \in [1 .. Len(jobs) -> J] /\ Len(jobs) \in Nat
      BY <3>1, <3>3
    <3>5. jobs \in Seq(J)
      BY <3>4
    <3>6. QED
      BY <3>5 DEF J
  <2>7. /\ tomb \in [Ids -> BOOLEAN]
        /\ row \in Seq({"pending", "completed", "failed", "checksum"})
        /\ hashed \in BOOLEAN /\ blurred \in BOOLEAN
        /\ part \in [Ids -> [there : BOOLEAN, data : Files]] /\ dest \in [Ids -> SUBSET Files]
        /\ late \subseteq [id : Ids, chunk : Chunks, pick : Picks]
        /\ mishaps \in 0 .. MaxMishaps
    BY <2>1 DEF StateTyped, Statuses, PartType, LateType
  <2>8. /\ tab.pc \in {"idle", "asking", "sending", "waiting", "completing", "verifying",
                       "clearing", "loading", "done", "error"}
        /\ tab.id \in Ids \cup {0} /\ tab.pick \in Picks \cup {0} /\ tab.staged \subseteq Chunks
        /\ tab.attempt \in 1 .. ChunkAttempts
        /\ saved \in Ids \cup {0} /\ fresh \subseteq Ids /\ tries \in 0 .. MaxTries
    BY <2>1, <2>3 DEF TabType, TabKnows
  <2>9. QED
    BY <2>3, <2>4, <2>5, <2>6, <2>7, <2>8 DEF UploadTypeOK
<1>2. QED
  BY <1>1, UploadStays, PTL

==============================================================================
