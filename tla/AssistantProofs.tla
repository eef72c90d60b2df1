-------------------------- MODULE AssistantProofs --------------------------
(***************************************************************************)
(* For any tabs and bounds: a request is run at most once, and never when  *)
(* its user rejected it or it expired; whoever follows a turn is shown all *)
(* of what it stores, but for a message of the user that the panel takes   *)
(* for one it showed; the model is sent whole exchanges.                   *)
(*                                                                         *)
(* What makes the first inductive: a request that is pending, expired or   *)
(* rejected by its user is in no tab's hands past the claim, no two tabs   *)
(* are past the claim of one request, and where such a tab stands tells    *)
(* how often the request was run.  Only the claim looks at the status:     *)
(* every other write of a status is unconditional, and the proof is that   *)
(* it need not.                                                            *)
(*                                                                         *)
(* The second: what the running turn stored was shown before or with it,   *)
(* so its events, replayed to whoever joins, hold all of it; and the chat  *)
(* that follows a turn has seen all its events, or noted what it skipped.  *)
(*                                                                         *)
(* The third: what the model is sent is well formed.  The conversation is  *)
(* kept in order: a result is stored after a call of its id, with only     *)
(* results and decisions between.  So is its end, which the loop of        *)
(* historyForModel reads with an invariant of its own, by induction on the *)
(* messages read: the calls it waits for are those of the last reply, and  *)
(* each that no other reply made is answered further on.  Ids that other   *)
(* replies repeat get no such promise.                                     *)
(***************************************************************************)
EXTENDS Assistant, SequenceTheorems, FiniteSetTheorems, WellFoundedInduction, TLAPS

Request == [st : {"pending", "approved", "done", "failed", "rejected", "expired"},
            why : {"none", "user", "dropped"}, late : BOOLEAN, input : BOOLEAN]

HandState ==
    [at : {"idle", "allow", "drop", "claim", "run", "record", "note", "start"}, act : Nat]

Formed ==
    /\ acts \in Seq(Request) /\ ran \in Seq(Nat) /\ Len(ran) = Len(acts)
    /\ hand \in [Tabs -> HandState]
    /\ \A t \in Tabs : hand[t].at # "idle" => hand[t].act \in DOMAIN acts

\* Tab t is past the claim of request a.
Took(t, a) == hand[t].at \in {"run", "record"} /\ hand[t].act = a

Untouched(a) == ran[a] = 0 /\ \A t \in Tabs : ~Took(t, a)

DecidedOnce(a) ==
    /\ acts[a].st = "pending" => acts[a].why = "none"
    /\ acts[a].st \in {"pending", "expired"} \/ acts[a].why = "user" => Untouched(a)
    /\ acts[a].st = "done" => ran[a] = 1
    /\ acts[a].st \notin {"pending", "approved"} => ~acts[a].input
    /\ \A t \in Tabs : Took(t, a) => ran[a] = IF hand[t].at = "run" THEN 0 ELSE 1
    /\ \A t, u \in Tabs : Took(t, a) /\ Took(u, a) => t = u
    /\ ran[a] <= 1

IInv == Formed /\ \A a \in DOMAIN acts : DecidedOnce(a)

requests == <<acts, ran, hand>>

\* A sequence whose entries are rewritten one by one is as long, and of its type.
LEMMA Rewritten ==
  ASSUME NEW S, NEW s \in Seq(S), NEW f, f = [i \in DOMAIN s |-> f[i]],
         \A i \in DOMAIN s : f[i] \in S
  PROVE  f \in Seq(S) /\ Len(f) = Len(s)
<1>1. Len(s) \in Nat /\ DOMAIN s = 1..Len(s)
  BY LenProperties
<1>2. f \in Seq(S)
  BY <1>1, IsASeq
<1>3. QED
  BY <1>1, <1>2, LenProperties

\* One request is written.
LEMMA Written ==
  ASSUME Formed, NEW a \in DOMAIN acts, NEW r \in Request, acts' = [acts EXCEPT ![a] = r]
  PROVE  acts' \in Seq(Request) /\ Len(acts') = Len(acts) /\ DOMAIN acts' = DOMAIN acts
<1>1. acts \in Seq(Request) /\ \A i \in DOMAIN acts : acts[i] \in Request
  BY ElementOfSeq, LenProperties DEF Formed
<1>2. QED
  BY <1>1, Rewritten

LEMMA QuietKeeps ==
  ASSUME IInv, UNCHANGED requests
  PROVE  IInv'
BY DEF requests, IInv, Formed, DecidedOnce, Untouched, Took

\* What is formed has its parts.
LEMMA Parts ==
  ASSUME Formed
  PROVE  /\ DOMAIN ran = DOMAIN acts /\ DOMAIN acts = 1..Len(acts) /\ Len(acts) \in Nat
         /\ \A a \in DOMAIN acts : acts[a] \in Request /\ ran[a] \in Nat
         /\ \A t \in Tabs : hand[t] \in HandState
<1>1. acts \in Seq(Request) /\ ran \in Seq(Nat) /\ Len(ran) = Len(acts)
  BY DEF Formed
<1>2. DOMAIN ran = DOMAIN acts /\ DOMAIN acts = 1..Len(acts) /\ Len(acts) \in Nat
  BY <1>1, LenProperties
<1>3. \A a \in DOMAIN acts : acts[a] \in Request /\ ran[a] \in Nat
  BY <1>1, <1>2, ElementOfSeq
<1>4. QED
  BY <1>2, <1>3 DEF Formed

\* Tab t, whose hand is free or holds request a, goes on with it: the other requests and
\* tabs are as they were, and what is left to show is about a.
LEMMA OneRequest ==
  ASSUME IInv, NEW a \in DOMAIN acts, NEW t \in Tabs,
         NEW r \in Request, NEW n \in Nat, NEW h \in HandState,
         hand[t].at = "idle" \/ hand[t].act = a, h.at # "idle" => h.act = a,
         acts' = [acts EXCEPT ![a] = r], ran' = [ran EXCEPT ![a] = n],
         hand' = [hand EXCEPT ![t] = h], DecidedOnce(a)'
  PROVE  IInv'
<1>0. Formed
  BY DEF IInv
<1>1. /\ DOMAIN ran = DOMAIN acts
      /\ \A b \in DOMAIN acts : acts[b] \in Request /\ ran[b] \in Nat
      /\ hand \in [Tabs -> HandState] /\ ran \in Seq(Nat) /\ Len(ran) = Len(acts)
  BY <1>0, Parts DEF Formed
<1>2. acts' \in Seq(Request) /\ Len(acts') = Len(acts) /\ DOMAIN acts' = DOMAIN acts
  BY <1>0, Written
<1>3. ran' \in Seq(Nat) /\ Len(ran') = Len(ran)
  BY <1>1, Rewritten
<1>4. hand' \in [Tabs -> HandState]
  BY <1>1
<1>5. \A u \in Tabs : hand'[u].at # "idle" => hand'[u].act \in DOMAIN acts'
  BY <1>0, <1>1, <1>2 DEF Formed
<1>6. ASSUME NEW b \in DOMAIN acts, b # a
      PROVE  DecidedOnce(b)'
  <2>1. DecidedOnce(b)
    BY DEF IInv
  <2>2. acts'[b] = acts[b] /\ ran'[b] = ran[b]
    BY <1>1, <1>6
  <2>3. \A u \in Tabs : hand'[u] = IF u = t THEN h ELSE hand[u]
    BY <1>1
  <2>4. ~Took(t, b) /\ ~Took(t, b)'
    BY <1>6, <2>3 DEF Took
  <2>5. \A u \in Tabs : Took(u, b)' <=> Took(u, b)
    BY <2>3, <2>4 DEF Took
  <2>6. \A u \in Tabs : Took(u, b) => hand'[u] = hand[u]
    BY <2>3, <2>4
  <2>7. QED
    BY <2>1, <2>2, <2>5, <2>6 DEF DecidedOnce, Untouched
<1>7. QED
  BY <1>1, <1>2, <1>3, <1>4, <1>5, <1>6 DEF IInv, Formed

\* A tab takes a step that leaves its request, or takes it up, before the claim or after
\* the record.
LEMMA HandMoves ==
  ASSUME IInv, NEW t \in Tabs, NEW h \in HandState, h.at \notin {"run", "record"},
         h.at # "idle" => h.act \in DOMAIN acts,
         hand[t].at \notin {"run", "record"},
         hand' = [hand EXCEPT ![t] = h], UNCHANGED <<acts, ran>>
  PROVE  IInv'
<1>1. hand \in [Tabs -> HandState]
  BY DEF IInv, Formed
<1>2. \A u \in Tabs : hand'[u] = IF u = t THEN h ELSE hand[u]
  BY <1>1
<1>3. Formed'
  BY <1>1, <1>2 DEF IInv, Formed
<1>4. \A b, u : u \in Tabs => (Took(u, b)' <=> Took(u, b))
  BY <1>2 DEF Took
<1>5. \A b, u : u \in Tabs /\ Took(u, b) => hand'[u] = hand[u]
  BY <1>2 DEF Took
<1>6. ASSUME NEW b \in DOMAIN acts
      PROVE  DecidedOnce(b)'
  <2>1. DecidedOnce(b)
    BY DEF IInv
  <2>2. QED
    BY <2>1, <1>4, <1>5 DEF DecidedOnce, Untouched
<1>7. QED
  BY <1>3, <1>6 DEF IInv

\* Requests grow older or expire.
LEMMA TimeKeeps ==
  ASSUME IInv, NEW f, f = [a \in DOMAIN acts |-> f[a]], acts' = f, UNCHANGED <<ran, hand>>,
         \A a \in DOMAIN acts :
            /\ f[a] \in Request
            /\ \/ f[a].st = acts[a].st /\ f[a].why = acts[a].why /\ f[a].input = acts[a].input
               \/ /\ acts[a].st = "pending" /\ f[a].st = "expired"
                  /\ f[a].why = acts[a].why /\ ~f[a].input
  PROVE  IInv'
<1>1. acts' \in Seq(Request) /\ Len(acts') = Len(acts) /\ DOMAIN acts' = DOMAIN acts
  <2>1. acts \in Seq(Request) /\ \A a \in DOMAIN acts : f[a] \in Request
    BY DEF IInv, Formed
  <2>2. f \in Seq(Request) /\ Len(f) = Len(acts)
    BY <2>1, Rewritten
  <2>3. QED
    BY <2>2
<1>2. Formed'
  BY <1>1 DEF IInv, Formed
<1>3. ASSUME NEW b \in DOMAIN acts
      PROVE  DecidedOnce(b)'
  <2>1. DecidedOnce(b)
    BY DEF IInv
  <2>2. acts'[b] = f[b]
    BY <1>3
  <2>3. QED
    BY <2>1, <2>2 DEF DecidedOnce, Untouched, Took
<1>4. QED
  BY <1>1, <1>2, <1>3 DEF IInv

\* A tool call may queue a request, which nobody holds yet.
LEMMA TurnToolKeeps ==
  ASSUME IInv, TurnTool
  PROVE  IInv'
<1>1. CASE UNCHANGED <<acts, ran>>
  BY <1>1, QuietKeeps DEF TurnTool, requests
<1>2. CASE acts' = Append(acts, NewAct) /\ ran' = Append(ran, 0) /\ hand' = hand
  <2>0. Formed
    BY DEF IInv
  <2>1. /\ DOMAIN ran = DOMAIN acts /\ DOMAIN acts = 1..Len(acts) /\ Len(acts) \in Nat
        /\ \A t \in Tabs : hand[t] \in HandState
        /\ acts \in Seq(Request) /\ ran \in Seq(Nat) /\ Len(ran) = Len(acts)
    BY <2>0, Parts DEF Formed
  <2>2. NewAct \in Request
    BY DEF NewAct, Request
  <2>3. /\ acts' \in Seq(Request) /\ Len(acts') = Len(acts) + 1
        /\ \A a \in 1..Len(acts) : acts'[a] = acts[a]
        /\ acts'[Len(acts) + 1] = NewAct
    BY <1>2, <2>1, <2>2, AppendProperties
  <2>4. /\ ran' \in Seq(Nat) /\ Len(ran') = Len(acts) + 1
        /\ \A a \in 1..Len(acts) : ran'[a] = ran[a]
        /\ ran'[Len(acts) + 1] = 0
    BY <1>2, <2>1, AppendProperties
  <2>5. DOMAIN acts' = 1..Len(acts) + 1
    BY <2>3, LenProperties
  <2>6. Formed'
    BY <1>2, <2>0, <2>1, <2>3, <2>4, <2>5 DEF Formed
  <2>7. ASSUME NEW b \in DOMAIN acts
        PROVE  DecidedOnce(b)'
    <3>1. DecidedOnce(b)
      BY DEF IInv
    <3>2. acts'[b] = acts[b] /\ ran'[b] = ran[b]
      BY <2>1, <2>3, <2>4
    <3>3. QED
      BY <1>2, <3>1, <3>2 DEF DecidedOnce, Untouched, Took
  <2>8. ASSUME NEW n \in Nat, n = Len(acts) + 1
        PROVE  DecidedOnce(n)'
    <3>1. n \notin DOMAIN acts
      BY <2>1, <2>8
    <3>2. ASSUME NEW t \in Tabs
          PROVE  ~(Took(t, n)')
      <4>1. hand[t].at # "idle" => hand[t].act \in DOMAIN acts
        BY <2>0 DEF Formed
      <4>2. QED
        BY <1>2, <3>1, <4>1 DEF Took
    <3>3. acts'[n] = NewAct /\ ran'[n] = 0
      BY <2>3, <2>4, <2>8
    <3>4. QED
      BY <3>2, <3>3 DEF DecidedOnce, Untouched, NewAct
  <2>9. QED
    <3>1. PICK n \in Nat : n = Len(acts) + 1
      BY <2>1
    <3>2. DOMAIN acts' = DOMAIN acts \cup {n}
      BY <2>1, <2>5, <3>1
    <3>3. DecidedOnce(n)'
      BY <2>8, <3>1
    <3>4. QED
      BY <2>6, <2>7, <3>2, <3>3 DEF IInv
<1>3. QED
  BY <1>1, <1>2 DEF TurnTool

LEMMA AgeKeeps ==
  ASSUME IInv, NEW a \in DOMAIN acts, Age(a)
  PROVE  IInv'
<1>1. acts \in Seq(Request) /\ \A i \in DOMAIN acts : acts[i] \in Request
  BY Parts DEF IInv, Formed
<1>2. DEFINE f == [acts EXCEPT ![a].late = TRUE]
<1>3. acts' = f /\ f = [i \in DOMAIN acts |-> f[i]] /\ UNCHANGED <<ran, hand>>
  BY <1>1 DEF Age
<1>4. ASSUME NEW i \in DOMAIN acts
      PROVE  /\ f[i] \in Request /\ f[i].st = acts[i].st /\ f[i].why = acts[i].why
             /\ f[i].input = acts[i].input
  <2>1. acts[i] \in Request
    BY <1>1
  <2>2. f[i] = IF i = a THEN [acts[i] EXCEPT !.late = TRUE] ELSE acts[i]
    OBVIOUS
  <2>3. QED
    BY <2>1, <2>2 DEF Request
<1>5. QED
  <2> HIDE DEF f
  <2>1. QED
    BY <1>3, <1>4, TimeKeeps

LEMMA ListKeeps ==
  ASSUME IInv, List
  PROVE  IInv'
<1>1. \A i \in DOMAIN acts : acts[i] \in Request
  BY Parts DEF IInv
<1>2. DEFINE f == [a \in DOMAIN acts |->
                     IF acts[a].st = "pending" /\ acts[a].late
                     THEN [acts[a] EXCEPT !.st = "expired", !.late = FALSE, !.input = FALSE]
                     ELSE acts[a]]
<1>3. acts' = f /\ f = [i \in DOMAIN acts |-> f[i]] /\ UNCHANGED <<ran, hand>>
  BY DEF List
<1>4. ASSUME NEW i \in DOMAIN acts
      PROVE  /\ f[i] \in Request
             /\ \/ f[i].st = acts[i].st /\ f[i].why = acts[i].why /\ f[i].input = acts[i].input
                \/ /\ acts[i].st = "pending" /\ f[i].st = "expired"
                   /\ f[i].why = acts[i].why /\ ~f[i].input
  <2>1. acts[i] \in Request
    BY <1>1
  <2>2. f[i] = IF acts[i].st = "pending" /\ acts[i].late
               THEN [acts[i] EXCEPT !.st = "expired", !.late = FALSE, !.input = FALSE]
               ELSE acts[i]
    OBVIOUS
  <2>3. QED
    BY <2>1, <2>2 DEF Request
<1>5. QED
  <2> HIDE DEF f
  <2>1. QED
    BY <1>3, <1>4, TimeKeeps

\* The hand of a tab that is busy, with where it goes on or free.
LEMMA Hands ==
  ASSUME IInv, NEW t \in Tabs
  PROVE  /\ NoHand \in HandState /\ NoHand.at = "idle"
         /\ hand[t].at # "idle" => hand[t].act \in DOMAIN acts
         /\ \A at \in {"allow", "drop", "claim", "run", "record", "note", "start"} :
               LET h == [hand[t] EXCEPT !.at = at] IN
               /\ Hand(t, at) => hand' = [hand EXCEPT ![t] = h]
               /\ h \in HandState /\ h.at = at /\ h.act = hand[t].act
         /\ Done(t) => hand' = [hand EXCEPT ![t] = NoHand]
<1>1. hand \in [Tabs -> HandState] /\ hand[t] \in HandState
  BY DEF IInv, Formed
<1>2. QED
  BY <1>1 DEF IInv, Formed, HandState, NoHand, Hand, Done

LEMMA ApproveKeeps ==
  ASSUME IInv, NEW t \in Tabs, NEW a \in DOMAIN acts, Approve(t, a)
  PROVE  IInv'
<1>1. DEFINE h == [at |-> "allow", act |-> a]
<1>2. a \in Nat
  BY Parts DEF IInv
<1>3. h \in HandState
  BY <1>2 DEF HandState
<1>4. QED
  BY <1>3, HandMoves DEF Approve

LEMMA AllowKeeps ==
  ASSUME IInv, NEW t \in Tabs, Allow(t)
  PROVE  IInv'
<1>1. PICK at \in {"claim", "drop"} : Hand(t, at)
  BY DEF Allow
<1>2. DEFINE h == [hand[t] EXCEPT !.at = at]
<1>3. hand' = [hand EXCEPT ![t] = h] /\ h \in HandState /\ h.at = at /\ h.act = hand[t].act
  <2>1. at \in {"allow", "drop", "claim", "run", "record", "note", "start"}
    OBVIOUS
  <2>2. QED
    BY <1>1, <2>1, Hands
<1>4. hand[t].act \in DOMAIN acts
  BY Hands DEF Allow
<1>5. QED
  <2> HIDE DEF h
  <2>1. QED
    BY <1>3, <1>4, HandMoves DEF Allow

LEMMA NoteKeeps ==
  ASSUME IInv, NEW t \in Tabs, Note(t)
  PROVE  IInv'
<1>2. DEFINE h == [hand[t] EXCEPT !.at = "start"]
<1>3. hand' = [hand EXCEPT ![t] = h] /\ h \in HandState /\ h.at = "start" /\ h.act = hand[t].act
  BY Hands DEF Note
<1>4. hand[t].act \in DOMAIN acts
  BY Hands DEF Note
<1>5. QED
  <2> HIDE DEF h
  <2>1. QED
    BY <1>3, <1>4, HandMoves DEF Note

LEMMA GoOnKeeps ==
  ASSUME IInv, NEW t \in Tabs, GoOn(t)
  PROVE  IInv'
<1>1. hand' = [hand EXCEPT ![t] = NoHand] /\ NoHand \in HandState /\ NoHand.at = "idle"
  BY Hands DEF GoOn
<1>2. QED
  BY <1>1, HandMoves DEF GoOn

\* Dropped whatever became of the request: if another tab took it, it goes on with it.
LEMMA DropActKeeps ==
  ASSUME IInv, NEW t \in Tabs, DropAct(t)
  PROVE  IInv'
<1>1. DEFINE a == hand[t].act
             r == [acts[a] EXCEPT !.st = "rejected", !.why = "dropped", !.late = FALSE,
                                 !.input = FALSE]
<1>2. a \in DOMAIN acts
  BY Hands DEF DropAct
<1>3. acts[a] \in Request /\ ran[a] \in Nat /\ DOMAIN ran = DOMAIN acts /\ ran \in Seq(Nat)
  BY <1>2, Parts DEF IInv, Formed
<1>4. /\ r \in Request /\ r.st = "rejected" /\ r.why = "dropped" /\ ~r.input
      /\ acts' = [acts EXCEPT ![a] = r]
  BY <1>3 DEF DropAct, Request
<1>5. ran' = [ran EXCEPT ![a] = ran[a]]
  BY <1>3 DEF DropAct
<1>6. hand' = [hand EXCEPT ![t] = NoHand] /\ NoHand \in HandState /\ NoHand.at = "idle"
  BY Hands DEF DropAct
<1>7. DecidedOnce(a)
  BY <1>2 DEF IInv
<1>8. /\ acts'[a] = r /\ ran'[a] = ran[a]
      /\ \A u \in Tabs : hand'[u] = IF u = t THEN NoHand ELSE hand[u]
  BY <1>2, <1>4, <1>5, <1>6, <1>3 DEF IInv, Formed
<1>9. ASSUME NEW b \in DOMAIN acts, b = a
      PROVE  DecidedOnce(b)'
  <2>1. \A u \in Tabs : Took(u, b)' => Took(u, b) /\ hand'[u] = hand[u]
    BY <1>6, <1>8 DEF Took
  <2>2. DecidedOnce(b) /\ acts'[b] = r /\ ran'[b] = ran[b]
    BY <1>7, <1>8, <1>9
  <2>3. QED
    BY <1>4, <2>1, <2>2 DEF DecidedOnce, Untouched
<1>10. PICK b \in DOMAIN acts : b = a
  BY <1>2
<1>11. QED
  <2> HIDE DEF a, r
  <2>1. hand[t].act = b
    BY <1>10 DEF a
  <2>2. QED
    BY <1>3, <1>4, <1>5, <1>6, <1>9, <1>10, <2>1, OneRequest

LEMMA ClaimKeeps ==
  ASSUME IInv, NEW t \in Tabs, Claim(t)
  PROVE  IInv'
<1>1. PICK a \in DOMAIN acts : a = hand[t].act
  BY Hands DEF Claim
<1>2. acts[a] \in Request /\ ran[a] \in Nat /\ DOMAIN ran = DOMAIN acts /\ ran \in Seq(Nat)
  BY Parts DEF IInv, Formed
<1>3. CASE acts[a].st = "pending"
  <2>1. DEFINE r == [acts[a] EXCEPT !.st = "approved", !.late = FALSE]
               h == [hand[t] EXCEPT !.at = "run"]
  <2>2. /\ r \in Request /\ r.st = "approved" /\ r.why = acts[a].why /\ r.input = acts[a].input
        /\ acts' = [acts EXCEPT ![a] = r]
    BY <1>1, <1>2, <1>3 DEF Claim, Request
  <2>3. ran' = [ran EXCEPT ![a] = ran[a]]
    BY <1>2 DEF Claim
  <2>4. hand' = [hand EXCEPT ![t] = h] /\ h \in HandState /\ h.at = "run" /\ h.act = a
    BY <1>1, <1>3, Hands DEF Claim
  <2>5. /\ acts'[a] = r /\ ran'[a] = ran[a]
        /\ \A u \in Tabs : hand'[u] = IF u = t THEN h ELSE hand[u]
    BY <1>2, <2>2, <2>3, <2>4 DEF IInv, Formed
  <2>6. DecidedOnce(a) /\ Untouched(a) /\ acts[a].why = "none" /\ ran[a] = 0
    BY <1>3 DEF IInv, DecidedOnce, Untouched
  <2> HIDE DEF r, h
  <2>7. \A u \in Tabs : Took(u, a)' <=> u = t
    BY <2>4, <2>5, <2>6 DEF Took, Untouched
  <2>8. hand'[t].at = "run"
    BY <2>4, <2>5
  <2>9. DecidedOnce(a)'
    BY <2>2, <2>5, <2>6, <2>7, <2>8 DEF DecidedOnce
  <2>10. QED
    BY <1>1, <1>2, <2>2, <2>3, <2>4, <2>9, OneRequest
<1>4. CASE acts[a].st # "pending"
  <2>1. hand' = [hand EXCEPT ![t] = NoHand] /\ NoHand \in HandState /\ NoHand.at = "idle"
    BY <1>1, <1>4, Hands DEF Claim
  <2>2. QED
    BY <1>1, <1>4, <2>1, HandMoves DEF Claim
<1>5. QED
  BY <1>3, <1>4

LEMMA RunKeeps ==
  ASSUME IInv, NEW t \in Tabs, Run(t)
  PROVE  IInv'
<1>1. PICK a \in DOMAIN acts : a = hand[t].act
  BY Hands DEF Run
<1>2. acts[a] \in Request /\ ran[a] \in Nat /\ DOMAIN ran = DOMAIN acts /\ ran \in Seq(Nat)
  BY Parts DEF IInv, Formed
<1>3. DEFINE h == [hand[t] EXCEPT !.at = "record"]
<1>4. acts' = [acts EXCEPT ![a] = acts[a]] /\ acts' = acts
  BY <1>2 DEF Run, IInv, Formed
<1>5. DecidedOnce(a) /\ Took(t, a) /\ ran[a] = 0 /\ \A u \in Tabs : Took(u, a) => u = t
  BY <1>1 DEF IInv, DecidedOnce, Took, Run
<1>6. ran' = [ran EXCEPT ![a] = 1]
  BY <1>1, <1>2, <1>5 DEF Run
<1>7. hand' = [hand EXCEPT ![t] = h] /\ h \in HandState /\ h.at = "record" /\ h.act = a
  BY <1>1, Hands DEF Run
<1>8. ran'[a] = 1 /\ \A u \in Tabs : hand'[u] = IF u = t THEN h ELSE hand[u]
  BY <1>2, <1>6, <1>7 DEF IInv, Formed
<1> HIDE DEF h
<1>9. hand'[t].at = "record" /\ \A u \in Tabs : Took(u, a)' => u = t
  BY <1>5, <1>7, <1>8 DEF Took
<1>10. DecidedOnce(a)'
  BY <1>4, <1>5, <1>8, <1>9 DEF DecidedOnce, Untouched
<1>11. QED
  BY <1>1, <1>2, <1>4, <1>6, <1>7, <1>10, OneRequest

\* Whatever was written meanwhile: a request that was run was not rejected by its user.
LEMMA RecordKeeps ==
  ASSUME IInv, NEW t \in Tabs, Record(t)
  PROVE  IInv'
<1>1. PICK a \in DOMAIN acts : a = hand[t].act
  BY Hands DEF Record
<1>2. acts[a] \in Request /\ ran[a] \in Nat /\ DOMAIN ran = DOMAIN acts /\ ran \in Seq(Nat)
  BY Parts DEF IInv, Formed
<1>3. PICK o \in {"done", "failed"} :
         acts' = [acts EXCEPT ![a] = [@ EXCEPT !.st = o, !.input = FALSE]]
  BY <1>1 DEF Record
<1>4. DEFINE r == [acts[a] EXCEPT !.st = o, !.input = FALSE]
             h == [hand[t] EXCEPT !.at = "note"]
<1>5. /\ r \in Request /\ r.st = o /\ r.why = acts[a].why /\ ~r.input
      /\ acts' = [acts EXCEPT ![a] = r]
  BY <1>2, <1>3 DEF Request
<1>6. ran' = [ran EXCEPT ![a] = ran[a]]
  BY <1>2 DEF Record
<1>7. hand' = [hand EXCEPT ![t] = h] /\ h \in HandState /\ h.at = "note" /\ h.act = a
  BY <1>1, Hands DEF Record
<1>8. acts'[a] = r /\ ran'[a] = ran[a] /\ \A u \in Tabs : hand'[u] = IF u = t THEN h ELSE hand[u]
  BY <1>2, <1>5, <1>6, <1>7 DEF IInv, Formed
<1>9. DecidedOnce(a) /\ Took(t, a) /\ ran[a] = 1 /\ \A u \in Tabs : Took(u, a) => u = t
  BY <1>1 DEF IInv, DecidedOnce, Took, Record
<1>10. acts[a].why # "user"
  BY <1>9 DEF DecidedOnce, Untouched
<1> HIDE DEF r, h
<1>11. \A u \in Tabs : ~(Took(u, a)')
  BY <1>7, <1>8, <1>9 DEF Took
<1>12. DecidedOnce(a)'
  BY <1>5, <1>8, <1>9, <1>10, <1>11 DEF DecidedOnce
<1>13. QED
  BY <1>1, <1>2, <1>5, <1>6, <1>7, <1>12, OneRequest

LEMMA RejectKeeps ==
  ASSUME IInv, NEW t \in Tabs, NEW a \in DOMAIN acts, Reject(t, a)
  PROVE  IInv'
<1>1. acts[a] \in Request /\ ran[a] \in Nat /\ DOMAIN ran = DOMAIN acts /\ ran \in Seq(Nat)
      /\ a \in Nat
  BY Parts DEF IInv, Formed
<1>2. DEFINE r == [acts[a] EXCEPT !.st = "rejected", !.why = "user", !.late = FALSE,
                                 !.input = FALSE]
             h == [at |-> "note", act |-> a]
<1>3. /\ r \in Request /\ r.st = "rejected" /\ r.why = "user" /\ ~r.input
      /\ acts' = [acts EXCEPT ![a] = r]
  BY <1>1 DEF Reject, Request
<1>4. ran' = [ran EXCEPT ![a] = ran[a]]
  BY <1>1 DEF Reject
<1>5. hand' = [hand EXCEPT ![t] = h] /\ h \in HandState /\ h.at = "note" /\ h.act = a
  BY <1>1 DEF Reject, HandState
<1>6. acts'[a] = r /\ ran'[a] = ran[a] /\ \A u \in Tabs : hand'[u] = IF u = t THEN h ELSE hand[u]
  BY <1>1, <1>3, <1>4, <1>5 DEF IInv, Formed
<1>7. DecidedOnce(a) /\ Untouched(a) /\ ran[a] = 0
  BY DEF IInv, DecidedOnce, Untouched, Reject
<1> HIDE DEF r, h
<1>8. \A u \in Tabs : ~(Took(u, a)')
  BY <1>5, <1>6, <1>7 DEF Took, Untouched
<1>9. DecidedOnce(a)'
  BY <1>3, <1>6, <1>7, <1>8 DEF DecidedOnce, Untouched
<1>10. hand[t].at = "idle"
  BY DEF Reject
<1>11. QED
  BY <1>1, <1>3, <1>4, <1>5, <1>9, <1>10, OneRequest

\* No tab holds anything any more: what was claimed stays claimed, run or not.
LEMMA CrashKeeps ==
  ASSUME IInv, Crash
  PROVE  IInv'
<1>1. \A t \in Tabs : hand'[t] = NoHand
  BY DEF Crash
<1>2. hand' \in [Tabs -> HandState]
  BY DEF Crash, NoHand, HandState
<1>3. Formed'
  BY <1>1, <1>2 DEF IInv, Formed, Crash, NoHand
<1>4. \A b, t : t \in Tabs => ~(Took(t, b)')
  BY <1>1 DEF Took, NoHand
<1>5. ASSUME NEW b \in DOMAIN acts
      PROVE  DecidedOnce(b)'
  <2>1. DecidedOnce(b) /\ acts' = acts /\ ran' = ran
    BY DEF IInv, Crash
  <2>2. QED
    BY <2>1, <1>4 DEF DecidedOnce, Untouched
<1>6. QED
  BY <1>3, <1>5 DEF IInv, Crash

\* The rest of a turn and the chat leave the requests as they are.
LEMMA Others ==
  /\ TurnUser \/ TurnHistory \/ TurnReply \/ TurnCut \/ TurnSave \/ TurnRefuse =>
        UNCHANGED requests
  /\ TurnResult \/ TurnRound \/ TurnEnd => UNCHANGED requests
  /\ Stop \/ Chat \/ Open \/ Send \/ SendFails \/ SendElsewhere \/ TurnOff => UNCHANGED requests
<1>1. TurnUser \/ TurnHistory \/ TurnReply \/ TurnCut \/ TurnSave \/ TurnRefuse =>
        UNCHANGED requests
  BY DEF requests, decisions, TurnUser, TurnHistory, TurnReply, TurnCut, TurnSave, TurnRefuse
<1>2. TurnResult \/ TurnRound \/ TurnEnd => UNCHANGED requests
  BY DEF requests, decisions, TurnResult, TurnRound, TurnEnd
<1>3. Stop \/ Chat \/ Open \/ Send \/ SendFails \/ SendElsewhere \/ TurnOff => UNCHANGED requests
  BY DEF requests, decisions, Stop, Chat, OpenRead, OpenAnswer, Follow, Open, Send, SendFails,
         SendElsewhere, TurnOff
<1>4. QED
  BY <1>1, <1>2, <1>3

LEMMA InitHolds == Init => IInv
BY DEF Init, IInv, Formed, NoHand, HandState

LEMMA NextKeeps ==
  ASSUME IInv, [Next]_vars
  PROVE  IInv'
<1>1. CASE Turn
  BY <1>1, TurnToolKeeps, Others, QuietKeeps DEF Turn
<1>2. CASE Stop \/ Chat \/ Open \/ Send \/ SendFails \/ SendElsewhere \/ TurnOff
  BY <1>2, Others, QuietKeeps
<1>3. CASE Crash \/ List
  BY <1>3, CrashKeeps, ListKeeps
<1>4. ASSUME NEW a \in DOMAIN acts, Age(a) \/ \E t \in Tabs : Approve(t, a) \/ Reject(t, a)
      PROVE  IInv'
  BY <1>4, AgeKeeps, ApproveKeeps, RejectKeeps
<1>5. ASSUME NEW t \in Tabs, Decide(t)
      PROVE  IInv'
  BY <1>5, AllowKeeps, DropActKeeps, ClaimKeeps, RunKeeps, RecordKeeps, NoteKeeps, GoOnKeeps
     DEF Decide
<1>6. CASE UNCHANGED vars
  BY <1>6, QuietKeeps DEF vars, requests
<1>7. QED
  BY <1>1, <1>2, <1>3, <1>4, <1>5, <1>6 DEF Next

\* The invariant holds in every state, for any number of tabs and any bounds.
THEOREM Invariance == Spec => []IInv
BY InitHolds, NextKeeps, PTL DEF Spec

\* A stored call is run at most once, and never when the user of its request rejected it
\* or it expired, and a request that ended keeps no input: whatever tabs approve, reject
\* and list at once (trpc/routers/agentAction.ts), and wherever the backend stops.
THEOREM RequestsDecidedOnce == Spec => []Decided
<1>1. IInv => Decided
  BY DEF IInv, Decided, DecidedOnce, Untouched
<1>2. QED
  BY <1>1, Invariance, PTL

----------------------------------------------------------------------------
(* The conversation and the chat that follows it *)

Msg == [role : {"user", "assistant", "tool", "event"}, calls : SUBSET Nat, call : Nat,
        act : Nat, text : BOOLEAN, turn : Nat, round : Nat]
TurnState == [at : {"none", "user", "history", "stream", "save", "refuse", "tool", "result",
                    "end"},
              no : Nat, from : Nat, round : Nat, todo : Seq(Nat), text : BOOLEAN, asked : Nat,
              stop : BOOLEAN]
PanelState == [at : {"read", "answer", "join", "follow", "shown"}, turn : Nat, upto : Nat,
               sent : Nat, lost : Nat]

TalkOK ==
    /\ msgs \in Seq(Msg) /\ calls \in Nat /\ turns \in Nat
    /\ turn \in TurnState /\ panel \in PanelState
    /\ turn.no <= turns /\ (Running => turn.no > 0)
    /\ turn.from <= Len(msgs) /\ turn.round < MaxRounds
    /\ panel.turn <= turns /\ panel.lost <= turns /\ panel.upto <= Len(msgs)
    /\ panel.sent <= Unsent
    /\ \A k \in 1..Len(turn.todo) : turn.todo[k] \in 1..MaxCalls + calls
    /\ turn.at = "result" => turn.todo # <<>>
    /\ \A i \in 1..Len(msgs) : msgs[i].turn <= turns

\* What the running turn stored was shown before, or with it.
EventsTell ==
    /\ Running =>
          \A i \in 1..Len(msgs) : msgs[i].turn = turn.no => Shown(msgs[i]) \subseteq events
    /\ turn.at = "save" /\ turn.text => Text \subseteq events
    /\ \A e \in events : e[1] = "user" => e = <<"user", turn.no, 0>>

\* The user's message of the turn it follows, when that was skipped.
Missing == IF panel.lost = panel.turn THEN {<<"user", panel.turn, 0>>} ELSE {}

\* The chat follows the turn that runs, and what it followed before has ended.
Following ==
    /\ panel.at = "follow" => Running /\ panel.turn = turn.no /\ events \subseteq view \cup Missing
    /\ panel.at \in {"read", "answer", "join"} => panel.turn = 0
    /\ panel.at = "shown" /\ Running => panel.turn # turn.no

Talk == TalkOK /\ EventsTell /\ Following /\ FollowedWhole

talk == <<msgs, calls, turn, turns, events, panel, view>>

LEMMA Rounds == MaxRounds \in Nat \ {0} /\ MaxCalls \in Nat /\ Unsent \in Nat
BY AssistantAssumption DEF Unsent

LEMMA InTheTalk ==
  ASSUME TalkOK
  PROVE  /\ Len(msgs) \in Nat /\ DOMAIN msgs = 1..Len(msgs)
         /\ \A i \in 1..Len(msgs) : msgs[i] \in Msg
         /\ turn.todo \in Seq(Nat) /\ Len(turn.todo) \in Nat
         /\ turn.no \in Nat /\ turn.round \in Nat /\ turn.asked \in Nat /\ turns \in Nat
<1>1. msgs \in Seq(Msg) /\ turn \in TurnState /\ turns \in Nat
  BY DEF TalkOK
<1>2. turn.todo \in Seq(Nat) /\ turn.no \in Nat /\ turn.round \in Nat /\ turn.asked \in Nat
  BY <1>1 DEF TurnState
<1>3. QED
  BY <1>1, <1>2, LenProperties, ElementOfSeq

\* One more message is in the conversation.
LEMMA Said ==
  ASSUME TalkOK, NEW m \in Msg, msgs' = Append(msgs, m)
  PROVE  /\ msgs' \in Seq(Msg) /\ Len(msgs') = Len(msgs) + 1 /\ Len(msgs) \in Nat
         /\ DOMAIN msgs = 1..Len(msgs) /\ DOMAIN msgs' = 1..Len(msgs) + 1
         /\ \A i \in 1..Len(msgs) : msgs'[i] = msgs[i]
         /\ msgs'[Len(msgs) + 1] = m
         /\ \A i \in 1..Len(msgs) + 1 : i \in 1..Len(msgs) \/ i = Len(msgs) + 1
<1>1. msgs \in Seq(Msg) /\ Len(msgs) \in Nat /\ DOMAIN msgs = 1..Len(msgs)
  BY InTheTalk DEF TalkOK
<1>2. /\ msgs' \in Seq(Msg) /\ Len(msgs') = Len(msgs) + 1
      /\ \A i \in 1..Len(msgs) : msgs'[i] = msgs[i]
      /\ msgs'[Len(msgs) + 1] = m
  BY <1>1, AppendProperties
<1>3. DOMAIN msgs' = 1..Len(msgs) + 1
  BY <1>2, LenProperties
<1>4. QED
  BY <1>1, <1>2, <1>3

\* A blank message, before what it says is filled in.
LEMMA Blank ==
  ASSUME NEW role \in {"user", "assistant", "tool", "event"}
  PROVE  /\ Message(role) \in Msg /\ Message(role).role = role /\ ~Message(role).text
         /\ Message(role).act = 0 /\ Message(role).turn = 0
BY DEF Message, Msg

LEMMA UserMessage ==
  ASSUME NEW n \in Nat
  PROVE  LET m == [Message("user") EXCEPT !.turn = n] IN
         m \in Msg /\ m.turn = n /\ Shown(m) = {<<"user", n, 0>>}
<1>1. PICK b \in Msg : b = Message("user") /\ b.role = "user"
  BY Blank
<1>2. PICK m : m = [b EXCEPT !.turn = n]
  OBVIOUS
<1>3. m \in Msg /\ m.turn = n /\ m.role = "user"
  BY <1>1, <1>2 DEF Msg
<1>4. Shown(m) = {<<"user", n, 0>>}
  BY <1>3 DEF Shown
<1>5. QED
  BY <1>1, <1>2, <1>3, <1>4

LEMMA ReplyMessage ==
  ASSUME TalkOK, NEW text \in BOOLEAN, NEW ids \in SUBSET Nat
  PROVE  /\ Reply(text, ids) \in Msg /\ Reply(text, ids).turn = turn.no
         /\ Shown(Reply(text, ids)) = IF text THEN Text ELSE {}
<1>1. PICK b \in Msg : b = Message("assistant") /\ b.role = "assistant" /\ b.act = 0
  BY Blank
<1>2. PICK m : m = [b EXCEPT !.text = text, !.calls = ids, !.turn = turn.no,
                             !.round = turn.round]
  OBVIOUS
<1>3. Reply(text, ids) = m
  BY <1>1, <1>2 DEF Reply
<1>4. /\ m \in Msg /\ m.turn = turn.no /\ m.role = "assistant" /\ m.act = 0
      /\ m.round = turn.round
  BY <1>1, <1>2, InTheTalk DEF Msg
<1>5. m.text <=> text
  BY <1>1, <1>2 DEF Msg
<1>6. Shown(m) = IF text THEN Text ELSE {}
  BY <1>4, <1>5 DEF Shown, Text
<1>7. QED
  BY <1>3, <1>4, <1>6

LEMMA AnswerMessage ==
  ASSUME TalkOK, NEW c \in Nat, NEW a \in Nat
  PROVE  /\ Answer(c, a) \in Msg /\ Answer(c, a).turn = turn.no
         /\ Shown(Answer(c, a)) = IF a # 0 THEN {<<"request", turn.no, a>>} ELSE {}
<1>1. PICK b \in Msg : b = Message("tool") /\ b.role = "tool" /\ ~b.text
  BY Blank
<1>2. PICK m : m = [b EXCEPT !.call = c, !.act = a, !.turn = turn.no]
  OBVIOUS
<1>3. Answer(c, a) = m
  BY <1>1, <1>2 DEF Answer
<1>4. m \in Msg /\ m.turn = turn.no /\ m.role = "tool" /\ m.act = a /\ ~m.text
  BY <1>1, <1>2, InTheTalk DEF Msg
<1>5. Shown(m) = IF a # 0 THEN {<<"request", turn.no, a>>} ELSE {}
  BY <1>4 DEF Shown
<1>6. QED
  BY <1>3, <1>4, <1>5

LEMMA NoteMessage == Message("event") \in Msg /\ Message("event").turn = 0
                     /\ Shown(Message("event")) = {}
BY Blank DEF Shown

\* A step of the running turn that tells S and stores at most one message, which S tells;
\* the chat shows it when it follows, but for what it skips.
LEMMA TurnTells ==
  ASSUME Talk, NEW S, Running, turn'.no = turn.no, turn'.at # "none",
         panel'.at = panel.at, panel'.turn = panel.turn,
         panel'.lost = panel.lost \/ panel'.lost = panel.turn, view \subseteq view',
         panel.at = "follow" => S \subseteq view' \cup Missing',
         events' = events \cup S, \A e \in S : e[1] = "user" => e = <<"user", turn.no, 0>>,
         turn'.at = "save" /\ turn'.text => Text' \subseteq events',
         \/ msgs' = msgs
         \/ \E m \in Msg : /\ msgs' = Append(msgs, m) /\ m.turn = turn.no
                           /\ Shown(m) \subseteq events \cup S
  PROVE  EventsTell' /\ Following' /\ FollowedWhole'
<1>1. TalkOK /\ EventsTell /\ Following /\ FollowedWhole /\ DOMAIN msgs = 1..Len(msgs)
  BY InTheTalk DEF Talk
<1>2. \A i \in 1..Len(msgs) : msgs[i].turn = turn.no => Shown(msgs[i]) \subseteq events'
  BY <1>1 DEF EventsTell
<1>3. /\ DOMAIN msgs' = 1..Len(msgs')
      /\ \A i \in 1..Len(msgs') : msgs'[i].turn = turn.no => Shown(msgs'[i]) \subseteq events'
      /\ \A i \in 1..Len(msgs') : msgs'[i].turn # turn.no =>
                                    i \in 1..Len(msgs) /\ msgs'[i] = msgs[i]
  <2>1. CASE msgs' = msgs
    BY <1>1, <1>2, <2>1
  <2>2. CASE \E m \in Msg : /\ msgs' = Append(msgs, m) /\ m.turn = turn.no
                            /\ Shown(m) \subseteq events \cup S
    <3>1. PICK m \in Msg : /\ msgs' = Append(msgs, m) /\ m.turn = turn.no
                           /\ Shown(m) \subseteq events \cup S
      BY <2>2
    <3>2. /\ DOMAIN msgs' = 1..Len(msgs') /\ Len(msgs') = Len(msgs) + 1
          /\ \A i \in 1..Len(msgs) : msgs'[i] = msgs[i]
          /\ msgs'[Len(msgs) + 1] = m
          /\ \A i \in 1..Len(msgs') : i \in 1..Len(msgs) \/ i = Len(msgs) + 1
      BY <1>1, <3>1, Said
    <3>3. QED
      BY <1>2, <3>1, <3>2
  <2>3. QED
    BY <2>1, <2>2
<1>4. EventsTell'
  <2>1. \A e \in events' : e[1] = "user" => e = <<"user", turn'.no, 0>>
    BY <1>1 DEF EventsTell
  <2>2. QED
    BY <1>3, <2>1 DEF EventsTell
<1>0. Missing \subseteq Missing'
  BY DEF Missing
<1>5. Following'
  <2>1. panel.at = "follow" => events' \subseteq view' \cup Missing'
    BY <1>0, <1>1 DEF Following
  <2>2. QED
    BY <1>1, <2>1 DEF Following, Running
<1>6. FollowedWhole'
  <2>1. SUFFICES ASSUME panel.turn # 0, NEW i \in 1..Len(msgs'), msgs'[i].turn = panel.turn
                 PROVE  Shown(msgs'[i]) \subseteq view' \cup Missing'
    BY <1>3 DEF FollowedWhole, Missing
  <2>2. CASE panel.turn = turn.no
    <3>1. panel.at = "follow"
      BY <1>1, <2>1, <2>2 DEF Following, TalkOK, PanelState
    <3>2. events' \subseteq view' \cup Missing'
      BY <1>5, <3>1 DEF Following
    <3>3. QED
      BY <1>3, <2>1, <2>2, <3>2
  <2>3. CASE panel.turn # turn.no
    <3>1. i \in 1..Len(msgs) /\ msgs'[i] = msgs[i]
      BY <1>3, <2>1, <2>3
    <3>2. Shown(msgs[i]) \subseteq view \cup Missing
      BY <1>1, <2>1, <3>1 DEF FollowedWhole, Missing
    <3>3. QED
      BY <1>0, <3>1, <3>2
  <2>4. QED
    BY <2>2, <2>3
<1>7. QED
  BY <1>4, <1>5, <1>6

\* A step that the chat shows all of.
LEMMA TurnStep ==
  ASSUME Talk, NEW S, Running, turn'.no = turn.no, turn'.at # "none", panel' = panel,
         events' = events \cup S,
         view' = IF panel.at = "follow" THEN view \cup S ELSE view,
         \A e \in S : e[1] # "user",
         turn'.at = "save" /\ turn'.text => Text' \subseteq events',
         \/ msgs' = msgs
         \/ \E m \in Msg : /\ msgs' = Append(msgs, m) /\ m.turn = turn.no
                           /\ Shown(m) \subseteq events \cup S
  PROVE  EventsTell' /\ Following' /\ FollowedWhole'
<1>1. /\ panel'.at = panel.at /\ panel'.turn = panel.turn /\ panel'.lost = panel.lost
      /\ view \subseteq view' /\ (panel.at = "follow" => S \subseteq view' \cup Missing')
      /\ \A e \in S : e[1] = "user" => e = <<"user", turn.no, 0>>
  OBVIOUS
<1>2. QED
  BY <1>1, TurnTells

\* A step that tells nothing new.
LEMMA SilentStep ==
  ASSUME Talk, Running, turn'.no = turn.no, turn'.at # "none", turn'.at # "save",
         panel' = panel, events' = events, view' = view,
         \/ msgs' = msgs
         \/ \E m \in Msg : /\ msgs' = Append(msgs, m) /\ m.turn = turn.no
                           /\ Shown(m) \subseteq events
  PROVE  EventsTell' /\ Following' /\ FollowedWhole'
<1>1. PICK S : S = {}
  OBVIOUS
<1>2. \A e \in S : e[1] # "user"
  BY <1>1
<1>3. events' = events \cup S /\ view' = IF panel.at = "follow" THEN view \cup S ELSE view
  BY <1>1
<1>4. \/ msgs' = msgs
      \/ \E m \in Msg : /\ msgs' = Append(msgs, m) /\ m.turn = turn.no
                        /\ Shown(m) \subseteq events \cup S
  BY <1>1
<1>5. QED
  BY <1>2, <1>3, <1>4, TurnStep

\* The bounds and types, where the turn goes on.
LEMMA TurnGoesOn ==
  ASSUME TalkOK, Running, turn' \in TurnState, turn'.no = turn.no, turn'.from = turn.from,
         turn'.round < MaxRounds, turn'.at # "none", turns' = turns,
         panel' \in PanelState, panel'.turn = panel.turn, panel'.upto = panel.upto,
         panel'.lost <= turns, panel'.sent <= Unsent,
         calls' \in Nat, \A k \in 1..Len(turn'.todo) : turn'.todo[k] \in 1..MaxCalls + calls',
         turn'.at = "result" => turn'.todo # <<>>,
         \/ msgs' = msgs
         \/ \E m \in Msg : msgs' = Append(msgs, m) /\ m.turn = turn.no
  PROVE  TalkOK'
<1>1. /\ msgs' \in Seq(Msg) /\ Len(msgs) <= Len(msgs') /\ Len(msgs) \in Nat
      /\ Len(msgs') \in Nat /\ \A i \in 1..Len(msgs') : msgs'[i].turn <= turns
  <2>1. CASE msgs' = msgs
    BY <2>1, InTheTalk DEF TalkOK
  <2>2. CASE \E m \in Msg : msgs' = Append(msgs, m) /\ m.turn = turn.no
    <3>1. PICK m \in Msg : msgs' = Append(msgs, m) /\ m.turn = turn.no
      BY <2>2
    <3>2. /\ msgs' \in Seq(Msg) /\ Len(msgs') = Len(msgs) + 1 /\ Len(msgs) \in Nat
          /\ \A i \in 1..Len(msgs) : msgs'[i] = msgs[i]
          /\ msgs'[Len(msgs) + 1] = m
          /\ \A i \in 1..Len(msgs) + 1 : i \in 1..Len(msgs) \/ i = Len(msgs) + 1
      BY <3>1, Said
    <3>3. turn.no <= turns /\ \A i \in 1..Len(msgs) : msgs[i].turn <= turns
      BY DEF TalkOK
    <3>4. ASSUME NEW i \in 1..Len(msgs')
          PROVE  msgs'[i].turn <= turns
      <4>1. CASE i \in 1..Len(msgs)
        BY <3>2, <3>3, <4>1
      <4>2. CASE i = Len(msgs) + 1
        BY <3>1, <3>2, <3>3, <4>2
      <4>3. QED
        BY <3>2, <4>1, <4>2
    <3>5. QED
      BY <3>2, <3>4
  <2>3. QED
    BY <2>1, <2>2
<1>2. /\ turn.from \in Nat /\ panel.upto \in Nat
      /\ turn.from <= Len(msgs) /\ panel.upto <= Len(msgs)
  BY DEF TalkOK, TurnState, PanelState
<1>3. turn.from <= Len(msgs') /\ panel.upto <= Len(msgs')
  BY <1>1, <1>2
<1>4. QED
  BY <1>1, <1>3 DEF TalkOK, Running

LEMMA TurnOK ==
  ASSUME TalkOK, Running, turn' \in TurnState, turn'.no = turn.no, turn'.from = turn.from,
         turn'.round < MaxRounds, turn'.at # "none", panel' = panel, turns' = turns,
         calls' \in Nat, \A k \in 1..Len(turn'.todo) : turn'.todo[k] \in 1..MaxCalls + calls',
         turn'.at = "result" => turn'.todo # <<>>,
         \/ msgs' = msgs
         \/ \E m \in Msg : msgs' = Append(msgs, m) /\ m.turn = turn.no
  PROVE  TalkOK'
<1>1. /\ panel' \in PanelState /\ panel'.turn = panel.turn /\ panel'.upto = panel.upto
      /\ panel'.lost <= turns /\ panel'.sent <= Unsent
  BY DEF TalkOK
<1>2. QED
  BY <1>1, TurnGoesOn

\* What the chat hears is shown, or it is the user's message and skipped.
LEMMA Heard ==
  ASSUME TalkOK, NEW S, NEW now \in PanelState, Hear(S, now), now.turn = turn.no,
         now.lost = panel.lost, now.sent = panel.sent,
         \A e \in S : e[1] = "user" => e = <<"user", turn.no, 0>>
  PROVE  /\ panel' \in PanelState /\ panel'.at = now.at /\ panel'.turn = now.turn
         /\ panel'.upto = now.upto /\ panel'.sent <= Unsent /\ panel'.lost <= turns
         /\ panel'.lost = now.lost \/ panel'.lost = turn.no
         /\ view \subseteq view' /\ S \subseteq view' \cup Missing'
<1>1. /\ turn.no \in Nat /\ turn.no <= turns /\ panel.lost <= turns /\ panel.sent <= Unsent
      /\ Unsent \in Nat
  BY InTheTalk, Rounds DEF TalkOK
<1>2. PICK skipped :
         /\ skipped \subseteq S /\ \A e \in skipped : e[1] = "user"
         /\ view' = view \cup (S \ skipped)
         /\ panel' = [now EXCEPT !.sent = IF skipped = {} THEN now.sent ELSE 0,
                                 !.lost = IF skipped \subseteq view THEN now.lost ELSE turn.no]
  <2>1. PICK same \in BOOLEAN :
           LET own == {e \in S : e[1] = "user"}
               skipped == IF panel.sent # 0 /\ (same \/ panel.sent = turn.no) THEN own ELSE {}
           IN /\ view' = view \cup (S \ skipped)
              /\ panel' = [now EXCEPT !.sent = IF skipped = {} THEN @ ELSE 0,
                                      !.lost = IF skipped \subseteq view THEN @ ELSE turn.no]
    BY DEF Hear
  <2>2. PICK k : k = IF panel.sent # 0 /\ (same \/ panel.sent = turn.no)
                     THEN {e \in S : e[1] = "user"} ELSE {}
    OBVIOUS
  <2>3. /\ view' = view \cup (S \ k)
        /\ panel' = [now EXCEPT !.sent = IF k = {} THEN now.sent ELSE 0,
                                !.lost = IF k \subseteq view THEN now.lost ELSE turn.no]
    BY <2>1, <2>2
  <2>4. k \subseteq S /\ \A e \in k : e[1] = "user"
    BY <2>2
  <2>5. QED
    BY <2>3, <2>4
<1>3. PICK n, l : /\ n = IF skipped = {} THEN now.sent ELSE 0
                  /\ l = IF skipped \subseteq view THEN now.lost ELSE turn.no
  OBVIOUS
<1>4. /\ n \in Nat /\ n <= Unsent /\ l \in Nat /\ l <= turns
      /\ l = now.lost \/ l = turn.no
  BY <1>1, <1>3 DEF PanelState
<1>5. panel' = [now EXCEPT !.sent = n, !.lost = l]
  BY <1>2, <1>3
<1>6. /\ panel' \in PanelState /\ panel'.at = now.at /\ panel'.turn = now.turn
      /\ panel'.upto = now.upto /\ panel'.sent = n /\ panel'.lost = l
  BY <1>4, <1>5 DEF PanelState
<1>7. ASSUME NEW e \in S
      PROVE  e \in view' \cup Missing'
  <2>1. CASE e \in view \/ e \notin skipped
    BY <1>2, <2>1
  <2>2. CASE e \notin view /\ e \in skipped
    <3>1. l = turn.no /\ e = <<"user", turn.no, 0>>
      BY <1>2, <1>3, <2>2
    <3>2. QED
      BY <1>6, <3>1 DEF Missing
  <2>3. QED
    BY <2>1, <2>2
<1>8. QED
  BY <1>2, <1>4, <1>6, <1>7

\* The user's message is stored and told.
LEMMA TurnUserTalks ==
  ASSUME Talk, TurnUser
  PROVE  Talk'
<1>1. /\ TalkOK /\ Following /\ turn \in TurnState /\ turn.no \in Nat /\ turn.at = "user"
      /\ panel \in PanelState
  BY InTheTalk DEF Talk, TalkOK, TurnUser
<1>2. PICK S : S = {<<"user", turn.no, 0>>}
  OBVIOUS
<1>3. PICK m \in Msg : /\ m = [Message("user") EXCEPT !.turn = turn.no] /\ m.turn = turn.no
                       /\ Shown(m) = S
  BY <1>1, <1>2, UserMessage
<1>4. /\ msgs' = Append(msgs, m) /\ turn' = [turn EXCEPT !.at = "history"]
      /\ events' = events \cup S /\ UNCHANGED <<calls, turns>>
      /\ \/ panel.at = "follow" /\ Hear(S, panel)
         \/ panel.at # "follow" /\ panel' = panel /\ view' = view
  BY <1>2, <1>3 DEF TurnUser, To
<1>5. /\ turn' \in TurnState /\ turn'.at = "history" /\ turn'.no = turn.no
      /\ turn'.from = turn.from /\ turn'.round = turn.round /\ turn'.todo = turn.todo
  BY <1>1, <1>4 DEF TurnState
<1>6. /\ panel' \in PanelState /\ panel'.at = panel.at /\ panel'.turn = panel.turn
      /\ panel'.upto = panel.upto /\ panel'.sent <= Unsent /\ panel'.lost <= turns
      /\ panel'.lost = panel.lost \/ panel'.lost = panel.turn
      /\ view \subseteq view' /\ (panel.at = "follow" => S \subseteq view' \cup Missing')
  <2>1. CASE panel.at = "follow"
    <3>1. panel.turn = turn.no /\ Hear(S, panel)
      BY <1>1, <1>4, <2>1 DEF Following
    <3>2. \A e \in S : e[1] = "user" => e = <<"user", turn.no, 0>>
      BY <1>2
    <3>3. QED
      BY <1>1, <3>1, <3>2, Heard
  <2>2. CASE panel.at # "follow"
    BY <1>1, <1>4, <2>2 DEF TalkOK
  <2>3. QED
    BY <2>1, <2>2
<1>7. TalkOK'
  BY <1>1, <1>3, <1>4, <1>5, <1>6, TurnGoesOn DEF TalkOK, Running
<1>8. EventsTell' /\ Following' /\ FollowedWhole'
  <2>1. \A e \in S : e[1] = "user" => e = <<"user", turn.no, 0>>
    BY <1>2
  <2>2. QED
    BY <1>1, <1>3, <1>4, <1>5, <1>6, <2>1, TurnTells DEF Running
<1>9. QED
  BY <1>7, <1>8 DEF Talk

\* The steps that neither show nor store anything.
LEMMA TurnGoes ==
  ASSUME Talk, TurnHistory \/ TurnTool \/ TurnRound \/ Stop, acts \in Seq(Request)
  PROVE  Talk'
<1>1. /\ TalkOK /\ turn \in TurnState /\ Len(acts) + 1 \in Nat
      /\ turn.at \in {"history", "stream", "tool"}
      /\ turn.todo \in Seq(Nat) /\ turn.round \in Nat
  BY InTheTalk, LenProperties DEF Talk, TalkOK, TurnHistory, TurnTool, TurnRound, Stop
<1>2. UNCHANGED <<msgs, calls, turns, events, view, panel>>
  BY DEF TurnHistory, TurnTool, TurnRound, Stop, NoEmit, chat
<1>3. /\ turn' \in TurnState /\ turn'.no = turn.no /\ turn'.from = turn.from
      /\ turn'.todo = turn.todo /\ turn'.round < MaxRounds
      /\ turn'.at \in {"stream", "tool", "result", "end"}
      /\ turn'.at = "result" => turn'.todo # <<>>
  <2>1. CASE TurnHistory
    BY <1>1, <2>1 DEF TurnHistory, To, TurnState, TalkOK
  <2>2. CASE TurnTool
    <3>1. \/ turn' = [turn EXCEPT !.at = "end"]
          \/ turn' = [turn EXCEPT !.at = "result"] /\ turn.todo # <<>>
          \/ turn' = [turn EXCEPT !.at = "result", !.asked = Len(acts) + 1] /\ turn.todo # <<>>
      BY <2>2 DEF TurnTool, To
    <3>2. QED
      BY <1>1, <3>1 DEF TurnState, TalkOK
  <2>3. CASE TurnRound
    <3>1. \/ turn' = [turn EXCEPT !.at = "end"]
          \/ /\ ~(turn.round + 1 >= MaxRounds)
             /\ turn' = [turn EXCEPT !.at = "stream", !.round = turn.round + 1]
      BY <2>3 DEF TurnRound
    <3>2. CASE turn' = [turn EXCEPT !.at = "end"]
      BY <1>1, <3>2 DEF TurnState, TalkOK
    <3>3. CASE /\ ~(turn.round + 1 >= MaxRounds)
               /\ turn' = [turn EXCEPT !.at = "stream", !.round = turn.round + 1]
      <4>1. turn.round + 1 \in Nat /\ turn.round + 1 < MaxRounds
        BY <1>1, <3>3, Rounds
      <4>2. QED
        BY <1>1, <3>3, <4>1 DEF TurnState
    <3>4. QED
      BY <3>1, <3>2, <3>3
  <2>4. CASE Stop
    BY <1>1, <2>4 DEF Stop, TurnState, TalkOK
  <2>5. QED
    BY <2>1, <2>2, <2>3, <2>4
<1>4. TalkOK'
  BY <1>1, <1>2, <1>3, TurnOK DEF TalkOK, Running
<1>5. EventsTell' /\ Following' /\ FollowedWhole'
  BY <1>1, <1>2, <1>3, SilentStep DEF Running
<1>6. QED
  BY <1>4, <1>5 DEF Talk

\* What the model replies is shown as it comes.
LEMMA TurnReplyTalks ==
  ASSUME Talk, TurnReply
  PROVE  Talk'
<1>1. /\ TalkOK /\ turn \in TurnState /\ turn.at = "stream" /\ calls \in Nat
      /\ turn.no \in Nat /\ turn.round \in Nat /\ turn.round < MaxRounds
  BY InTheTalk DEF Talk, TalkOK, TurnReply
<1>2. PICK n \in 0..MaxCalls, text \in BOOLEAN, named \in BOOLEAN :
         /\ turn' = [turn EXCEPT !.at = "save", !.text = text,
                        !.todo = [i \in 1..n |-> IF named THEN MaxCalls + calls + i ELSE i]]
         /\ calls' = IF named THEN calls + n ELSE calls
         /\ Emit(IF text THEN Text ELSE {})
  BY DEF TurnReply
<1>3. n \in Nat /\ MaxCalls \in Nat
  BY AssistantAssumption
<1>4. PICK S : S = IF text THEN Text ELSE {}
  OBVIOUS
<1>5. PICK todo : todo = [i \in 1..n |-> IF named THEN MaxCalls + calls + i ELSE i]
  OBVIOUS
<1>6. todo \in Seq(Nat) /\ Len(todo) = n /\ \A k \in 1..n : todo[k] \in 1..MaxCalls + calls'
  <2>1. \A i \in 1..n : todo[i] \in Nat /\ todo[i] \in 1..MaxCalls + calls'
    BY <1>1, <1>2, <1>3, <1>5
  <2>2. todo \in [1..n -> Nat]
    BY <1>5, <2>1
  <2>3. todo \in Seq(Nat)
    BY <1>3, <2>2, SeqDef
  <2>4. Len(todo) = n
    BY <1>3, <2>2, <2>3, LenProperties
  <2>5. QED
    BY <1>5, <2>1, <2>3, <2>4
<1>7. turn' = [turn EXCEPT !.at = "save", !.text = text, !.todo = todo]
  BY <1>2, <1>5
<1>8. /\ turn' \in TurnState /\ turn'.at = "save" /\ turn'.no = turn.no
      /\ turn'.from = turn.from /\ turn'.round = turn.round /\ turn'.todo = todo
  BY <1>1, <1>6, <1>7 DEF TurnState
<1>9. turn'.text <=> text
  BY <1>1, <1>7 DEF TurnState
<1>10. /\ events' = events \cup S /\ view' = IF panel.at = "follow" THEN view \cup S ELSE view
       /\ UNCHANGED <<msgs, turns, panel>>
  BY <1>2, <1>4 DEF TurnReply, Emit
<1>11. turn'.at = "save" /\ turn'.text => Text' \subseteq events'
  BY <1>4, <1>8, <1>9, <1>10 DEF Text
<1>12. TalkOK'
  <2>1. calls' \in Nat /\ \A k \in 1..Len(turn'.todo) : turn'.todo[k] \in 1..MaxCalls + calls'
    BY <1>1, <1>2, <1>3, <1>6, <1>8
  <2>2. QED
    BY <1>1, <1>8, <1>10, <2>1, TurnOK DEF Running
<1>13. EventsTell' /\ Following' /\ FollowedWhole'
  <2>1. \A e \in S : e[1] # "user"
    BY <1>4 DEF Text
  <2>2. QED
    BY <1>1, <1>8, <1>10, <1>11, <2>1, TurnStep DEF Running
<1>14. QED
  BY <1>12, <1>13 DEF Talk

\* A reply cut short is stored with what was shown of it, or not at all.
LEMMA TurnCutTalks ==
  ASSUME Talk, TurnCut
  PROVE  Talk'
<1>1. /\ TalkOK /\ turn \in TurnState /\ turn.at = "stream"
  BY DEF Talk, TalkOK, TurnCut
<1>2. /\ turn' = [turn EXCEPT !.at = "end"] /\ UNCHANGED <<calls, turns, panel>>
  BY DEF TurnCut, To
<1>3. /\ turn' \in TurnState /\ turn'.at = "end" /\ turn'.no = turn.no
      /\ turn'.from = turn.from /\ turn'.round = turn.round /\ turn'.todo = turn.todo
  BY <1>1, <1>2 DEF TurnState
<1>4. PICK m \in Msg : m = Reply(TRUE, {}) /\ m.turn = turn.no /\ Shown(m) = Text
  BY <1>1, ReplyMessage
<1>5. \E S : /\ events' = events \cup S
             /\ view' = IF panel.at = "follow" THEN view \cup S ELSE view
             /\ \/ msgs' = msgs
                \/ msgs' = Append(msgs, m) /\ S = Text
             /\ \A e \in S : e[1] # "user"
  <2>0. \A e \in Text : e[1] # "user"
    BY DEF Text
  <2>1. CASE msgs' = Append(msgs, Reply(TRUE, {})) /\ Emit(Text)
    BY <1>4, <2>0, <2>1 DEF Emit
  <2>2. CASE NoEmit /\ UNCHANGED msgs
    <3>1. PICK S : S = {}
      OBVIOUS
    <3>2. events' = events \cup S /\ view' = IF panel.at = "follow" THEN view \cup S ELSE view
      BY <2>2, <3>1 DEF NoEmit
    <3>3. \A e \in S : e[1] # "user"
      BY <3>1
    <3>4. QED
      BY <2>2, <3>2, <3>3
  <2>3. QED
    BY <2>1, <2>2 DEF TurnCut
<1>6. TalkOK'
  <2>1. \/ msgs' = msgs
        \/ \E x \in Msg : msgs' = Append(msgs, x) /\ x.turn = turn.no
    BY <1>4, <1>5
  <2>2. QED
    BY <1>1, <1>2, <1>3, <2>1, TurnOK DEF TalkOK, Running
<1>7. EventsTell' /\ Following' /\ FollowedWhole'
  <2>1. PICK S : /\ events' = events \cup S
                 /\ view' = IF panel.at = "follow" THEN view \cup S ELSE view
                 /\ \/ msgs' = msgs
                    \/ msgs' = Append(msgs, m) /\ S = Text
                 /\ \A e \in S : e[1] # "user"
    BY <1>5
  <2>2. \/ msgs' = msgs
        \/ \E x \in Msg : /\ msgs' = Append(msgs, x) /\ x.turn = turn.no
                          /\ Shown(x) \subseteq events \cup S
    BY <1>4, <2>1
  <2>3. QED
    BY <1>1, <1>2, <1>3, <2>1, <2>2, TurnStep DEF Running
<1>8. QED
  BY <1>6, <1>7 DEF Talk

\* The calls of a turn that are left, without the first.
LEMMA OneLess ==
  ASSUME TalkOK, turn.todo # <<>>
  PROVE  /\ Tail(turn.todo) \in Seq(Nat) /\ Head(turn.todo) \in Nat
         /\ \A k \in 1..Len(Tail(turn.todo)) : Tail(turn.todo)[k] \in 1..MaxCalls + calls
<1>1. /\ turn.todo \in Seq(Nat) /\ calls \in Nat
      /\ \A k \in 1..Len(turn.todo) : turn.todo[k] \in 1..MaxCalls + calls
  BY InTheTalk DEF TalkOK
<1>2. PICK s \in Seq(Nat) : s = turn.todo
  BY <1>1
<1>3. s # <<>>
  BY <1>2
<1>4. /\ Head(s) \in Nat /\ Tail(s) \in Seq(Nat) /\ Len(Tail(s)) = Len(s) - 1
      /\ Len(s) \in Nat /\ \A i \in 1..Len(Tail(s)) : Tail(s)[i] = s[i + 1]
  BY <1>3, HeadTailProperties, LenProperties
<1>5. ASSUME NEW k \in 1..Len(Tail(s))
      PROVE  Tail(s)[k] \in 1..MaxCalls + calls
  <2>1. k + 1 \in 1..Len(s)
    BY <1>4
  <2>2. s[k + 1] \in 1..MaxCalls + calls
    BY <1>1, <1>2, <2>1
  <2>3. QED
    BY <1>4, <2>2
<1>6. QED
  BY <1>2, <1>4, <1>5

\* The reply is stored with what was shown of it.
LEMMA TurnSaveTalks ==
  ASSUME Talk, TurnSave
  PROVE  Talk'
<1>1. /\ TalkOK /\ turn \in TurnState /\ turn.at = "save" /\ EventsTell /\ turn.todo \in Seq(Nat)
      /\ turn.text \in BOOLEAN
  BY InTheTalk DEF Talk, TalkOK, TurnSave, TurnState
<1>2. PICK at \in {"end", "tool", "refuse"} : turn' = [turn EXCEPT !.at = at]
  BY DEF TurnSave, To
<1>3. /\ UNCHANGED <<calls, turns, panel, events, view>>
      /\ msgs' = Append(msgs, Reply(turn.text, Range(turn.todo)))
  BY DEF TurnSave, NoEmit
<1>4. /\ turn' \in TurnState /\ turn'.at = at /\ turn'.no = turn.no
      /\ turn'.from = turn.from /\ turn'.round = turn.round /\ turn'.todo = turn.todo
  BY <1>1, <1>2 DEF TurnState
<1>5. Range(turn.todo) \in SUBSET Nat
  <2>1. PICK s \in Seq(Nat) : s = turn.todo
    BY <1>1
  <2>2. \A i \in DOMAIN s : s[i] \in Nat
    BY ElementOfSeq, LenProperties
  <2>3. QED
    BY <2>1, <2>2 DEF Range
<1>6. PICK m \in Msg : /\ m = Reply(turn.text, Range(turn.todo)) /\ m.turn = turn.no
                       /\ Shown(m) = IF turn.text THEN Text ELSE {}
  BY <1>1, <1>5, ReplyMessage
<1>7. Shown(m) \subseteq events
  BY <1>1, <1>6 DEF EventsTell
<1>8. TalkOK'
  BY <1>1, <1>2, <1>3, <1>4, <1>6, TurnOK DEF TalkOK, Running
<1>9. EventsTell' /\ Following' /\ FollowedWhole'
  <2>1. \E x \in Msg : /\ msgs' = Append(msgs, x) /\ x.turn = turn.no
                       /\ Shown(x) \subseteq events
    BY <1>3, <1>6, <1>7
  <2>2. turn'.at # "save" /\ turn'.at # "none"
    BY <1>4
  <2>3. QED
    BY <1>1, <1>3, <1>4, <2>1, <2>2, SilentStep DEF Running
<1>10. QED
  BY <1>8, <1>9 DEF Talk

\* A refused call is answered, which shows nothing.
LEMMA TurnRefuseTalks ==
  ASSUME Talk, TurnRefuse
  PROVE  Talk'
<1>1. /\ TalkOK /\ turn \in TurnState /\ turn.at = "refuse" /\ turn.todo \in Seq(Nat)
  BY InTheTalk DEF Talk, TalkOK, TurnRefuse
<1>2. UNCHANGED <<calls, turns, panel, events, view>>
  BY DEF TurnRefuse, NoEmit
<1>3. CASE turn.todo = <<>>
  <2>1. turn' = [turn EXCEPT !.at = "end"] /\ msgs' = msgs
    BY <1>3 DEF TurnRefuse, To
  <2>2. /\ turn' \in TurnState /\ turn'.at = "end" /\ turn'.no = turn.no
        /\ turn'.from = turn.from /\ turn'.round = turn.round /\ turn'.todo = turn.todo
    BY <1>1, <2>1 DEF TurnState
  <2>3. TalkOK'
    BY <1>1, <1>2, <2>1, <2>2, TurnOK DEF TalkOK, Running
  <2>4. EventsTell' /\ Following' /\ FollowedWhole'
    BY <1>1, <1>2, <2>1, <2>2, SilentStep DEF Running
  <2>5. QED
    BY <2>3, <2>4 DEF Talk
<1>4. CASE turn.todo # <<>>
  <2>1. PICK c \in Nat, rest \in Seq(Nat) :
           /\ c = Head(turn.todo) /\ rest = Tail(turn.todo)
           /\ \A k \in 1..Len(rest) : rest[k] \in 1..MaxCalls + calls
    BY <1>1, <1>4, OneLess
  <2>2. turn' = [turn EXCEPT !.todo = rest] /\ msgs' = Append(msgs, Answer(c, 0))
    BY <1>4, <2>1 DEF TurnRefuse
  <2>3. /\ turn' \in TurnState /\ turn'.at = "refuse" /\ turn'.no = turn.no
        /\ turn'.from = turn.from /\ turn'.round = turn.round /\ turn'.todo = rest
    BY <1>1, <2>2 DEF TurnState
  <2>4. PICK m \in Msg : m = Answer(c, 0) /\ m.turn = turn.no /\ Shown(m) = {}
    BY <1>1, AnswerMessage
  <2>5. TalkOK'
    BY <1>1, <1>2, <2>1, <2>2, <2>3, <2>4, TurnOK DEF TalkOK, Running
  <2>6. EventsTell' /\ Following' /\ FollowedWhole'
    BY <1>1, <1>2, <2>2, <2>3, <2>4, SilentStep DEF Running
  <2>7. QED
    BY <2>5, <2>6 DEF Talk
<1>5. QED
  BY <1>3, <1>4

\* A result is stored, and the request it made is shown.
LEMMA TurnResultTalks ==
  ASSUME Talk, TurnResult
  PROVE  Talk'
<1>1. /\ TalkOK /\ turn \in TurnState /\ turn.at = "result" /\ turn.todo \in Seq(Nat)
      /\ turn.asked \in Nat /\ turn.todo # <<>>
  BY InTheTalk DEF Talk, TalkOK, TurnResult
<1>2. PICK S : S = IF turn.asked # 0 THEN {<<"request", turn.no, turn.asked>>} ELSE {}
  OBVIOUS
<1>3. /\ UNCHANGED <<calls, turns, panel>>
      /\ events' = events \cup S /\ view' = IF panel.at = "follow" THEN view \cup S ELSE view
  BY <1>2 DEF TurnResult, Emit
<1>4. PICK c \in Nat, rest \in Seq(Nat) :
         /\ c = Head(turn.todo) /\ rest = Tail(turn.todo)
         /\ \A k \in 1..Len(rest) : rest[k] \in 1..MaxCalls + calls
  BY <1>1, OneLess
<1>5. /\ turn' = [turn EXCEPT !.at = "tool", !.todo = rest, !.asked = 0]
      /\ msgs' = Append(msgs, Answer(c, turn.asked))
  BY <1>4 DEF TurnResult
<1>6. /\ turn' \in TurnState /\ turn'.at = "tool" /\ turn'.no = turn.no
      /\ turn'.from = turn.from /\ turn'.round = turn.round /\ turn'.todo = rest
  BY <1>1, <1>5 DEF TurnState
<1>7. PICK m \in Msg : m = Answer(c, turn.asked) /\ m.turn = turn.no /\ Shown(m) = S
  BY <1>1, <1>2, AnswerMessage
<1>8. TalkOK'
  BY <1>1, <1>3, <1>4, <1>5, <1>6, <1>7, TurnOK DEF TalkOK, Running
<1>9. EventsTell' /\ Following' /\ FollowedWhole'
  <2>1. \A e \in S : e[1] # "user"
    BY <1>2
  <2>2. QED
    BY <1>1, <1>3, <1>5, <1>6, <1>7, <2>1, TurnStep DEF Running
<1>10. QED
  BY <1>8, <1>9 DEF Talk

LEMMA NoneRuns ==
  /\ NoTurn \in TurnState /\ NoTurn.at = "none" /\ NoTurn.no = 0 /\ NoTurn.from = 0
  /\ NoTurn.round = 0 /\ Len(NoTurn.todo) = 0
BY EmptySeq DEF NoTurn, TurnState

\* The turn is over: whoever followed it was told all of it.
LEMMA TurnEndTalks ==
  ASSUME Talk, TurnEnd
  PROVE  Talk'
<1>1. /\ TalkOK /\ Following /\ FollowedWhole /\ turn.at = "end"
      /\ panel \in PanelState /\ msgs \in Seq(Msg) /\ turns \in Nat
  BY DEF Talk, TalkOK, TurnEnd
<1>2. /\ turn' = NoTurn /\ events' = {} /\ UNCHANGED <<msgs, calls, turns, view>>
      /\ panel' = IF panel.at = "follow" THEN [panel EXCEPT !.at = "shown"] ELSE panel
  BY DEF TurnEnd
<1>3. /\ panel' \in PanelState /\ panel'.turn = panel.turn /\ panel'.lost = panel.lost
      /\ panel'.upto = panel.upto /\ panel'.sent = panel.sent
      /\ panel'.at = IF panel.at = "follow" THEN "shown" ELSE panel.at
  <2>1. CASE panel.at = "follow"
    BY <1>1, <1>2, <2>1 DEF PanelState
  <2>2. CASE panel.at # "follow"
    BY <1>1, <1>2, <2>2
  <2>3. QED
    BY <2>1, <2>2
<1>4. /\ turn' \in TurnState /\ turn'.at = "none" /\ turn'.no = 0 /\ turn'.from = 0
      /\ turn'.round = 0 /\ Len(turn'.todo) = 0
  BY <1>2, NoneRuns
<1>5. Len(msgs) \in Nat /\ MaxRounds \in Nat \ {0}
  BY <1>1, InTheTalk, Rounds
<1>6. TalkOK'
  BY <1>1, <1>2, <1>3, <1>4, <1>5 DEF TalkOK, Running
<1>7. EventsTell'
  BY <1>2, <1>4 DEF EventsTell, Running
<1>8. Following'
  BY <1>1, <1>3, <1>4 DEF Following, Running
<1>9. FollowedWhole'
  BY <1>1, <1>2, <1>3 DEF FollowedWhole
<1>10. QED
  BY <1>6, <1>7, <1>8, <1>9 DEF Talk

\* A turn starts: nothing is stored or shown of it yet.
LEMMA Starts ==
  ASSUME Talk, NEW new \in BOOLEAN, Start(new), UNCHANGED msgs
  PROVE  /\ turn' \in TurnState /\ turn'.at \in {"user", "history"} /\ turn'.no = turns + 1
         /\ turn'.from = Len(msgs) /\ turn'.round = 0 /\ Len(turn'.todo) = 0
         /\ turns' = turns + 1 /\ turns + 1 \in Nat /\ turns \in Nat /\ Len(msgs) \in Nat
         /\ events' = {} /\ EventsTell'
         /\ \A i \in 1..Len(msgs) : msgs[i].turn # turns + 1 /\ msgs[i].turn <= turns + 1
<1>1. /\ turns \in Nat /\ turns + 1 \in Nat /\ Len(msgs) \in Nat
      /\ \A i \in 1..Len(msgs) : msgs[i] \in Msg /\ msgs[i].turn <= turns
  BY InTheTalk DEF Talk, TalkOK
<1>2. PICK at \in {"user", "history"} :
         turn' = [NoTurn EXCEPT !.at = at, !.no = turns + 1, !.from = Len(msgs)]
  <2>1. PICK at \in {"user", "history"} : at = IF new THEN "user" ELSE "history"
    OBVIOUS
  <2>2. QED
    BY <2>1 DEF Start
<1>3. /\ turn' \in TurnState /\ turn'.at = at /\ turn'.no = turns + 1
      /\ turn'.from = Len(msgs) /\ turn'.round = 0 /\ Len(turn'.todo) = 0
  <2>1. PICK n \in Nat, from \in Nat : n = turns + 1 /\ from = Len(msgs)
    BY <1>1
  <2>2. PICK s : s = [NoTurn EXCEPT !.at = at, !.no = n, !.from = from]
    OBVIOUS
  <2>3. /\ s \in TurnState /\ s.at = at /\ s.no = n /\ s.from = from /\ s.round = 0
        /\ Len(s.todo) = 0
    BY <2>2, EmptySeq DEF NoTurn, TurnState
  <2>4. turn' = s
    BY <1>2, <2>1, <2>2
  <2>5. QED
    BY <2>1, <2>3, <2>4
<1>4. turns' = turns + 1 /\ events' = {}
  BY DEF Start
<1>5. \A i \in 1..Len(msgs) : msgs[i].turn # turns + 1 /\ msgs[i].turn <= turns + 1
  <2>1. \A i \in 1..Len(msgs) : msgs[i].turn \in Nat
    BY <1>1 DEF Msg
  <2>2. QED
    BY <1>1, <2>1
<1>6. EventsTell'
  BY <1>3, <1>4, <1>5 DEF EventsTell
<1>7. QED
  BY <1>1, <1>3, <1>4, <1>5, <1>6

\* Where only the chat's or another part's state moves, the turn is as it was.
LEMMA PanelStep ==
  ASSUME Talk, UNCHANGED <<msgs, calls, turn, turns, events>>, panel' \in PanelState,
         panel'.turn <= turns, panel'.lost <= turns, panel'.sent <= Unsent,
         panel'.upto <= Len(msgs)
  PROVE  TalkOK' /\ EventsTell'
<1>1. TalkOK'
  BY DEF Talk, TalkOK, Running
<1>2. EventsTell'
  BY DEF Talk, EventsTell, Running, Text
<1>3. QED
  BY <1>1, <1>2

\* The decision noted belongs to no turn.
LEMMA NoteTalks ==
  ASSUME Talk, NEW t \in Tabs, Note(t)
  PROVE  Talk'
<1>1. /\ TalkOK /\ EventsTell /\ Following /\ FollowedWhole /\ turn.no \in Nat
      /\ turn \in TurnState /\ panel \in PanelState /\ turns \in Nat
  BY InTheTalk DEF Talk, TalkOK
<1>2. PICK m \in Msg : m = Message("event") /\ m.turn = 0 /\ Shown(m) = {}
  BY NoteMessage
<1>3. msgs' = Append(msgs, m) /\ UNCHANGED <<calls, turn, turns, events, panel, view>>
  BY <1>2 DEF Note, notTurn, chat
<1>4. /\ msgs' \in Seq(Msg) /\ Len(msgs') = Len(msgs) + 1 /\ Len(msgs) \in Nat
      /\ DOMAIN msgs = 1..Len(msgs) /\ DOMAIN msgs' = 1..Len(msgs) + 1
      /\ \A i \in 1..Len(msgs) : msgs'[i] = msgs[i]
      /\ msgs'[Len(msgs) + 1] = m
      /\ \A i \in 1..Len(msgs) + 1 : i \in 1..Len(msgs) \/ i = Len(msgs) + 1
  BY <1>1, <1>3, Said
<1>5. TalkOK'
  <2>1. \A i \in 1..Len(msgs') : msgs'[i].turn <= turns
    BY <1>1, <1>2, <1>4 DEF TalkOK
  <2>2. turn.from <= Len(msgs') /\ panel.upto <= Len(msgs')
    BY <1>1, <1>4 DEF TalkOK, TurnState, PanelState
  <2>3. QED
    BY <1>1, <1>3, <1>4, <2>1, <2>2 DEF TalkOK, Running
<1>6. EventsTell'
  <2>1. ASSUME Running, NEW i \in 1..Len(msgs'), msgs'[i].turn = turn.no
        PROVE  Shown(msgs'[i]) \subseteq events
    BY <1>1, <1>2, <1>4, <2>1 DEF EventsTell
  <2>2. QED
    BY <1>1, <1>3, <2>1 DEF EventsTell, Running, Text
<1>7. Following'
  BY <1>1, <1>3 DEF Following, Running, Missing
<1>8. FollowedWhole'
  BY <1>1, <1>2, <1>3, <1>4 DEF FollowedWhole
<1>9. QED
  BY <1>5, <1>6, <1>7, <1>8 DEF Talk

\* A turn that the chat does not follow starts.
LEMMA StartsElsewhere ==
  ASSUME Talk, NEW new \in BOOLEAN, ~Running, Start(new), UNCHANGED <<msgs, calls, panel, view>>
  PROVE  Talk'
<1>1. /\ turn' \in TurnState /\ turn'.at \in {"user", "history"} /\ turn'.no = turns + 1
      /\ turn'.from = Len(msgs) /\ turn'.round = 0 /\ Len(turn'.todo) = 0
      /\ turns' = turns + 1 /\ turns + 1 \in Nat /\ turns \in Nat /\ Len(msgs) \in Nat
      /\ events' = {} /\ EventsTell'
      /\ \A i \in 1..Len(msgs) : msgs[i].turn # turns + 1 /\ msgs[i].turn <= turns + 1
  BY Starts
<1>2. TalkOK /\ Following /\ FollowedWhole /\ panel \in PanelState /\ panel.turn <= turns
      /\ panel.lost <= turns
  BY DEF Talk, TalkOK
<1>3. panel.turn \in Nat /\ panel.lost \in Nat /\ panel.turn # turns + 1
      /\ panel.turn <= turns + 1 /\ panel.lost <= turns + 1
  BY <1>1, <1>2 DEF PanelState
<1>4. TalkOK'
  BY <1>1, <1>2, <1>3, Rounds DEF TalkOK
<1>5. Following'
  BY <1>1, <1>2, <1>3 DEF Following
<1>6. FollowedWhole'
  BY <1>2 DEF FollowedWhole
<1>7. QED
  BY <1>1, <1>4, <1>5, <1>6 DEF Talk

\* The decision noted may start one, and so may another tab.
LEMMA GoOnTalks ==
  ASSUME Talk, NEW t \in Tabs, GoOn(t)
  PROVE  Talk'
<1>1. UNCHANGED <<msgs, calls, panel, view>>
  BY DEF GoOn, chat
<1>2. CASE ~Running /\ Start(FALSE)
  BY <1>1, <1>2, StartsElsewhere
<1>3. CASE UNCHANGED <<turn, turns, events>>
  BY <1>1, <1>3 DEF Talk, TalkOK, EventsTell, Following, FollowedWhole, Running, Text, Missing
<1>4. QED
  BY <1>2, <1>3 DEF GoOn

LEMMA SendElsewhereTalks ==
  ASSUME Talk, SendElsewhere
  PROVE  Talk'
BY StartsElsewhere DEF SendElsewhere

\* A conversation that is opened follows nothing yet.
LEMMA Views ==
  ASSUME NEW at \in {"read", "answer", "join", "follow", "shown"}, panel \in PanelState
  PROVE  /\ ViewOf(at) \in PanelState /\ ViewOf(at).at = at /\ ViewOf(at).turn = 0
         /\ ViewOf(at).sent = panel.sent /\ ViewOf(at).lost = 0 /\ ViewOf(at).upto = 0
BY DEF ViewOf, PanelState

LEMMA OpenTalks ==
  ASSUME Talk, Open \/ OpenRead \/ OpenAnswer
  PROVE  Talk'
<1>1. UNCHANGED <<msgs, calls, turn, turns, events>>
  BY DEF Open, OpenRead, OpenAnswer
<1>2. /\ TalkOK /\ Following /\ panel \in PanelState /\ turn.no \in Nat /\ turns \in Nat
      /\ turn.no <= turns /\ Len(msgs) \in Nat /\ panel.sent <= Unsent
  BY InTheTalk DEF Talk, TalkOK
<1>3. /\ panel' \in PanelState /\ panel'.turn = 0 /\ panel'.lost <= turns
      /\ panel'.sent <= Unsent /\ panel'.upto <= Len(msgs) /\ panel'.at \in {"read", "answer", "join", "shown"}
      /\ panel'.at = "shown" => ~Running
  <2>1. CASE Open
    BY <1>2, <2>1, Views DEF Open
  <2>2. CASE OpenRead
    <3>1. panel.at = "read" /\ panel' = [panel EXCEPT !.at = "answer", !.upto = Len(msgs)]
      BY <2>2 DEF OpenRead
    <3>2. /\ panel' \in PanelState /\ panel'.turn = panel.turn /\ panel'.lost = panel.lost
          /\ panel'.sent = panel.sent /\ panel'.upto = Len(msgs) /\ panel'.at = "answer"
      BY <1>2, <3>1 DEF PanelState
    <3>3. QED
      BY <1>2, <3>1, <3>2 DEF TalkOK, Following
  <2>3. CASE OpenAnswer
    <3>1. CASE Running
      <4>1. panel' = ViewOf("join")
        BY <2>3, <3>1 DEF OpenAnswer
      <4>2. QED
        BY <1>2, <4>1, Views
    <3>2. CASE ~Running
      <4>1. panel' = ViewOf("shown")
        BY <2>3, <3>2 DEF OpenAnswer
      <4>2. QED
        BY <1>2, <3>2, <4>1, Views
    <3>3. QED
      BY <3>1, <3>2
  <2>4. QED
    BY <2>1, <2>2, <2>3
<1>4. TalkOK' /\ EventsTell'
  BY <1>1, <1>2, <1>3, PanelStep
<1>5. Following'
  BY <1>1, <1>3 DEF Following, Running
<1>6. FollowedWhole'
  BY <1>3 DEF FollowedWhole
<1>7. QED
  BY <1>4, <1>5, <1>6 DEF Talk

\* Who joins a turn is told what it told before, all of what it stored.
LEMMA FollowTalks ==
  ASSUME Talk, Follow
  PROVE  Talk'
<1>1. UNCHANGED <<msgs, calls, turn, turns, events>> /\ panel.at = "join"
  BY DEF Follow
<1>2. /\ TalkOK /\ EventsTell /\ Following /\ FollowedWhole /\ panel \in PanelState
      /\ turn.no \in Nat /\ turns \in Nat /\ turn.no <= turns /\ panel.turn = 0
      /\ panel.lost <= turns /\ panel.sent <= Unsent /\ panel.upto <= Len(msgs)
      /\ DOMAIN msgs = 1..Len(msgs)
  BY <1>1, InTheTalk DEF Talk, TalkOK, Following
<1>3. CASE Running
  <2>1. PICK now : now = [panel EXCEPT !.at = "follow", !.turn = turn.no]
    OBVIOUS
  <2>2. /\ now \in PanelState /\ now.turn = turn.no /\ now.lost = panel.lost
        /\ now.sent = panel.sent /\ now.upto = panel.upto /\ now.at = "follow"
    BY <1>2, <2>1 DEF PanelState
  <2>3. Hear(events, now)
    BY <1>3, <2>1 DEF Follow
  <2>4. \A e \in events : e[1] = "user" => e = <<"user", turn.no, 0>>
    BY <1>2 DEF EventsTell
  <2>5. /\ panel' \in PanelState /\ panel'.at = "follow" /\ panel'.turn = turn.no
        /\ panel'.upto = panel.upto /\ panel'.sent <= Unsent /\ panel'.lost <= turns
        /\ events \subseteq view' \cup Missing'
    BY <1>2, <2>2, <2>3, <2>4, Heard
  <2>6. TalkOK' /\ EventsTell'
    BY <1>1, <1>2, <2>5, PanelStep
  <2>7. Following'
    BY <1>1, <1>3, <2>5 DEF Following, Running
  <2>8. \A i \in DOMAIN msgs : msgs[i].turn = turn.no => Shown(msgs[i]) \subseteq events
    BY <1>2, <1>3 DEF EventsTell
  <2>9. FollowedWhole'
    BY <1>1, <2>5, <2>8 DEF FollowedWhole, Missing
  <2>10. QED
    BY <2>6, <2>7, <2>9 DEF Talk
<1>4. CASE ~Running
  <2>1. panel' = [panel EXCEPT !.at = "shown"] /\ view' = view
    BY <1>4 DEF Follow
  <2>2. /\ panel' \in PanelState /\ panel'.turn = panel.turn /\ panel'.lost = panel.lost
        /\ panel'.sent = panel.sent /\ panel'.upto = panel.upto /\ panel'.at = "shown"
    BY <1>2, <2>1 DEF PanelState
  <2>3. TalkOK' /\ EventsTell'
    BY <1>1, <1>2, <2>2, PanelStep
  <2>4. Following' /\ FollowedWhole'
    BY <1>1, <1>2, <1>4, <2>2 DEF Following, Running, FollowedWhole
  <2>5. QED
    BY <2>3, <2>4 DEF Talk
<1>5. QED
  BY <1>3, <1>4

\* The turn of a message that is sent is followed from its start.
LEMMA SendTalks ==
  ASSUME Talk, Send
  PROVE  Talk'
<1>1. /\ UNCHANGED <<msgs, calls>> /\ Start(TRUE) /\ view \subseteq view' /\ turns < MaxTurns
      /\ panel' = [panel EXCEPT !.at = "follow", !.turn = turns + 1, !.sent = turns + 1,
                                !.lost = 0]
  BY DEF Send, Start
<1>2. /\ turn' \in TurnState /\ turn'.at \in {"user", "history"} /\ turn'.no = turns + 1
      /\ turn'.from = Len(msgs) /\ turn'.round = 0 /\ Len(turn'.todo) = 0
      /\ turns' = turns + 1 /\ turns + 1 \in Nat /\ turns \in Nat /\ Len(msgs) \in Nat
      /\ events' = {} /\ EventsTell'
      /\ \A i \in 1..Len(msgs) : msgs[i].turn # turns + 1 /\ msgs[i].turn <= turns + 1
  BY <1>1, Starts
<1>3. TalkOK /\ panel \in PanelState /\ panel.upto <= Len(msgs) /\ DOMAIN msgs = 1..Len(msgs)
  BY InTheTalk DEF Talk, TalkOK
<1>4. /\ panel' \in PanelState /\ panel'.turn = turns + 1 /\ panel'.lost = 0
      /\ panel'.sent = turns + 1 /\ panel'.upto = panel.upto /\ panel'.at = "follow"
  BY <1>1, <1>2, <1>3 DEF PanelState
<1>9. turns + 1 <= Unsent
  BY <1>1, <1>2, AssistantAssumption DEF Unsent
<1>5. TalkOK'
  BY <1>1, <1>2, <1>3, <1>4, <1>9, Rounds DEF TalkOK
<1>6. Following'
  BY <1>1, <1>2, <1>4 DEF Following, Running
<1>7. FollowedWhole'
  BY <1>1, <1>2, <1>3, <1>4 DEF FollowedWhole
<1>8. QED
  BY <1>2, <1>5, <1>6, <1>7 DEF Talk

\* A message that starts no turn is shown, and remembered.
LEMMA SendFailsTalks ==
  ASSUME Talk, SendFails
  PROVE  Talk'
<1>1. /\ UNCHANGED <<msgs, calls, turn, turns, events, view>>
      /\ panel' = [panel EXCEPT !.sent = Unsent]
  BY DEF SendFails
<1>2. /\ TalkOK /\ Following /\ FollowedWhole /\ panel \in PanelState /\ Unsent \in Nat
      /\ panel.turn <= turns /\ panel.lost <= turns /\ panel.upto <= Len(msgs)
  BY Rounds DEF Talk, TalkOK
<1>3. /\ panel' \in PanelState /\ panel'.turn = panel.turn /\ panel'.lost = panel.lost
      /\ panel'.sent = Unsent /\ panel'.upto = panel.upto /\ panel'.at = panel.at
  BY <1>1, <1>2 DEF PanelState
<1>4. TalkOK' /\ EventsTell'
  BY <1>1, <1>2, <1>3, PanelStep
<1>5. Following' /\ FollowedWhole'
  BY <1>1, <1>2, <1>3 DEF Following, Running, FollowedWhole, Missing
<1>6. QED
  BY <1>4, <1>5 DEF Talk

\* A turn the backend lost is followed by nobody.
LEMMA CrashTalks ==
  ASSUME Talk, Crash
  PROVE  Talk'
<1>1. /\ UNCHANGED <<msgs, calls, turns, view>> /\ turn' = NoTurn /\ events' = {}
      /\ panel' = ViewOf("shown")
  BY DEF Crash
<1>2. /\ TalkOK /\ turns \in Nat /\ Len(msgs) \in Nat /\ MaxRounds \in Nat \ {0}
      /\ panel \in PanelState /\ panel.sent <= Unsent
  BY InTheTalk, Rounds DEF Talk, TalkOK
<1>3. /\ turn' \in TurnState /\ turn'.at = "none" /\ turn'.no = 0 /\ turn'.from = 0
      /\ turn'.round = 0 /\ Len(turn'.todo) = 0
  BY <1>1, NoneRuns
<1>4. /\ panel' \in PanelState /\ panel'.at = "shown" /\ panel'.turn = 0 /\ panel'.lost = 0
      /\ panel'.upto = 0 /\ panel'.sent = panel.sent
  BY <1>1, <1>2, Views
<1>5. TalkOK'
  BY <1>1, <1>2, <1>3, <1>4 DEF TalkOK, Running
<1>6. QED
  BY <1>1, <1>3, <1>4, <1>5 DEF Talk, EventsTell, Following, FollowedWhole, Running

LEMMA TalkQuiet ==
  ASSUME Talk, UNCHANGED talk
  PROVE  Talk'
BY DEF talk, Talk, TalkOK, EventsTell, Following, FollowedWhole, Running, Text, Missing

\* What is decided leaves the conversation as it is until it is noted.
LEMMA Elsewhere ==
  /\ TurnOff \/ List => UNCHANGED talk
  /\ \A a \in DOMAIN acts, t \in Tabs : Approve(t, a) \/ Reject(t, a) => UNCHANGED talk
  /\ \A a \in DOMAIN acts : Age(a) => UNCHANGED talk
  /\ \A t \in Tabs : Allow(t) \/ DropAct(t) \/ Claim(t) \/ Run(t) \/ Record(t) => UNCHANGED talk
<1>1. TurnOff \/ List => UNCHANGED talk
  BY DEF TurnOff, List, talk, notTurn, chat
<1>2. \A a \in DOMAIN acts, t \in Tabs : Approve(t, a) \/ Reject(t, a) => UNCHANGED talk
  BY DEF Approve, Reject, talk, notTurn, chat
<1>3. \A a \in DOMAIN acts : Age(a) => UNCHANGED talk
  BY DEF Age, talk, notTurn, chat
<1>4. \A t \in Tabs : Allow(t) \/ DropAct(t) \/ Claim(t) => UNCHANGED talk
  BY DEF Allow, DropAct, Claim, talk, notTurn, chat
<1>5. \A t \in Tabs : Run(t) \/ Record(t) => UNCHANGED talk
  BY DEF Run, Record, talk, notTurn, chat
<1>6. QED
  BY <1>1, <1>2, <1>3, <1>4, <1>5

LEMMA InitTalks == Init => Talk
<1>1. SUFFICES ASSUME Init PROVE Talk
  OBVIOUS
<1>2. /\ msgs = <<>> /\ calls = 0 /\ turn = NoTurn /\ turns = 0 /\ events = {}
      /\ panel = [at |-> "shown", turn |-> 0, upto |-> 0, sent |-> 0, lost |-> 0]
  BY <1>1 DEF Init
<1>3. /\ turn \in TurnState /\ turn.at = "none" /\ turn.no = 0 /\ turn.from = 0
      /\ turn.round = 0 /\ Len(turn.todo) = 0
  BY <1>2, NoneRuns
<1>4. /\ panel \in PanelState /\ panel.at = "shown" /\ panel.turn = 0 /\ panel.lost = 0
      /\ panel.upto = 0 /\ panel.sent = 0
  BY <1>2 DEF PanelState
<1>5. msgs \in Seq(Msg) /\ Len(msgs) = 0 /\ MaxRounds \in Nat \ {0} /\ Unsent \in Nat
  BY <1>2, EmptySeq, Rounds
<1>6. TalkOK
  BY <1>2, <1>3, <1>4, <1>5 DEF TalkOK, Running
<1>7. QED
  BY <1>2, <1>3, <1>4, <1>6 DEF Talk, EventsTell, Following, FollowedWhole, Running

LEMMA NextTalks ==
  ASSUME Talk, [Next]_vars, acts \in Seq(Request)
  PROVE  Talk'
<1>1. CASE Turn
  BY <1>1, TurnUserTalks, TurnGoes, TurnReplyTalks, TurnCutTalks, TurnSaveTalks,
     TurnRefuseTalks, TurnResultTalks, TurnEndTalks DEF Turn
<1>2. CASE Stop \/ Chat \/ Open \/ Send \/ SendFails \/ SendElsewhere \/ Crash
  BY <1>2, TurnGoes, OpenTalks, FollowTalks, SendTalks, SendFailsTalks, SendElsewhereTalks,
     CrashTalks DEF Chat
<1>3. CASE List \/ TurnOff
  BY <1>3, Elsewhere, TalkQuiet
<1>4. ASSUME NEW a \in DOMAIN acts, Age(a) \/ \E t \in Tabs : Approve(t, a) \/ Reject(t, a)
      PROVE  Talk'
  BY <1>4, Elsewhere, TalkQuiet
<1>5. ASSUME NEW t \in Tabs, Decide(t)
      PROVE  Talk'
  BY <1>5, Elsewhere, TalkQuiet, NoteTalks, GoOnTalks DEF Decide
<1>6. CASE UNCHANGED vars
  BY <1>6, TalkQuiet DEF vars, talk
<1>7. QED
  BY <1>1, <1>2, <1>3, <1>4, <1>5, <1>6 DEF Next

----------------------------------------------------------------------------
(* Types and bounds *)

\* What the account's switch, the requests and the free hands are, besides IInv.
Bounded ==
    /\ may \in BOOLEAN /\ Len(acts) <= MaxActs
    /\ \A t \in Tabs : hand[t].at = "idle" => hand[t].act = 0

\* Requests that are rewritten in place are as many.
LEMMA AsMany ==
  ASSUME IInv, IInv', DOMAIN acts' = DOMAIN acts
  PROVE  Len(acts') = Len(acts)
<1>1. /\ Len(acts) \in Nat /\ Len(acts') \in Nat
      /\ DOMAIN acts = 1..Len(acts) /\ DOMAIN acts' = 1..Len(acts')
  BY LenProperties DEF IInv, Formed
<1>2. PICK m \in Nat, n \in Nat : m = Len(acts) /\ n = Len(acts')
  BY <1>1
<1>3. 1..m = 1..n
  BY <1>1, <1>2
<1>4. m = n
  BY <1>3
<1>5. QED
  BY <1>2, <1>4

\* No step makes more requests than the bound allows, or leaves a free hand on a request.
LEMMA NextBounded ==
  ASSUME IInv, Bounded, [Next]_vars
  PROVE  Bounded'
<1>1. IInv' /\ hand \in [Tabs -> HandState] /\ MaxActs \in Nat /\ Len(acts) \in Nat
  BY NextKeeps, Parts, AssistantAssumption DEF IInv, Formed
<1>2. CASE UNCHANGED <<acts, hand, may>>
  BY <1>2 DEF Bounded
<1>3. CASE TurnTool
  <2>1. /\ may' = may /\ hand' = hand
        /\ \/ acts' = acts
           \/ acts' = Append(acts, NewAct) /\ Len(acts) < MaxActs
    BY <1>3 DEF TurnTool
  <2>2. \/ Len(acts') = Len(acts)
        \/ Len(acts') = Len(acts) + 1 /\ Len(acts) < MaxActs
    <3>1. acts \in Seq(Request) /\ NewAct \in Request
      BY DEF IInv, Formed, NewAct, Request
    <3>2. PICK r \in Request : r = NewAct
      BY <3>1
    <3>3. PICK s : s = Append(acts, r)
      OBVIOUS
    <3>4. Len(s) = Len(acts) + 1
      BY <3>1, <3>3, AppendProperties
    <3>5. \/ acts' = acts
          \/ acts' = s /\ Len(acts) < MaxActs
      BY <2>1, <3>2, <3>3
    <3>6. QED
      BY <3>4, <3>5
  <2>3. Len(acts') <= MaxActs
    BY <1>1, <2>2 DEF Bounded
  <2>4. QED
    BY <2>1, <2>3 DEF Bounded
<1>4. CASE /\ DOMAIN acts' = DOMAIN acts /\ may' \in BOOLEAN
           /\ \/ hand' = hand \/ hand' = [t \in Tabs |-> NoHand]
              \/ \E t \in Tabs, h \in HandState :
                    (h.at = "idle" => h.act = 0) /\ hand' = [hand EXCEPT ![t] = h]
  <2>1. Len(acts') <= MaxActs
    BY <1>1, <1>4, AsMany DEF Bounded
  <2>2. \A t \in Tabs : hand'[t].at = "idle" => hand'[t].act = 0
    BY <1>1, <1>4 DEF Bounded, NoHand
  <2>3. QED
    BY <1>4, <2>1, <2>2 DEF Bounded
<1>5. may' = may \/ may' = FALSE
  BY DEF Next, vars, Turn, Chat, Decide, decisions, TurnUser, TurnHistory, TurnReply, TurnCut,
     TurnSave, TurnRefuse, TurnTool, TurnResult, TurnRound, TurnEnd, Stop, OpenRead, OpenAnswer,
     Follow, Open, Send, SendFails, SendElsewhere, Crash, List, TurnOff, Age, Approve, Reject,
     Allow, DropAct, Claim, Run, Record, Note, GoOn
<1>6. may' \in BOOLEAN
  BY <1>5 DEF Bounded
<1>7. CASE Crash \/ List \/ \E a \in DOMAIN acts : Age(a)
  <2>1. DOMAIN acts' = DOMAIN acts /\ (hand' = hand \/ hand' = [t \in Tabs |-> NoHand])
    BY <1>7 DEF Crash, List, Age
  <2>2. QED
    BY <1>4, <1>6, <2>1
<1>8. ASSUME NEW a \in DOMAIN acts, NEW t \in Tabs, Approve(t, a) \/ Reject(t, a)
      PROVE  Bounded'
  <2>1. PICK at \in {"allow", "note"} : hand' = [hand EXCEPT ![t] = [at |-> at, act |-> a]]
    BY <1>8 DEF Approve, Reject
  <2>2. DOMAIN acts' = DOMAIN acts /\ a \in Nat
    BY <1>8, Parts DEF Approve, Reject, IInv
  <2>3. [at |-> at, act |-> a] \in HandState
    BY <2>2 DEF HandState
  <2>4. QED
    BY <1>4, <1>6, <2>1, <2>2, <2>3
<1>9. ASSUME NEW t \in Tabs, Decide(t)
      PROVE  Bounded'
  <2>1. DOMAIN acts' = DOMAIN acts
    BY <1>9 DEF Decide, Allow, DropAct, Claim, Run, Record, Note, GoOn
  <2>2. \/ Done(t)
        \/ \E at \in {"claim", "drop", "run", "record", "note", "start"} : Hand(t, at)
    BY <1>9 DEF Decide, Allow, DropAct, Claim, Run, Record, Note, GoOn
  <2>3. CASE Done(t)
    <3>1. hand' = [hand EXCEPT ![t] = NoHand] /\ NoHand \in HandState /\ NoHand.act = 0
      BY <2>3 DEF Done, NoHand, HandState
    <3>2. QED
      BY <1>4, <1>6, <2>1, <3>1
  <2>4. ASSUME NEW at \in {"claim", "drop", "run", "record", "note", "start"}, Hand(t, at)
        PROVE  Bounded'
    <3>1. PICK h : h = [hand[t] EXCEPT !.at = at]
      OBVIOUS
    <3>2. h \in HandState /\ h.at # "idle"
      BY <1>1, <3>1 DEF HandState
    <3>3. hand' = [hand EXCEPT ![t] = h]
      BY <1>1, <2>4, <3>1 DEF Hand
    <3>4. QED
      BY <1>4, <1>6, <2>1, <3>2, <3>3
  <2>5. QED
    BY <2>2, <2>3, <2>4
<1>10. CASE TurnOff
  BY <1>4, <1>10 DEF TurnOff
<1>11. CASE (Turn /\ ~TurnTool) \/ Stop \/ Chat \/ Open \/ Send \/ SendFails \/ SendElsewhere
  BY <1>2, <1>11 DEF Turn, Chat, decisions, TurnUser, TurnHistory, TurnReply, TurnCut, TurnSave,
     TurnRefuse, TurnResult, TurnRound, TurnEnd, Stop, OpenRead, OpenAnswer, Follow, Open, Send,
     SendFails, SendElsewhere
<1>12. CASE UNCHANGED vars
  BY <1>2, <1>12 DEF vars
<1>13. QED
  BY <1>3, <1>7, <1>8, <1>9, <1>10, <1>11, <1>12 DEF Next, Turn

LEMMA InitBounded == Init => Bounded
BY AssistantAssumption DEF Init, Bounded, NoHand

LEMMA Typed ==
  ASSUME IInv, Talk, Bounded
  PROVE  TypeOK
<1>1. /\ TalkOK /\ acts \in Seq(Request) /\ Len(acts) = Len(ran) /\ Len(acts) <= MaxActs
      /\ may \in BOOLEAN /\ hand \in [Tabs -> HandState] /\ Len(acts) \in Nat
      /\ DOMAIN acts = 1..Len(acts) /\ turn \in TurnState /\ panel \in PanelState
      /\ turns \in Nat /\ Len(msgs) \in Nat /\ MaxRounds \in Nat \ {0} /\ Unsent \in Nat
  BY Parts, Rounds, InTheTalk DEF IInv, Formed, Talk, TalkOK, Bounded
<1>2. ASSUME NEW t \in Tabs
      PROVE  /\ hand[t].act \in 0..Len(acts) /\ DOMAIN hand[t] = {"at", "act"}
             /\ hand[t] \in [at : {"idle", "allow", "drop", "claim", "run", "record", "note",
                                   "start"}, act : 0..Len(acts)]
  <2>1. hand[t].at = "idle" => hand[t].act = 0
    BY DEF Bounded
  <2>2. hand[t].at # "idle" => hand[t].act \in 1..Len(acts)
    BY <1>1 DEF IInv, Formed
  <2>3. hand[t].act \in 0..Len(acts)
    BY <1>1, <2>1, <2>2
  <2>4. hand[t] \in HandState
    BY <1>1
  <2>5. QED
    BY <2>3, <2>4 DEF HandState
<1>3. hand \in [Tabs -> [at : {"idle", "allow", "drop", "claim", "run", "record", "note",
                               "start"}, act : 0..Len(acts)]]
  BY <1>1, <1>2
<1>4. Range(turn.todo) \subseteq 1..MaxCalls + calls
  <2>1. /\ turn.todo \in Seq(Nat) /\ DOMAIN turn.todo = 1..Len(turn.todo)
        /\ \A k \in 1..Len(turn.todo) : turn.todo[k] \in 1..MaxCalls + calls
    BY <1>1, InTheTalk, LenProperties DEF TalkOK
  <2>2. QED
    BY <2>1 DEF Range
<1>5. /\ turn.no \in 0..turns /\ turn.from \in 0..Len(msgs) /\ turn.round \in 0..MaxRounds - 1
      /\ turn.at \in {"none", "user", "history", "stream", "save", "refuse", "tool", "result",
                      "end"}
  BY <1>1 DEF TalkOK, TurnState
<1>6. /\ panel.turn \in 0..turns /\ panel.lost \in 0..turns /\ panel.upto \in 0..Len(msgs)
      /\ panel.sent \in 0..Unsent
      /\ panel.at \in {"read", "answer", "join", "follow", "shown"}
  BY <1>1 DEF TalkOK, PanelState
<1>7. acts \in Seq([st : {"pending", "approved", "done", "failed", "rejected", "expired"},
                    why : {"none", "user", "dropped"}, late : BOOLEAN, input : BOOLEAN])
  BY <1>1 DEF Request
<1>8. QED
  BY <1>1, <1>3, <1>4, <1>5, <1>6, <1>7 DEF TypeOK

\* The conversation's invariant holds in every state.
LEMMA AlwaysTalk == Spec => [](IInv /\ Talk /\ Bounded)
<1>1. Init => IInv /\ Talk /\ Bounded
  BY InitHolds, InitTalks, InitBounded
<1>2. IInv /\ Talk /\ Bounded /\ [Next]_vars => (IInv /\ Talk /\ Bounded)'
  <2>1. IInv => acts \in Seq(Request)
    BY DEF IInv, Formed
  <2>2. QED
    BY <2>1, NextKeeps, NextTalks, NextBounded
<1>3. QED
  BY <1>1, <1>2, PTL DEF Spec

\* Every variable keeps its type and its bounds: a tab's decision points at a request that
\* exists, a turn's calls are calls that were made, and the chat's marks are within the
\* conversation.
THEOREM TypeCorrect == Spec => []TypeOK
<1>1. IInv /\ Talk /\ Bounded => TypeOK
  BY Typed
<1>2. QED
  BY <1>1, AlwaysTalk, PTL

\* Whoever follows a turn (assistant/runs.ts, AssistantPanel.vue) is shown every message it
\* stores, whatever was shown before the following began: a turn that is joined late is
\* replayed from its start, one that ends, or that a crash ends, left nothing untold.  Only
\* the user's message may be missing, where the panel skipped it (sentText).
THEOREM FollowersSeeAll == Spec => []FollowedWhole
<1>1. Talk => FollowedWhole
  BY DEF Talk
<1>2. QED
  BY <1>1, AlwaysTalk, PTL

----------------------------------------------------------------------------
(* Induction.  The theorems on it take a predicate as a parameter; what is  *)
(* shown here is about a set instead: those of whom the predicate holds.    *)

LEMMA Least ==
  ASSUME NEW T, T \subseteq Nat, T # {}
  PROVE  \E x \in T : \A y \in T : x <= y
<1> DEFINE R == OpToRel(<, Nat)
<1>1. IsWellFoundedOn(R, Nat)
  BY NatLessThanWellFounded
<1>2. PICK x \in T : \A y \in T : ~(<<y, x>> \in R)
  <2> HIDE DEF R
  <2>1. QED
    BY <1>1, WFMin
<1>3. \A y \in T : x \in Nat /\ y \in Nat
  OBVIOUS
<1>4. \A y \in T : ~(y < x)
  <2> TAKE y \in T
  <2>1. <<y, x>> \in Nat \X Nat /\ ~(<<y, x>> \in R)
    BY <1>2, <1>3
  <2>2. y < x => <<y, x>> \in R
    BY <2>1 DEF OpToRel
  <2>3. QED
    BY <2>1, <2>2
<1> HIDE DEF R
<1>5. QED
  BY <1>3, <1>4

\* A set that has 0, and with each number up to n the next, has all of them.
LEMMA UpFromZero ==
  ASSUME NEW n \in Nat, NEW T, 0 \in T, \A k \in 0..n - 1 : k \in T => k + 1 \in T
  PROVE  \A k \in 0..n : k \in T
<1> SUFFICES ASSUME NEW k \in 0..n, k \notin T
             PROVE  FALSE
  OBVIOUS
<1> DEFINE S == {j \in 0..n : j \notin T}
<1>1. S \subseteq Nat /\ S # {}
  OBVIOUS
<1>2. PICK x \in S : \A y \in S : x <= y
  BY <1>1, Least
<1>3. x \in 0..n /\ x \notin T /\ x # 0
  BY <1>2
<1>4. x - 1 \in 0..n - 1 /\ (x - 1) + 1 = x
  BY <1>3
<1>5. x - 1 \in T
  BY <1>2, <1>4
<1>6. QED
  BY <1>3, <1>4, <1>5

\* What the loop has read after k messages: the function exists, and each step reads one.
LEMMA ReadingSteps ==
  ASSUME NEW from, Len(from) \in Nat, NEW answered
  PROVE  /\ Reading(from, answered)[0] = Unread
         /\ \A k \in 1..Len(from) :
              Reading(from, answered)[k] = Read(Reading(from, answered)[k - 1], from[k], answered)
<1> DEFINE n == Len(from)
           Loop(r, m) ==
             /\ r[0] = Unread
             /\ \A i \in 1..m : r[i] = Read(r[i - 1], from[i], answered)
           T == {k \in 0..n : \E r : Loop(r, k)}
<1>1. 0 \in T
  <2>1. Loop([i \in {0} |-> Unread], 0)
    OBVIOUS
  <2>2. 0 \in 0..n
    OBVIOUS
  <2>3. QED
    BY <2>1, <2>2
<1>2. \A k \in 0..n - 1 : k \in T => k + 1 \in T
  <2> SUFFICES ASSUME NEW k \in 0..n - 1, k \in T
               PROVE  k + 1 \in T
    OBVIOUS
  <2>1. PICK r : Loop(r, k)
    OBVIOUS
  <2> DEFINE s == [i \in 0..k + 1 |->
                     IF i = k + 1 THEN Read(r[k], from[k + 1], answered) ELSE r[i]]
  <2>2. s[0] = Unread
    BY <2>1
  <2>3. ASSUME NEW i \in 1..k + 1
        PROVE  s[i] = Read(s[i - 1], from[i], answered)
    <3>1. i - 1 \in 0..k /\ s[i - 1] = r[i - 1]
      OBVIOUS
    <3>2. CASE i = k + 1
      BY <3>1, <3>2
    <3>3. CASE i \in 1..k
      BY <2>1, <3>1, <3>3
    <3>4. QED
      BY <3>2, <3>3
  <2> HIDE DEF s
  <2>4. Loop(s, k + 1)
    BY <2>2, <2>3
  <2> HIDE DEF Loop
  <2>5. QED
    BY <2>4
<1> HIDE DEF Loop
<1>3. n \in T
  <2> HIDE DEF T
  <2>1. \A k \in 0..n : k \in T
    BY <1>1, <1>2, UpFromZero
  <2>2. QED
    BY <2>1
<1>4. PICK r : Loop(r, n)
  BY <1>3
<1> USE DEF Loop
<1> DEFINE g == [i \in 0..n |-> r[i]]
<1>5. g = [i \in 0..n |-> IF i = 0 THEN Unread ELSE Read(g[i - 1], from[i], answered)]
  <2>1. ASSUME NEW i \in 0..n
        PROVE  g[i] = IF i = 0 THEN Unread ELSE Read(g[i - 1], from[i], answered)
    <3>1. CASE i = 0
      BY <1>4, <3>1
    <3>2. CASE i # 0
      <4>1. i \in 1..n /\ i - 1 \in 0..n /\ g[i - 1] = r[i - 1] /\ g[i] = r[i]
        BY <3>2
      <4>2. QED
        BY <1>4, <4>1, <3>2
    <3>3. QED
      BY <3>1, <3>2
  <2>2. QED
    BY <2>1
<1> DEFINE f == Reading(from, answered)
<1>6. f = [i \in 0..n |-> IF i = 0 THEN Unread ELSE Read(f[i - 1], from[i], answered)]
  BY <1>5 DEF Reading
<1>7. QED
  <2>1. f[0] = Unread
    BY <1>6
  <2>2. ASSUME NEW k \in 1..n
        PROVE  f[k] = Read(f[k - 1], from[k], answered)
    <3>1. k \in 0..n /\ k # 0
      OBVIOUS
    <3>2. QED
      BY <1>6, <3>1
  <2>3. QED
    BY <2>1, <2>2

----------------------------------------------------------------------------
(* What the model reads *)

\* All after message i, up to message k, are results.
Results(q, i, k) == \A x \in i + 1 .. k : q[x].role = "tool"

\* Call c of message i has its result.
Given(q, i, c) == \E k \in i + 1 .. Len(q) : q[k].call = c /\ Results(q, i, k)

\* The calls of message i that are surely its own have theirs.
Full(q, i, sure) == \A c \in q[i].calls \cap sure : Given(q, i, c)

\* The results of message i are still read; those that are missing are waited for.
Awaited(q, i, waiting) ==
    /\ q[i].role = "assistant" /\ Results(q, i, Len(q))
    /\ waiting = {c \in q[i].calls : ~Given(q, i, c)}

\* A result is one of the results of message j, and the first of its call.
ResultOf(q, i, j) ==
    /\ q[j].role = "assistant" /\ j < i /\ q[i].call \in q[j].calls /\ Results(q, j, i)
    /\ \A x \in j + 1 .. i - 1 : q[x].call # q[i].call

Blocks(q, waiting, sure) ==
    /\ q \in Seq(Msg)
    /\ \A i \in 1..Len(q) : q[i].role = "assistant" => Full(q, i, sure) \/ Awaited(q, i, waiting)
    /\ \A i \in 1..Len(q) : q[i].role = "tool" => \E j \in 1..Len(q) : ResultOf(q, i, j)
    /\ waiting # {} => \E j \in 1..Len(q) : Awaited(q, j, waiting)

LEMMA Sizes ==
  ASSUME NEW q, NEW waiting, NEW sure, Blocks(q, waiting, sure)
  PROVE  q \in Seq(Msg) /\ Len(q) \in Nat /\ \A i \in 1..Len(q) : q[i] \in Msg
<1>1. q \in Seq(Msg) /\ Len(q) \in Nat
  BY LenProperties DEF Blocks
<1>2. QED
  BY <1>1, ElementOfSeq

\* What is complete stays so, whatever follows.
LEMMA FullStays ==
  ASSUME NEW q, NEW r, NEW i \in 1..Len(q), Len(q) \in Nat, Len(r) \in Nat, Len(q) <= Len(r),
         \A k \in 1..Len(q) : r[k] = q[k]
  PROVE  /\ \A c : Given(q, i, c) => Given(r, i, c)
         /\ \A sure : Full(q, i, sure) => Full(r, i, sure)
<1>1. ASSUME NEW c, Given(q, i, c)
      PROVE  Given(r, i, c)
  <2>1. PICK k \in i + 1 .. Len(q) : q[k].call = c /\ Results(q, i, k)
    BY <1>1 DEF Given
  <2>2. k \in i + 1 .. Len(r) /\ k \in 1..Len(q) /\ \A x \in i + 1 .. k : x \in 1..Len(q)
    OBVIOUS
  <2>3. Results(r, i, k) /\ r[k].call = c
    BY <2>1, <2>2 DEF Results
  <2>4. QED
    BY <2>2, <2>3 DEF Given
<1>2. ASSUME NEW sure, Full(q, i, sure)
      PROVE  Full(r, i, sure)
  BY <1>1, <1>2 DEF Full
<1>3. QED
  BY <1>1, <1>2

\* With nothing waited for that is surely a call's own, all is complete.
LEMMA NoneWaited ==
  ASSUME NEW q, NEW waiting, NEW sure, Blocks(q, waiting, sure), waiting \cap sure = {},
         NEW i \in 1..Len(q), q[i].role = "assistant"
  PROVE  Full(q, i, sure)
<1>1. CASE Awaited(q, i, waiting)
  BY <1>1 DEF Awaited, Full
<1>2. QED
  BY <1>1 DEF Blocks

LEMMA ResultStays ==
  ASSUME NEW q, NEW r, NEW i \in 1..Len(q), NEW j \in 1..Len(q), Len(q) \in Nat,
         \A k \in 1..Len(q) : r[k] = q[k], ResultOf(q, i, j)
  PROVE  ResultOf(r, i, j)
<1>1. \A x \in j + 1 .. i : x \in 1..Len(q)
  OBVIOUS
<1>2. \A x \in j + 1 .. i - 1 : x \in 1..Len(q)
  OBVIOUS
<1>3. Results(r, j, i)
  BY <1>1 DEF ResultOf, Results
<1>4. QED
  BY <1>2, <1>3 DEF ResultOf

\* A message of the user or the model is read.
LEMMA BlockBegins ==
  ASSUME NEW q, NEW waiting, NEW sure, Blocks(q, waiting, sure), waiting \cap sure = {},
         NEW m \in Msg, m.role \in {"user", "assistant"}, m.role = "user" => m.calls = {}
  PROVE  Blocks(Append(q, m), m.calls, sure)
<1> DEFINE r == Append(q, m)  n == Len(q) + 1
<1>1. q \in Seq(Msg) /\ Len(q) \in Nat
  BY Sizes
<1>2. /\ r \in Seq(Msg) /\ Len(r) = n /\ r[n] = m /\ n \in Nat
      /\ \A i \in 1..Len(q) : r[i] = q[i]
      /\ \A i \in 1..n : i \in 1..Len(q) \/ i = n
  BY <1>1, AppendProperties
<1> HIDE DEF r
<1>3. n + 1 .. n = {} /\ n \in 1..n /\ Len(q) <= Len(r)
  BY <1>1, <1>2
<1>4. m.role = "assistant" => Awaited(r, n, m.calls)
  <2>1. Results(r, n, n) /\ \A c : ~Given(r, n, c)
    BY <1>2, <1>3 DEF Results, Given
  <2>2. QED
    BY <1>2, <2>1 DEF Awaited
<1> HIDE DEF n
<1>5. \A i \in 1..n : r[i].role = "assistant" => Full(r, i, sure) \/ Awaited(r, i, m.calls)
  <2> SUFFICES ASSUME NEW i \in 1..Len(q), q[i].role = "assistant"
               PROVE  Full(r, i, sure)
    BY <1>2, <1>4
  <2>1. Full(q, i, sure)
    BY NoneWaited
  <2>2. QED
    BY <1>1, <1>2, <1>3, <2>1, FullStays
<1>6. \A i \in 1..n : r[i].role = "tool" => \E j \in 1..n : ResultOf(r, i, j)
  <2> SUFFICES ASSUME NEW i \in 1..Len(q), q[i].role = "tool"
               PROVE  \E j \in 1..n : ResultOf(r, i, j)
    BY <1>2
  <2>1. PICK j \in 1..Len(q) : ResultOf(q, i, j)
    BY DEF Blocks
  <2>2. ResultOf(r, i, j) /\ j \in 1..n
    BY <1>1, <1>2, <1>3, <2>1, ResultStays
  <2>3. QED
    BY <2>2
<1>7. m.calls # {} => \E j \in 1..n : Awaited(r, j, m.calls)
  BY <1>3, <1>4
<1>8. QED
  BY <1>2, <1>5, <1>6, <1>7 DEF Blocks, r

\* A result that is waited for is read.
LEMMA BlockGrows ==
  ASSUME NEW q, NEW waiting, NEW sure, Blocks(q, waiting, sure), NEW m \in Msg,
         m.role = "tool", m.call \in waiting
  PROVE  Blocks(Append(q, m), waiting \ {m.call}, sure)
<1> DEFINE r == Append(q, m)  n == Len(q) + 1  left == waiting \ {m.call}
<1>1. q \in Seq(Msg) /\ Len(q) \in Nat
  BY Sizes
<1>2. /\ r \in Seq(Msg) /\ Len(r) = n /\ r[n] = m /\ n \in Nat
      /\ \A i \in 1..Len(q) : r[i] = q[i]
      /\ \A i \in 1..n : i \in 1..Len(q) \/ i = n
  BY <1>1, AppendProperties
<1> HIDE DEF r
<1>3. Len(q) <= Len(r) /\ n - 1 = Len(q) /\ \A i \in 1..Len(q) : i \in 1..n /\ n \in i + 1 .. n
  BY <1>1, <1>2
<1>4. ASSUME NEW i \in 1..Len(q), Awaited(q, i, waiting)
      PROVE  Awaited(r, i, left) /\ ResultOf(r, n, i)
  <2>1. /\ r[i].role = "assistant" /\ r[i].calls = q[i].calls /\ Results(q, i, Len(q))
        /\ waiting = {c \in q[i].calls : ~Given(q, i, c)}
    BY <1>2, <1>4 DEF Awaited
  <2>2. \A x \in i + 1 .. n : x = n \/ (x \in i + 1 .. Len(q) /\ x \in 1..Len(q))
    BY <1>1
  <2>3. Results(r, i, n)
    BY <1>2, <2>1, <2>2 DEF Results
  <2>4. Given(r, i, m.call)
    BY <1>2, <1>3, <2>3 DEF Given
  <2>5. ASSUME NEW c, Given(r, i, c), c # m.call
        PROVE  Given(q, i, c)
    <3>1. PICK k \in i + 1 .. n : r[k].call = c
      BY <1>2, <2>5 DEF Given
    <3>2. k \in i + 1 .. Len(q) /\ k \in 1..Len(q)
      BY <1>2, <2>2, <2>5, <3>1
    <3>3. \A x \in i + 1 .. k : x \in i + 1 .. Len(q)
      BY <1>1, <3>2
    <3>4. Results(q, i, k) /\ q[k].call = c
      BY <1>2, <2>1, <3>1, <3>2, <3>3 DEF Results
    <3>5. QED
      BY <3>2, <3>4 DEF Given
  <2>6. \A c : Given(q, i, c) => Given(r, i, c)
    BY <1>1, <1>2, <1>3, FullStays
  <2>7. left = {c \in r[i].calls : ~Given(r, i, c)}
    BY <2>1, <2>4, <2>5, <2>6
  <2>8. Awaited(r, i, left)
    <3> HIDE DEF left
    <3>1. QED
      BY <1>2, <2>1, <2>3, <2>7 DEF Awaited
  <2>9. \A x \in i + 1 .. n - 1 : r[x].call # m.call
    <3> SUFFICES ASSUME NEW x \in i + 1 .. Len(q), q[x].call = m.call
                 PROVE  FALSE
      BY <1>2, <1>3, <2>2
    <3>1. \A y \in i + 1 .. x : y \in i + 1 .. Len(q)
      BY <1>1
    <3>2. Results(q, i, x)
      BY <2>1, <3>1 DEF Results
    <3>3. Given(q, i, m.call)
      BY <3>2 DEF Given
    <3>4. QED
      BY <2>1, <3>3
  <2>10. ResultOf(r, n, i)
    <3>1. i < n /\ m.call \in r[i].calls
      BY <1>1, <2>1
    <3>2. QED
      BY <1>2, <2>1, <2>3, <2>9, <3>1 DEF ResultOf
  <2>11. QED
    BY <2>8, <2>10
<1>5. PICK o \in 1..Len(q) : Awaited(q, o, waiting)
  BY DEF Blocks
<1> HIDE DEF n, left
<1>6. \A i \in 1..n : r[i].role = "assistant" => Full(r, i, sure) \/ Awaited(r, i, left)
  <2> SUFFICES ASSUME NEW i \in 1..Len(q), q[i].role = "assistant"
               PROVE  Full(r, i, sure) \/ Awaited(r, i, left)
    BY <1>2
  <2>1. Full(q, i, sure) => Full(r, i, sure)
    BY <1>1, <1>2, <1>3, FullStays
  <2>2. QED
    BY <1>4, <2>1 DEF Blocks
<1>7. \A i \in 1..n : r[i].role = "tool" => \E j \in 1..n : ResultOf(r, i, j)
  <2>1. ASSUME NEW i \in 1..Len(q), q[i].role = "tool"
        PROVE  \E j \in 1..n : ResultOf(r, i, j)
    <3>1. PICK j \in 1..Len(q) : ResultOf(q, i, j)
      BY <2>1 DEF Blocks
    <3>2. ResultOf(r, i, j) /\ j \in 1..n
      BY <1>1, <1>2, <1>3, <3>1, ResultStays
    <3>3. QED
      BY <3>2
  <2>2. ResultOf(r, n, o) /\ o \in 1..n
    BY <1>3, <1>4, <1>5
  <2>3. QED
    BY <1>2, <2>1, <2>2
<1>8. \E j \in 1..n : Awaited(r, j, left)
  BY <1>3, <1>4, <1>5
<1>9. QED
  BY <1>2, <1>6, <1>7, <1>8 DEF Blocks, r, left

\* The decisions noted meanwhile are passed on.
LEMMA NotesFollow ==
  ASSUME NEW q, NEW waiting, NEW sure, Blocks(q, waiting, sure), waiting \cap sure = {},
         NEW notes \in Seq(Msg), \A i \in 1..Len(notes) : notes[i].role = "event"
  PROVE  Blocks(q \o notes, {}, sure)
<1> DEFINE r == q \o notes
<1>1. q \in Seq(Msg) /\ Len(q) \in Nat /\ Len(notes) \in Nat
  BY Sizes, LenProperties
<1>2. /\ r \in Seq(Msg) /\ Len(r) = Len(q) + Len(notes)
      /\ \A i \in 1..Len(q) : r[i] = q[i]
      /\ \A i \in 1..Len(r) : i \in 1..Len(q) \/ r[i].role = "event"
  <2>1. r \in Seq(Msg) /\ Len(r) = Len(q) + Len(notes)
    BY <1>1, ConcatProperties
  <2>2. \A i \in 1..Len(q) + Len(notes) : r[i] = IF i <= Len(q) THEN q[i] ELSE notes[i - Len(q)]
    BY <1>1, ConcatProperties
  <2>3. \A i \in 1..Len(r) : i \in 1..Len(q) \/ (i - Len(q) \in 1..Len(notes) /\ ~(i <= Len(q)))
    BY <1>1, <2>1
  <2>4. \A i \in 1..Len(q) : i \in 1..Len(q) + Len(notes) /\ i <= Len(q)
    BY <1>1
  <2> HIDE DEF r
  <2>5. QED
    BY <1>1, <2>1, <2>2, <2>3, <2>4
<1> HIDE DEF r
<1>3. Len(r) \in Nat /\ Len(q) <= Len(r)
  BY <1>1, <1>2
<1>4. \A i \in 1..Len(r) : r[i].role = "assistant" => Full(r, i, sure) \/ Awaited(r, i, {})
  <2> SUFFICES ASSUME NEW i \in 1..Len(q), q[i].role = "assistant"
               PROVE  Full(r, i, sure)
    BY <1>2
  <2>1. Full(q, i, sure)
    BY NoneWaited
  <2>2. QED
    BY <1>1, <1>2, <1>3, <2>1, FullStays
<1>5. \A i \in 1..Len(r) : r[i].role = "tool" => \E j \in 1..Len(r) : ResultOf(r, i, j)
  <2> SUFFICES ASSUME NEW i \in 1..Len(q), q[i].role = "tool"
               PROVE  \E j \in 1..Len(r) : ResultOf(r, i, j)
    BY <1>2
  <2>1. PICK j \in 1..Len(q) : ResultOf(q, i, j)
    BY DEF Blocks
  <2>2. ResultOf(r, i, j) /\ j \in 1..Len(r)
    BY <1>1, <1>2, <1>3, <2>1, ResultStays
  <2>3. QED
    BY <2>2
<1>6. QED
  BY <1>2, <1>4, <1>5 DEF Blocks, r

----------------------------------------------------------------------------
(* How many decisions are noted in a conversation, up to k. *)

EventsTo(q, k) == {i \in 1..k : q[i].role = "event"}

LEMMA EventsCounted ==
  ASSUME NEW q, NEW k \in Nat
  PROVE  IsFiniteSet(EventsTo(q, k)) /\ Cardinality(EventsTo(q, k)) \in Nat
<1>1. IsFiniteSet(1..k)
  BY FS_Interval
<1>2. EventsTo(q, k) \in SUBSET (1..k)
  BY DEF EventsTo
<1>3. QED
  BY <1>1, <1>2, FS_Subset, FS_CardinalityType

LEMMA OneMore ==
  ASSUME NEW q, NEW k \in Nat
  PROVE  Cardinality(EventsTo(q, k + 1))
           = Cardinality(EventsTo(q, k)) + (IF q[k + 1].role = "event" THEN 1 ELSE 0)
<1> DEFINE E == EventsTo(q, k)
<1>1. IsFiniteSet(E) /\ Cardinality(E) \in Nat
  BY EventsCounted
<1>2. k + 1 \notin E
  BY DEF EventsTo
<1>3. \A i \in 1..k + 1 : i \in 1..k \/ i = k + 1
  OBVIOUS
<1>4. CASE q[k + 1].role = "event"
  <2>1. EventsTo(q, k + 1) = E \cup {k + 1}
    BY <1>3, <1>4 DEF EventsTo
  <2> HIDE DEF E
  <2>2. Cardinality(E \cup {k + 1}) = Cardinality(E) + 1
    BY <1>1, <1>2, FS_AddElement
  <2>3. QED
    BY <1>4, <2>1, <2>2 DEF E
<1>5. CASE q[k + 1].role # "event"
  <2>1. EventsTo(q, k + 1) = E
    BY <1>3, <1>5 DEF EventsTo
  <2>2. QED
    BY <1>1, <1>5, <2>1
<1>6. QED
  BY <1>4, <1>5

LEMMA EventsAlike ==
  ASSUME NEW q, NEW r, NEW k \in Nat, \A i \in 1..k : r[i] = q[i]
  PROVE  EventsTo(r, k) = EventsTo(q, k)
BY DEF EventsTo

\* A message more, and notes.
LEMMA EventsAppend ==
  ASSUME NEW q \in Seq(Msg), NEW m \in Msg
  PROVE  Cardinality(EventsTo(Append(q, m), Len(Append(q, m))))
           = Cardinality(EventsTo(q, Len(q))) + (IF m.role = "event" THEN 1 ELSE 0)
<1> DEFINE r == Append(q, m)  n == Len(q)
<1>1. n \in Nat /\ Len(r) = n + 1 /\ r[n + 1] = m /\ \A i \in 1..n : r[i] = q[i]
  BY LenProperties, AppendProperties
<1> HIDE DEF r, n
<1>2. EventsTo(r, n) = EventsTo(q, n)
  BY <1>1, EventsAlike
<1>3. Cardinality(EventsTo(r, n + 1))
        = Cardinality(EventsTo(r, n)) + (IF r[n + 1].role = "event" THEN 1 ELSE 0)
  BY <1>1, OneMore
<1>4. QED
  BY <1>1, <1>2, <1>3 DEF r, n

LEMMA EventsConcat ==
  ASSUME NEW q \in Seq(Msg), NEW notes \in Seq(Msg),
         \A i \in 1..Len(notes) : notes[i].role = "event"
  PROVE  Cardinality(EventsTo(q \o notes, Len(q \o notes)))
           = Cardinality(EventsTo(q, Len(q))) + Len(notes)
<1> DEFINE r == q \o notes  n == Len(q)  d == Len(notes)
<1>1. n \in Nat /\ d \in Nat /\ Len(r) = n + d
  BY LenProperties, ConcatProperties
<1>2. \A i \in 1..n + d : r[i] = IF i <= n THEN q[i] ELSE notes[i - n]
  BY ConcatProperties
<1> HIDE DEF r
<1>3. \A i \in 1..n : r[i] = q[i]
  BY <1>1, <1>2
<1>4. \A i \in n + 1 .. n + d : r[i].role = "event"
  <2> SUFFICES ASSUME NEW i \in n + 1 .. n + d
               PROVE  r[i].role = "event"
    OBVIOUS
  <2>1. i \in 1..n + d /\ ~(i <= n) /\ i - n \in 1..d
    BY <1>1
  <2>2. QED
    BY <1>2, <2>1
<1> HIDE DEF n, d
<1> DEFINE E == EventsTo(r, n)  D == n + 1 .. n + d
<1>5. EventsTo(r, n + d) = E \cup D
  <2>1. \A i : i \in 1..n + d <=> i \in 1..n \/ i \in D
    BY <1>1
  <2>2. QED
    BY <1>4, <2>1 DEF EventsTo
<1>6. E \cap D = {}
  BY <1>1 DEF EventsTo
<1>7. IsFiniteSet(E) /\ Cardinality(E) \in Nat /\ IsFiniteSet(D) /\ Cardinality(D) = d
  <2>1. n + 1 \in Int /\ n + d \in Int /\ (IF n + 1 > n + d THEN 0 ELSE n + d - (n + 1) + 1) = d
    BY <1>1
  <2>2. QED
    BY <1>1, <2>1, EventsCounted, FS_Interval
<1> HIDE DEF E, D
<1>8. Cardinality(E \cup D) = Cardinality(E) + Cardinality(D) - Cardinality(E \cap D)
  BY <1>7, FS_Union
<1>9. Cardinality(E \cup D) = Cardinality(E) + d
  <2>1. Cardinality(E \cap D) = 0
    BY <1>6, FS_EmptySet
  <2>2. QED
    BY <1>1, <1>7, <1>8, <2>1
<1>10. EventsTo(r, n) = EventsTo(q, n)
  BY <1>1, <1>3, EventsAlike
<1>11. QED
  BY <1>1, <1>5, <1>9, <1>10 DEF r, n, d, E

----------------------------------------------------------------------------
(* The loop of historyForModel *)

\* All between i and k, left out both, answers calls or notes a decision.
Between(q, i, k) == \A x \in i + 1 .. k - 1 : q[x].role \in {"tool", "event"}

\* Call c is answered after message i, with no message of the user or the model in between.
AnsweredAfter(q, i, c) ==
    \E p \in i + 1 .. Len(q) : q[p].role = "tool" /\ q[p].call = c /\ Between(q, i, p)

\* What is read, from a message of the user on: the calls that are answered and surely their
\* message's own are so further on.
Readable(w, answered, sure) ==
    /\ w \in Seq(Msg) /\ (w # <<>> => w[1].role = "user")
    /\ \A i \in 1..Len(w) :
          /\ w[i].role # "assistant" => w[i].calls = {}
          /\ \A c \in (w[i].calls \cap answered) \cap sure : AnsweredAfter(w, i, c)

\* After k messages, before what waits is looked at.
HalfRead(w, k, out, notes, waiting, sure) ==
    /\ Blocks(out, waiting, sure)
    /\ notes \in Seq(Msg)
    /\ \A i \in 1..Len(notes) : notes[i].role = "event"
    /\ IF k = 0 THEN out = <<>> ELSE Len(out) > 0 /\ out[1].role = "user"
    /\ Cardinality(EventsTo(out, Len(out))) + Len(notes) = Cardinality(EventsTo(w, k))
    /\ \A c \in waiting \cap sure : AnsweredAfter(w, k, c)

HasRead(w, k, s, sure) ==
    /\ HalfRead(w, k, s.out, s.notes, s.waiting, sure)
    /\ s.waiting = {} => s.notes = <<>>

Flushed(out, notes, waiting) ==
    IF waiting = {} THEN [out |-> out \o notes, notes |-> <<>>, waiting |-> {}]
    ELSE [out |-> out, notes |-> notes, waiting |-> waiting]

\* The decisions noted are passed on with what is read.
LEMMA NotesRead ==
  ASSUME NEW w, NEW k \in Nat \ {0}, NEW out, NEW notes, NEW waiting, NEW sure,
         HalfRead(w, k, out, notes, waiting, sure), waiting \cap sure = {}
  PROVE  LET r == out \o notes IN
         /\ Blocks(r, {}, sure) /\ r \in Seq(Msg)
         /\ Len(r) > 0 /\ r[1].role = "user"
         /\ Cardinality(EventsTo(r, Len(r))) = Cardinality(EventsTo(w, k))
<1> DEFINE r == out \o notes
<1>1. /\ Blocks(out, waiting, sure) /\ notes \in Seq(Msg) /\ out \in Seq(Msg)
      /\ \A i \in 1..Len(notes) : notes[i].role = "event"
      /\ Len(out) > 0 /\ out[1].role = "user"
      /\ Cardinality(EventsTo(out, Len(out))) + Len(notes) = Cardinality(EventsTo(w, k))
  BY DEF HalfRead, Blocks
<1>2. Blocks(r, {}, sure)
  BY <1>1, NotesFollow
<1>3. Cardinality(EventsTo(r, Len(r))) = Cardinality(EventsTo(w, k))
  BY <1>1, EventsConcat
<1>4. Len(r) > 0 /\ r[1].role = "user"
  <2>1. /\ Len(out) \in Nat /\ Len(notes) \in Nat /\ Len(r) = Len(out) + Len(notes)
        /\ \A i \in 1..Len(out) + Len(notes) : r[i] = IF i <= Len(out) THEN out[i]
                                                      ELSE notes[i - Len(out)]
    BY <1>1, LenProperties, ConcatProperties
  <2>2. 1 \in 1..Len(out) + Len(notes) /\ 1 <= Len(out)
    BY <1>1, <2>1
  <2> HIDE DEF r
  <2>3. QED
    BY <1>1, <2>1, <2>2
<1> HIDE DEF r
<1>5. QED
  BY <1>2, <1>3, <1>4 DEF Blocks, r

LEMMA NotesFlushed ==
  ASSUME NEW w, NEW k \in Nat \ {0}, NEW out, NEW notes, NEW waiting, NEW sure,
         HalfRead(w, k, out, notes, waiting, sure)
  PROVE  HasRead(w, k, Flushed(out, notes, waiting), sure)
<1>1. CASE waiting # {}
  BY <1>1 DEF HasRead, Flushed
<1>2. CASE waiting = {}
  <2>1. PICK r : r = out \o notes
    OBVIOUS
  <2>2. /\ Blocks(r, {}, sure) /\ Len(r) > 0 /\ r[1].role = "user"
        /\ Cardinality(EventsTo(r, Len(r))) = Cardinality(EventsTo(w, k))
    BY <1>2, <2>1, NotesRead
  <2>3. <<>> \in Seq(Msg) /\ Len(<<>>) = 0
    BY EmptySeq
  <2>4. Cardinality(EventsTo(w, k)) \in Nat
    BY EventsCounted
  <2>5. HalfRead(w, k, r, <<>>, {}, sure)
    BY <2>2, <2>3, <2>4 DEF HalfRead
  <2>6. Flushed(out, notes, waiting) = [out |-> r, notes |-> <<>>, waiting |-> {}]
    BY <1>2, <2>1 DEF Flushed
  <2>7. QED
    BY <2>5, <2>6 DEF HasRead
<1>3. QED
  BY <1>1, <1>2

\* Who still waits does after the next message, unless it is the answer.
LEMMA StillWaits ==
  ASSUME NEW w \in Seq(Msg), NEW k \in 0..Len(w) - 1, NEW c, AnsweredAfter(w, k, c),
         ~(w[k + 1].role = "tool" /\ w[k + 1].call = c)
  PROVE  /\ w[k + 1].role \in {"tool", "event"}
         /\ AnsweredAfter(w, k + 1, c)
<1>1. Len(w) \in Nat
  BY LenProperties
<1>2. PICK p \in k + 1 .. Len(w) : w[p].role = "tool" /\ w[p].call = c /\ Between(w, k, p)
  BY DEF AnsweredAfter
<1>3. p # k + 1
  BY <1>2
<1>4. p \in (k + 1) + 1 .. Len(w) /\ k + 1 \in k + 1 .. p - 1
  BY <1>1, <1>3
<1>5. Between(w, k + 1, p)
  <2>1. \A x \in (k + 1) + 1 .. p - 1 : x \in k + 1 .. p - 1
    BY <1>1
  <2>2. QED
    BY <1>2, <2>1 DEF Between
<1>6. w[k + 1].role \in {"tool", "event"}
  BY <1>2, <1>4 DEF Between
<1>7. QED
  BY <1>2, <1>4, <1>5, <1>6 DEF AnsweredAfter

LEMMA OneRead ==
  ASSUME NEW w, NEW answered, NEW sure, Readable(w, answered, sure),
         NEW k \in 0..Len(w) - 1, NEW s, HasRead(w, k, s, sure)
  PROVE  HasRead(w, k + 1, Read(s, w[k + 1], answered), sure)
<1> DEFINE m == w[k + 1]  out == s.out  notes == s.notes  waiting == s.waiting
<1>1. /\ w \in Seq(Msg) /\ Len(w) \in Nat /\ k \in Nat /\ k + 1 \in 1..Len(w) /\ m \in Msg
      /\ w[1].role = "user"
  <2>1. w \in Seq(Msg) /\ Len(w) \in Nat
    BY LenProperties DEF Readable
  <2>2. k \in Nat /\ k + 1 \in 1..Len(w) /\ Len(w) # 0
    BY <2>1
  <2>3. m \in Msg
    BY <2>1, <2>2, ElementOfSeq
  <2>4. w # <<>>
    BY <2>2, EmptySeq
  <2>5. QED
    BY <2>1, <2>2, <2>3, <2>4 DEF Readable
<1>2. /\ m.role # "assistant" => m.calls = {}
      /\ \A c \in (m.calls \cap answered) \cap sure : AnsweredAfter(w, k + 1, c)
  BY <1>1 DEF Readable
<1>3. /\ HalfRead(w, k, out, notes, waiting, sure)
      /\ waiting = {} => notes = <<>>
  BY DEF HasRead
<1>4. /\ Blocks(out, waiting, sure) /\ out \in Seq(Msg) /\ notes \in Seq(Msg)
      /\ \A i \in 1..Len(notes) : notes[i].role = "event"
      /\ IF k = 0 THEN out = <<>> ELSE Len(out) > 0 /\ out[1].role = "user"
      /\ Cardinality(EventsTo(out, Len(out))) + Len(notes) = Cardinality(EventsTo(w, k))
      /\ \A c \in waiting \cap sure : AnsweredAfter(w, k, c)
  BY <1>3 DEF HalfRead, Blocks
<1>5. /\ Len(out) \in Nat /\ Len(notes) \in Nat
      /\ Cardinality(EventsTo(out, Len(out))) \in Nat /\ Cardinality(EventsTo(w, k)) \in Nat
  BY <1>1, <1>4, LenProperties, EventsCounted
<1>6. Cardinality(EventsTo(w, k + 1))
        = Cardinality(EventsTo(w, k)) + (IF m.role = "event" THEN 1 ELSE 0)
  BY <1>1, OneMore
<1>7. k = 0 => m.role = "user"
  BY <1>1
<1>8. k + 1 \in Nat \ {0} /\ k + 1 # 0
  BY <1>1
<1>9. m.role \in {"user", "assistant", "tool", "event"}
  BY <1>1 DEF Msg
<1>10. ASSUME NEW c \in waiting \cap sure, ~(m.role = "tool" /\ m.call = c)
       PROVE  m.role \in {"tool", "event"} /\ AnsweredAfter(w, k + 1, c)
  BY <1>1, <1>4, <1>10, StillWaits
<1> HIDE DEF m, out, notes, waiting
<1>11. CASE m.role = "event"
  <2> DEFINE more == Append(notes, m)
  <2>1. more \in Seq(Msg) /\ Len(more) = Len(notes) + 1
    BY <1>1, <1>4, AppendProperties
  <2>2. \A i \in 1..Len(more) : more[i].role = "event"
    <3>1. more[Len(notes) + 1] = m /\ \A i \in 1..Len(notes) : more[i] = notes[i]
      BY <1>1, <1>4, AppendProperties
    <3> HIDE DEF more
    <3>2. \A i \in 1..Len(more) : i \in 1..Len(notes) \/ i = Len(notes) + 1
      BY <1>5, <2>1
    <3>3. QED
      BY <1>2, <1>4, <1>11, <3>1, <3>2
  <2>3. \A c \in waiting \cap sure : AnsweredAfter(w, k + 1, c)
    BY <1>10, <1>11
  <2>4. Cardinality(EventsTo(out, Len(out))) + Len(more) = Cardinality(EventsTo(w, k + 1))
    BY <1>4, <1>5, <1>6, <1>11, <2>1
  <2> HIDE DEF more
  <2>5. Len(out) > 0 /\ out[1].role = "user"
    BY <1>4, <1>7, <1>11
  <2>6. HalfRead(w, k + 1, out, more, waiting, sure)
    BY <1>4, <1>8, <2>1, <2>2, <2>3, <2>4, <2>5 DEF HalfRead
  <2>7. Read(s, m, answered) = Flushed(out, more, waiting)
    BY <1>11 DEF Read, Flushed, out, notes, waiting, more
  <2>8. QED
    BY <1>8, <2>6, <2>7, NotesFlushed DEF m
<1>12. CASE m.role = "tool" /\ m.call \notin waiting
  <2>1. \A c \in waiting \cap sure : AnsweredAfter(w, k + 1, c)
    BY <1>10, <1>12
  <2>2. Cardinality(EventsTo(out, Len(out))) + Len(notes) = Cardinality(EventsTo(w, k + 1))
    BY <1>4, <1>5, <1>6, <1>12
  <2>3. Len(out) > 0 /\ out[1].role = "user"
    BY <1>4, <1>7, <1>12
  <2>4. HalfRead(w, k + 1, out, notes, waiting, sure)
    BY <1>4, <1>8, <2>1, <2>2, <2>3 DEF HalfRead
  <2>5. Read(s, m, answered) = Flushed(out, notes, waiting)
    BY <1>12 DEF Read, Flushed, out, notes, waiting
  <2>6. QED
    BY <1>8, <2>4, <2>5, NotesFlushed DEF m
<1>13. CASE m.role = "tool" /\ m.call \in waiting
  <2> DEFINE more == Append(out, m)  left == waiting \ {m.call}
  <2>1. Blocks(more, left, sure)
    BY <1>1, <1>4, <1>13, BlockGrows
  <2>2. \A c \in left \cap sure : AnsweredAfter(w, k + 1, c)
    BY <1>10
  <2>3. Cardinality(EventsTo(more, Len(more))) = Cardinality(EventsTo(out, Len(out)))
    <3>1. m.role # "event"
      BY <1>13
    <3>2. Cardinality(EventsTo(more, Len(more))) = Cardinality(EventsTo(out, Len(out))) + 0
      BY <1>1, <1>4, <3>1, EventsAppend
    <3>3. QED
      BY <1>5, <3>2
  <2>4. Len(more) > 0 /\ more[1].role = "user"
    <3>1. Len(out) > 0 /\ out[1].role = "user"
      BY <1>4, <1>7, <1>13
    <3>2. Len(more) = Len(out) + 1 /\ \A i \in 1..Len(out) : more[i] = out[i]
      BY <1>1, <1>4, AppendProperties
    <3> HIDE DEF more
    <3>3. QED
      BY <1>5, <3>1, <3>2
  <2> HIDE DEF more, left
  <2>5. HalfRead(w, k + 1, more, notes, left, sure)
    BY <1>4, <1>6, <1>5, <1>8, <1>13, <2>1, <2>2, <2>3, <2>4 DEF HalfRead
  <2>6. Read(s, m, answered) = Flushed(more, notes, left)
    BY <1>13 DEF Read, Flushed, out, notes, waiting, more, left
  <2>7. QED
    BY <1>8, <2>5, <2>6, NotesFlushed DEF m
<1>14. CASE m.role \in {"user", "assistant"}
  <2> DEFINE known == m.calls \cap answered
             said == [m EXCEPT !.calls = known]
             before == out \o notes
             more == Append(before, said)
  <2>1. waiting \cap sure = {}
    BY <1>10, <1>14
  <2>2. /\ said \in Msg /\ said.role = m.role /\ said.calls = known
    BY <1>1 DEF Msg
  <2>3. m.role = "user" => known = {}
    BY <1>2
  <2>4. \A c \in known \cap sure : AnsweredAfter(w, k + 1, c)
    BY <1>2
  <2> HIDE DEF known, said
  <2>5. /\ before \in Seq(Msg) /\ Blocks(before, {}, sure)
        /\ Cardinality(EventsTo(before, Len(before))) = Cardinality(EventsTo(w, k))
        /\ IF k = 0 THEN before = <<>> ELSE Len(before) > 0 /\ before[1].role = "user"
    <3>1. CASE k # 0
      <4>1. k \in Nat \ {0}
        BY <1>1, <3>1
      <4>2. QED
        BY <1>3, <2>1, <3>1, <4>1, NotesRead
    <3>2. CASE k = 0
      <4>1. out = <<>> /\ Len(out) = 0 /\ Cardinality(EventsTo(w, k)) = 0
        <5>1. EventsTo(w, 0) = {}
          BY DEF EventsTo
        <5>2. QED
          BY <1>4, <3>2, <5>1, EmptySeq, FS_EmptySet
      <4>2. Len(notes) = 0
        BY <1>4, <1>5, <4>1
      <4>3. notes = <<>>
        BY <1>4, <4>2, EmptySeq
      <4>4. before = out
        BY <1>4, <4>3, ConcatEmptySeq
      <4>5. waiting = {}
        BY <1>4, <4>1 DEF Blocks
      <4>6. Cardinality(EventsTo(out, Len(out))) = Cardinality(EventsTo(w, k))
        BY <1>4, <1>5, <4>2
      <4> HIDE DEF before
      <4>7. QED
        BY <1>4, <3>2, <4>1, <4>4, <4>5, <4>6
    <3>3. QED
      BY <3>1, <3>2
  <2> HIDE DEF before
  <2>6. Blocks(more, known, sure)
    <3>1. said.role \in {"user", "assistant"} /\ (said.role = "user" => said.calls = {})
      BY <1>14, <2>2, <2>3
    <3>2. {} \cap sure = {}
      OBVIOUS
    <3>3. Blocks(Append(before, said), said.calls, sure)
      BY <2>2, <2>5, <3>1, <3>2, BlockBegins
    <3>4. QED
      BY <2>2, <3>3
  <2>7. Cardinality(EventsTo(more, Len(more))) = Cardinality(EventsTo(w, k + 1))
    <3>1. said.role # "event" /\ m.role # "event"
      BY <1>14, <2>2
    <3>2. Cardinality(EventsTo(more, Len(more))) = Cardinality(EventsTo(before, Len(before))) + 0
      BY <2>2, <2>5, <3>1, EventsAppend
    <3>3. QED
      BY <1>5, <1>6, <2>5, <3>1, <3>2
  <2>8. Len(more) > 0 /\ more[1].role = "user"
    <3>1. /\ Len(more) = Len(before) + 1 /\ \A i \in 1..Len(before) : more[i] = before[i]
          /\ more[Len(before) + 1] = said /\ Len(before) \in Nat
      BY <2>2, <2>5, AppendProperties, LenProperties
    <3> HIDE DEF more
    <3>2. CASE k = 0
      <4>1. Len(before) = 0
        BY <2>5, <3>2, EmptySeq
      <4>2. QED
        BY <1>7, <2>2, <3>1, <3>2, <4>1
    <3>3. CASE k # 0
      <4>1. Len(before) > 0 /\ before[1].role = "user"
        BY <2>5, <3>3
      <4>2. QED
        BY <3>1, <4>1
    <3>4. QED
      BY <3>2, <3>3
  <2>9. Len(<<>>) = 0 /\ <<>> \in Seq(Msg)
    BY EmptySeq
  <2>10. Cardinality(EventsTo(more, Len(more))) + Len(<<>>) = Cardinality(EventsTo(w, k + 1))
    <3> HIDE DEF more
    <3>1. QED
      BY <1>5, <1>6, <2>7, <2>9
  <2>11. Read(s, m, answered) = [out |-> more, notes |-> <<>>, waiting |-> known]
    <3>1. ~(m.role = "event") /\ ~(m.role = "tool")
      BY <1>14
    <3>2. Read(s, m, answered)
            = [out |-> Append(s.out \o s.notes, [m EXCEPT !.calls = m.calls \cap answered]),
               notes |-> <<>>, waiting |-> m.calls \cap answered]
      BY <3>1 DEF Read
    <3>3. QED
      BY <3>2 DEF known, said, before, out, notes
  <2> HIDE DEF more
  <2>12. HalfRead(w, k + 1, more, <<>>, known, sure)
    BY <1>8, <2>4, <2>6, <2>8, <2>9, <2>10 DEF HalfRead
  <2>13. QED
    BY <2>11, <2>12 DEF HasRead, m
<1>15. QED
  BY <1>9, <1>11, <1>12, <1>13, <1>14

LEMMA AllRead ==
  ASSUME NEW w, NEW answered, NEW sure, Readable(w, answered, sure)
  PROVE  HasRead(w, Len(w), Reading(w, answered)[Len(w)], sure)
<1> DEFINE n == Len(w)
           s(k) == Reading(w, answered)[k]
           T == {k \in 0..n : HasRead(w, k, s(k), sure)}
<1>1. n \in Nat
  BY LenProperties DEF Readable
<1>2. s(0) = Unread /\ \A k \in 1..n : s(k) = Read(s(k - 1), w[k], answered)
  BY <1>1, ReadingSteps
<1> HIDE DEF s
<1>3. HasRead(w, 0, Unread, sure)
  <2>1. <<>> \in Seq(Msg) /\ Len(<<>>) = 0 /\ 1..0 = {} /\ Cardinality({}) = 0
    BY EmptySeq, FS_EmptySet
  <2>2. Blocks(<<>>, {}, sure)
    BY <2>1 DEF Blocks
  <2>3. EventsTo(<<>>, 0) = {} /\ EventsTo(w, 0) = {}
    BY <2>1 DEF EventsTo
  <2>4. PICK e : e = <<>>
    OBVIOUS
  <2>5. /\ e \in Seq(Msg) /\ Len(e) = 0 /\ \A i \in 1..Len(e) : FALSE
        /\ Cardinality(EventsTo(e, Len(e))) = 0 /\ Cardinality(EventsTo(w, 0)) = 0
    BY <2>1, <2>3, <2>4
  <2>6. HalfRead(w, 0, e, e, {}, sure)
    BY <2>2, <2>4, <2>5 DEF HalfRead
  <2>7. QED
    BY <2>4, <2>6 DEF HasRead, Unread
<1>4. 0 \in T
  BY <1>1, <1>2, <1>3
<1>5. \A k \in 0..n - 1 : k \in T => k + 1 \in T
  <2> SUFFICES ASSUME NEW k \in 0..n - 1, HasRead(w, k, s(k), sure)
               PROVE  k + 1 \in T
    OBVIOUS
  <2>1. k + 1 \in 1..n /\ k + 1 \in 0..n /\ (k + 1) - 1 = k
    BY <1>1
  <2>2. s(k + 1) = Read(s(k), w[k + 1], answered)
    BY <1>2, <2>1
  <2>3. HasRead(w, k + 1, s(k + 1), sure)
    BY <2>2, OneRead
  <2>4. QED
    BY <2>1, <2>3
<1>6. \A k \in 0..n : k \in T
  <2> HIDE DEF T
  <2>1. QED
    BY <1>1, <1>4, <1>5, UpFromZero
<1>7. QED
  BY <1>1, <1>6 DEF s

\* All that is read is passed on.
LEMMA PassedOn ==
  ASSUME NEW w, NEW answered, NEW sure, Readable(w, answered, sure), NEW h,
         h = Reading(w, answered)[Len(w)].out \o Reading(w, answered)[Len(w)].notes
  PROVE  /\ Blocks(h, {}, sure)
         /\ h # <<>> => h[1].role = "user"
         /\ Cardinality(EventsTo(h, Len(h))) = Cardinality(EventsTo(w, Len(w)))
<1> DEFINE end == Reading(w, answered)[Len(w)]
<1>1. HasRead(w, Len(w), end, sure)
  BY AllRead
<1>2. Len(w) \in Nat
  BY LenProperties DEF Readable
<1>3. h = end.out \o end.notes
  OBVIOUS
<1> HIDE DEF end
<1>4. HalfRead(w, Len(w), end.out, end.notes, end.waiting, sure)
  BY <1>1 DEF HasRead
<1>5. end.waiting \cap sure = {}
  <2>1. Len(w) + 1 .. Len(w) = {}
    BY <1>2
  <2>2. \A c \in end.waiting \cap sure : AnsweredAfter(w, Len(w), c)
    BY <1>4 DEF HalfRead
  <2>3. QED
    BY <2>1, <2>2 DEF AnsweredAfter
<1>6. CASE Len(w) # 0
  <2>1. Len(w) \in Nat \ {0}
    BY <1>2, <1>6
  <2>2. PICK out, notes, waiting :
             out = end.out /\ notes = end.notes /\ waiting = end.waiting
    OBVIOUS
  <2>3. HalfRead(w, Len(w), out, notes, waiting, sure) /\ waiting \cap sure = {}
    BY <1>4, <1>5, <2>2
  <2>4. h = out \o notes
    BY <1>3, <2>2
  <2>5. QED
    BY <2>1, <2>3, <2>4, NotesRead
<1>7. CASE Len(w) = 0
  <2>1. /\ Blocks(end.out, end.waiting, sure) /\ end.out = <<>> /\ end.notes \in Seq(Msg)
        /\ Cardinality(EventsTo(end.out, Len(end.out))) + Len(end.notes)
             = Cardinality(EventsTo(w, Len(w)))
    BY <1>4, <1>7 DEF HalfRead
  <2>2. EventsTo(w, 0) = {} /\ EventsTo(<<>>, 0) = {} /\ Cardinality({}) = 0 /\ Len(<<>>) = 0
    BY EmptySeq, FS_EmptySet DEF EventsTo
  <2>3. end.waiting = {}
    BY <2>1, <2>2 DEF Blocks
  <2>4. Len(end.notes) = 0
    <3>1. PICK e : e = <<>>
      OBVIOUS
    <3>2. /\ Len(e) = 0 /\ Cardinality(EventsTo(e, 0)) = 0 /\ Cardinality(EventsTo(w, 0)) = 0
          /\ Cardinality(EventsTo(e, Len(e))) + Len(end.notes) = Cardinality(EventsTo(w, 0))
      BY <1>7, <2>1, <2>2, <3>1
    <3>3. Cardinality(EventsTo(e, Len(e))) = 0 /\ Len(end.notes) \in Nat
      BY <2>1, <3>2, LenProperties
    <3>4. QED
      BY <3>2, <3>3
  <2>5. end.notes = <<>>
    BY <2>1, <2>4, EmptySeq
  <2>6. h = <<>>
    BY <1>3, <2>1, <2>5
  <2>7. QED
    BY <1>7, <2>1, <2>2, <2>3, <2>6
<1>8. QED
  BY <1>6, <1>7

----------------------------------------------------------------------------
(* What is stored *)

\* A result answers a call before it, with no message of the user or the model in between.
Ordered(q) ==
    /\ q \in Seq(Msg)
    /\ \A i \in 1..Len(q) : q[i].role # "assistant" => q[i].calls = {}
    /\ \A i \in 1..Len(q) : q[i].role = "tool" =>
          \E j \in 1..i - 1 : q[i].call \in q[j].calls /\ Between(q, j, i)

\* The calls that no two messages made.
Own(q) == {c \in Nat : \A x, y \in 1..Len(q) : c \in q[x].calls /\ c \in q[y].calls => x = y}

\* w is q without its first d messages.
Suffix(w, q, d) ==
    /\ w \in Seq(Msg) /\ d \in Nat /\ Len(w) = Len(q) - d
    /\ \A i \in 1..Len(w) : w[i] = q[i + d]

LEMMA SuffixReadable ==
  ASSUME NEW q, Ordered(q), NEW w, NEW d, Suffix(w, q, d), w # <<>> => w[1].role = "user",
         NEW answered,
         \A c \in answered : \E t \in 1..Len(q) : q[t].role = "tool" /\ q[t].call = c
  PROVE  Readable(w, answered, Own(q))
<1>1. q \in Seq(Msg) /\ Len(q) \in Nat /\ w \in Seq(Msg) /\ Len(w) \in Nat /\ d \in Nat
  BY LenProperties DEF Ordered, Suffix
<1>2. ASSUME NEW i \in 1..Len(w)
      PROVE  i + d \in 1..Len(q) /\ w[i] = q[i + d]
  BY <1>1 DEF Suffix
<1>3. ASSUME NEW i \in 1..Len(w), NEW c \in (w[i].calls \cap answered) \cap Own(q)
      PROVE  AnsweredAfter(w, i, c)
  <2>1. i + d \in 1..Len(q) /\ w[i] = q[i + d]
    BY <1>2
  <2>2. PICK t \in 1..Len(q) : q[t].role = "tool" /\ q[t].call = c
    BY <1>3
  <2>3. PICK j \in 1..t - 1 : q[t].call \in q[j].calls /\ Between(q, j, t)
    BY <2>2 DEF Ordered
  <2>4. j = i + d
    <3>1. j \in 1..Len(q)
      BY <1>1
    <3>2. c \in q[j].calls /\ c \in q[i + d].calls
      BY <1>3, <2>1, <2>2, <2>3
    <3>3. QED
      BY <1>3, <2>1, <3>1, <3>2 DEF Own
  <2> DEFINE p == t - d
  <2>5. p \in i + 1 .. Len(w) /\ p \in 1..Len(w) /\ p + d = t
    <3>1. Len(w) = Len(q) - d
      BY DEF Suffix
    <3>2. t \in (i + d) + 1 .. Len(q) /\ i \in Nat
      BY <1>1, <2>4
    <3>3. QED
      BY <1>1, <3>1, <3>2
  <2>6. w[p].role = "tool" /\ w[p].call = c
    BY <2>2, <2>5 DEF Suffix
  <2>7. Between(w, i, p)
    <3> SUFFICES ASSUME NEW x \in i + 1 .. p - 1
                 PROVE  w[x].role \in {"tool", "event"}
      BY DEF Between
    <3>1. x \in 1..Len(w) /\ x + d \in j + 1 .. t - 1
      BY <1>1, <2>4, <2>5
    <3>2. w[x] = q[x + d]
      BY <1>2, <3>1
    <3>3. QED
      BY <2>3, <3>1, <3>2 DEF Between
  <2> HIDE DEF p
  <2>8. QED
    BY <2>5, <2>6, <2>7 DEF AnsweredAfter
<1>4. ASSUME NEW i \in 1..Len(w)
      PROVE  w[i].role # "assistant" => w[i].calls = {}
  BY <1>2 DEF Ordered
<1>5. QED
  BY <1>1, <1>3, <1>4 DEF Readable

LEMMA RestIsSuffix ==
  ASSUME NEW q \in Seq(Msg), NEW b \in 1..Len(q) + 1
  PROVE  Suffix(SubSeq(q, b, Len(q)), q, b - 1)
<1> DEFINE w == SubSeq(q, b, Len(q))  n == Len(q)
<1>1. n \in Nat /\ b \in Nat /\ b \in Int /\ n \in Int /\ \A i \in b .. n : q[i] \in Msg
  <2>1. n \in Nat
    BY LenProperties
  <2>2. \A i \in b .. n : i \in 1..n
    BY <2>1
  <2>3. QED
    BY <2>1, <2>2, ElementOfSeq
<1>2. /\ w \in Seq(Msg) /\ Len(w) = IF b <= n THEN n - b + 1 ELSE 0
      /\ \A i \in 1..n - b + 1 : w[i] = q[b + i - 1]
  BY <1>1, SubSeqProperties
<1> HIDE DEF w
<1>3. Len(w) = n - (b - 1) /\ Len(w) = n - b + 1 /\ b - 1 \in Nat
  BY <1>1, <1>2
<1>4. \A i \in 1..Len(w) : i \in 1..n - b + 1 /\ b + i - 1 = i + (b - 1)
  BY <1>1, <1>3
<1>5. QED
  BY <1>2, <1>3, <1>4 DEF Suffix, w

LEMMA LatestSuffix ==
  ASSUME NEW q \in Seq(Msg)
  PROVE  \E d \in Nat : Suffix(Latest(q), q, d)
<1> DEFINE b == IF Len(q) < History THEN 1 ELSE Len(q) + 1 - History
<1>1. Len(q) \in Nat /\ History \in Nat \ {0}
  BY LenProperties, AssistantAssumption
<1>2. b \in 1..Len(q) + 1 /\ b - 1 \in Nat
  BY <1>1
<1>3. Latest(q) = SubSeq(q, b, Len(q))
  BY DEF Latest
<1> HIDE DEF b
<1>4. QED
  BY <1>2, <1>3, RestIsSuffix

\* From the first message of the user on, nothing is left out of what is stored.
LEMMA WindowSuffix ==
  ASSUME NEW q \in Seq(Msg)
  PROVE  /\ Window(q) # <<>> => Window(q)[1].role = "user"
         /\ \E d \in Nat : Window(q) = <<>> \/ Suffix(Window(q), q, d)
<1> DEFINE last == Latest(q)
           users == {i \in DOMAIN last : last[i].role = "user"}
           u == CHOOSE i \in users : \A j \in users : i <= j
<1>1. CASE users = {}
  <2>1. Window(q) = <<>>
    BY <1>1 DEF Window
  <2>2. QED
    BY <2>1
<1>2. CASE users # {}
  <2>1. PICK d \in Nat : Suffix(last, q, d)
    BY LatestSuffix
  <2>2. last \in Seq(Msg) /\ Len(last) \in Nat /\ DOMAIN last = 1..Len(last) /\ Len(q) \in Nat
    BY <2>1, LenProperties DEF Suffix
  <2>3. users \subseteq Nat /\ users \subseteq 1..Len(last)
    BY <2>2
  <2>4. u \in users
    <3> HIDE DEF users
    <3>1. \E x \in users : \A y \in users : x <= y
      BY <1>2, <2>3, Least
    <3>2. QED
      BY <3>1
  <2>5. last[u].role = "user" /\ u \in 1..Len(last)
    BY <2>3, <2>4
  <2>6. Window(q) = SubSeq(last, u, Len(last))
    BY <1>2 DEF Window
  <2> HIDE DEF u, users, last
  <2>7. Suffix(Window(q), last, u - 1)
    <3>1. u \in 1..Len(last) + 1
      BY <2>2, <2>5
    <3>2. QED
      BY <2>2, <2>6, <3>1, RestIsSuffix
  <2>8. Window(q)[1].role = "user"
    <3>1. 1 \in 1..Len(Window(q)) /\ 1 + (u - 1) = u
      BY <2>2, <2>5, <2>7 DEF Suffix
    <3>2. QED
      BY <2>5, <2>7, <3>1 DEF Suffix
  <2>9. Suffix(Window(q), q, (u - 1) + d) /\ (u - 1) + d \in Nat
    <3>1. \A i \in 1..Len(Window(q)) : i + (u - 1) \in 1..Len(last)
                                        /\ (i + (u - 1)) + d = i + ((u - 1) + d)
      BY <2>1, <2>2, <2>5, <2>7 DEF Suffix
    <3>2. Len(Window(q)) = Len(q) - ((u - 1) + d) /\ (u - 1) + d \in Nat
      BY <2>1, <2>2, <2>5, <2>7 DEF Suffix
    <3>3. QED
      BY <2>1, <2>7, <3>1, <3>2 DEF Suffix
  <2>10. QED
    BY <2>8, <2>9
<1>3. QED
  BY <1>1, <1>2

LEMMA OrderedPassedOn ==
  ASSUME NEW q, Ordered(q)
  PROVE  LET h == HistoryForModel(q) IN
         /\ Blocks(h, {}, Own(q))
         /\ h # <<>> => h[1].role = "user"
         /\ Window(q) \in Seq(Msg)
         /\ Cardinality(EventsTo(h, Len(h)))
              = Cardinality(EventsTo(Window(q), Len(Window(q))))
<1> DEFINE w == Window(q)
           answered == {m.call : m \in {n \in Range(Latest(q)) : n.role = "tool"}}
           end == Reading(w, answered)[Len(w)]
<1>1. q \in Seq(Msg)
  BY DEF Ordered
<1>2. PICK d \in Nat : Suffix(Latest(q), q, d)
  BY <1>1, LatestSuffix
<1>3. \A c \in answered : \E t \in 1..Len(q) : q[t].role = "tool" /\ q[t].call = c
  <2> SUFFICES ASSUME NEW m \in Range(Latest(q)), m.role = "tool"
               PROVE  \E t \in 1..Len(q) : q[t].role = "tool" /\ q[t].call = m.call
    OBVIOUS
  <2>1. Latest(q) \in Seq(Msg) /\ Len(q) \in Nat /\ Len(Latest(q)) \in Nat
    BY <1>1, <1>2, LenProperties DEF Suffix
  <2>2. PICK i \in 1..Len(Latest(q)) : m = Latest(q)[i]
    BY <2>1, LenProperties DEF Range
  <2>3. i + d \in 1..Len(q) /\ q[i + d] = m
    BY <1>2, <2>1, <2>2 DEF Suffix
  <2>4. QED
    BY <2>3
<1> HIDE DEF answered
<1>4. Readable(w, answered, Own(q)) /\ w \in Seq(Msg)
  <2>1. w # <<>> => w[1].role = "user"
    BY <1>1, WindowSuffix
  <2>2. CASE w = <<>>
    <3>1. w \in Seq(Msg) /\ 1..Len(w) = {}
      BY <2>2, EmptySeq
    <3>2. QED
      BY <2>2, <3>1 DEF Readable
  <2>3. CASE w # <<>>
    <3>1. PICK e \in Nat : Suffix(w, q, e)
      BY <1>1, <2>3, WindowSuffix
    <3>2. Readable(w, answered, Own(q))
      BY <1>3, <2>1, <3>1, SuffixReadable
    <3>3. QED
      BY <3>1, <3>2 DEF Suffix
  <2>4. QED
    BY <2>2, <2>3
<1>5. HistoryForModel(q) = end.out \o end.notes
  BY DEF HistoryForModel, answered
<1>6. QED
  BY <1>4, <1>5, PassedOn

\* Nothing but answers and decisions follows the calls of todo.
Left(q, todo) ==
    \E j \in 1..Len(q) : Range(todo) \subseteq q[j].calls /\ Between(q, j, Len(q) + 1)

Told ==
    /\ Ordered(msgs)
    /\ turn.at \in {"tool", "refuse", "result"} => Left(msgs, turn.todo)

LEMMA OneSaid ==
  ASSUME NEW q \in Seq(Msg), NEW m \in Msg
  PROVE  LET r == Append(q, m) IN
         /\ r \in Seq(Msg) /\ Len(r) = Len(q) + 1 /\ Len(q) \in Nat
         /\ \A i \in 1..Len(q) : r[i] = q[i]
         /\ r[Len(q) + 1] = m
         /\ \A i \in 1..Len(r) : i \in 1..Len(q) \/ i = Len(q) + 1
<1> DEFINE r == Append(q, m)
<1>1. /\ r \in Seq(Msg) /\ Len(r) = Len(q) + 1 /\ Len(q) \in Nat
      /\ \A i \in 1..Len(q) : r[i] = q[i]
      /\ r[Len(q) + 1] = m
  BY LenProperties, AppendProperties
<1> HIDE DEF r
<1>2. \A i \in 1..Len(r) : i \in 1..Len(q) \/ i = Len(q) + 1
  BY <1>1
<1>3. QED
  BY <1>1, <1>2 DEF r

LEMMA BetweenStays ==
  ASSUME NEW q \in Seq(Msg), NEW m \in Msg, NEW i \in Nat, NEW k \in 1..Len(q) + 1,
         Between(q, i, k)
  PROVE  Between(Append(q, m), i, k)
<1> DEFINE r == Append(q, m)
<1>1. Len(q) \in Nat /\ \A x \in 1..Len(q) : r[x] = q[x]
  BY OneSaid
<1>2. \A x \in i + 1 .. k - 1 : x \in 1..Len(q)
  BY <1>1
<1> HIDE DEF r
<1>3. Between(r, i, k)
  BY <1>1, <1>2 DEF Between
<1>4. QED
  BY <1>3 DEF r

\* What makes one more message in order: a result answers the last calls.
LEMMA OrderedSaid ==
  ASSUME NEW q, Ordered(q), NEW m \in Msg, m.role # "assistant" => m.calls = {},
         m.role = "tool" =>
           \E j \in 1..Len(q) : m.call \in q[j].calls /\ Between(q, j, Len(q) + 1)
  PROVE  Ordered(Append(q, m))
<1> DEFINE r == Append(q, m)  n == Len(q) + 1
<1>1. /\ q \in Seq(Msg) /\ r \in Seq(Msg) /\ Len(r) = n /\ Len(q) \in Nat
      /\ \A i \in 1..Len(q) : r[i] = q[i]
      /\ r[n] = m
      /\ \A i \in 1..n : i \in 1..Len(q) \/ i = n
  BY OneSaid DEF Ordered
<1>2. ASSUME NEW i \in Nat, NEW k \in 1..n, Between(q, i, k)
      PROVE  Between(r, i, k)
  BY <1>1, <1>2, BetweenStays
<1> HIDE DEF r
<1>3. \A i \in 1..n : r[i].role # "assistant" => r[i].calls = {}
  BY <1>1 DEF Ordered
<1>5. ASSUME NEW i \in 1..n, r[i].role = "tool"
      PROVE  \E j \in 1..i - 1 : r[i].call \in r[j].calls /\ Between(r, j, i)
  <2>1. CASE i \in 1..Len(q)
    <3>1. PICK j \in 1..i - 1 : q[i].call \in q[j].calls /\ Between(q, j, i)
      BY <1>1, <1>5, <2>1 DEF Ordered
    <3>2. j \in 1..Len(q) /\ j \in Nat
      BY <1>1, <2>1
    <3>3. Between(r, j, i)
      BY <1>2, <3>1, <3>2
    <3>4. QED
      BY <1>1, <2>1, <3>1, <3>2, <3>3
  <2>2. CASE i = n
    <3>1. PICK j \in 1..Len(q) : m.call \in q[j].calls /\ Between(q, j, n)
      BY <1>1, <1>5, <2>2
    <3>2. j \in 1..i - 1 /\ j \in Nat /\ n \in 1..n
      BY <1>1, <2>2
    <3>3. Between(r, j, n)
      BY <1>2, <3>1, <3>2
    <3>4. QED
      BY <1>1, <2>2, <3>1, <3>2, <3>3
  <2>3. QED
    BY <1>1, <2>1, <2>2
<1> HIDE DEF n
<1>6. QED
  BY <1>1, <1>3, <1>5 DEF Ordered, r

\* The calls that are left stay the last ones.
LEMMA LeftSaid ==
  ASSUME NEW q \in Seq(Msg), NEW m \in Msg, m.role \in {"tool", "event"}, NEW todo, NEW rest,
         Left(q, todo), Range(rest) \subseteq Range(todo)
  PROVE  Left(Append(q, m), rest)
<1> DEFINE r == Append(q, m)  n == Len(q) + 1
<1>1. PICK j \in 1..Len(q) : Range(todo) \subseteq q[j].calls /\ Between(q, j, n)
  BY DEF Left
<1>2. /\ Len(r) = n /\ Len(q) \in Nat /\ r[n] = m
      /\ \A i \in 1..Len(q) : r[i] = q[i]
  BY OneSaid
<1>3. j \in Nat /\ j \in 1..n /\ n \in 1..n
  BY <1>2
<1>4. Between(r, j, n)
  BY <1>1, <1>3, BetweenStays
<1> HIDE DEF r
<1>5. Between(r, j, n + 1)
  <2> SUFFICES ASSUME NEW x \in j + 1 .. n
               PROVE  r[x].role \in {"tool", "event"}
    BY <1>2 DEF Between
  <2>1. CASE x = n
    BY <1>2, <2>1
  <2>2. CASE x # n
    <3>1. x \in j + 1 .. n - 1
      BY <1>2, <2>2
    <3>2. QED
      BY <1>4, <3>1 DEF Between
  <2>3. QED
    BY <2>1, <2>2
<1>6. Range(rest) \subseteq r[j].calls
  BY <1>1, <1>2
<1> HIDE DEF n
<1>7. QED
  BY <1>2, <1>3, <1>5, <1>6 DEF Left, r

\* What is left, and without its first.
LEMMA OneOfThem ==
  ASSUME NEW todo \in Seq(Nat), todo # <<>>
  PROVE  Head(todo) \in Range(todo) /\ Range(Tail(todo)) \subseteq Range(todo)
<1> DEFINE rest == Tail(todo)
<1>1. /\ rest \in Seq(Nat) /\ Len(rest) = Len(todo) - 1 /\ Len(todo) \in Nat
      /\ \A i \in 1..Len(rest) : rest[i] = todo[i + 1]
  BY HeadTailProperties, LenProperties
<1>2. DOMAIN todo = 1..Len(todo) /\ DOMAIN rest = 1..Len(rest) /\ Len(rest) \in Nat
  BY <1>1, LenProperties
<1>3. Len(todo) # 0
  BY <1>1, EmptySeq
<1>4. Head(todo) = todo[1] /\ 1 \in DOMAIN todo
  BY <1>1, <1>2, <1>3, HeadTailProperties
<1> HIDE DEF rest
<1>5. \A i \in 1..Len(rest) : i + 1 \in DOMAIN todo
  BY <1>1, <1>2
<1>6. QED
  BY <1>1, <1>2, <1>4, <1>5 DEF Range, rest

\* What is said, and what it calls.
LEMMA WhatIsSaid ==
  ASSUME TalkOK
  PROVE  /\ \A m : m = [Message("user") EXCEPT !.turn = turn.no]
                     => m \in Msg /\ m.role = "user" /\ m.calls = {}
         /\ \A m : m = Message("event") => m \in Msg /\ m.role = "event" /\ m.calls = {}
         /\ \A c \in Nat, a \in Nat : /\ Answer(c, a) \in Msg /\ Answer(c, a).role = "tool"
                                      /\ Answer(c, a).call = c /\ Answer(c, a).calls = {}
<1>1. turn.no \in Nat
  BY InTheTalk
<1>2. \A m : m = [Message("user") EXCEPT !.turn = turn.no]
                     => m \in Msg /\ m.role = "user" /\ m.calls = {}
  <2>1. PICK b \in Msg : b = Message("user") /\ b.role = "user" /\ b.calls = {}
    BY Blank DEF Message
  <2>2. \A m : m = [b EXCEPT !.turn = turn.no] => m \in Msg /\ m.role = "user" /\ m.calls = {}
    BY <1>1, <2>1 DEF Msg
  <2>3. QED
    BY <2>1, <2>2
<1>3. \A m : m = Message("event") => m \in Msg /\ m.role = "event" /\ m.calls = {}
  BY DEF Message, Msg
<1>4. \A c \in Nat, a \in Nat : /\ Answer(c, a) \in Msg /\ Answer(c, a).role = "tool"
                                /\ Answer(c, a).call = c /\ Answer(c, a).calls = {}
  BY <1>1 DEF Answer, Message, Msg
<1>5. QED
  BY <1>2, <1>3, <1>4

LEMMA ReplySaid ==
  ASSUME TalkOK, NEW text \in BOOLEAN, NEW ids \in SUBSET Nat
  PROVE  /\ Reply(text, ids) \in Msg /\ Reply(text, ids).role = "assistant"
         /\ Reply(text, ids).calls = ids
BY ReplyMessage DEF Reply, Message

\* What the calls that are left are.
LEMMA TheirCalls ==
  ASSUME TalkOK
  PROVE  Range(turn.todo) \in SUBSET Nat
<1>1. turn.todo \in Seq(Nat) /\ DOMAIN turn.todo = 1..Len(turn.todo)
  BY InTheTalk, LenProperties
<1>2. \A k \in 1..Len(turn.todo) : turn.todo[k] \in Nat
  BY <1>1, ElementOfSeq
<1>3. QED
  BY <1>1, <1>2 DEF Range

----------------------------------------------------------------------------
(* The steps *)

\* A message that is no result.
LEMMA SaysNoResult ==
  ASSUME TalkOK, Told, NEW m \in Msg, m.role # "tool", m.role # "assistant" => m.calls = {},
         msgs' = Append(msgs, m)
  PROVE  Ordered(msgs')
<1>1. Ordered(msgs)
  BY DEF Told
<1>2. Ordered(Append(msgs, m))
  BY <1>1, OrderedSaid
<1>3. QED
  BY <1>2

\* An answer to the first of the calls that are left.
LEMMA Answers ==
  ASSUME TalkOK, Told, turn.at \in {"refuse", "result"}, turn.todo # <<>>, NEW a \in Nat,
         msgs' = Append(msgs, Answer(Head(turn.todo), a)), turn'.todo = Tail(turn.todo)
  PROVE  Told'
<1>1. /\ Ordered(msgs) /\ msgs \in Seq(Msg) /\ Left(msgs, turn.todo) /\ turn.todo \in Seq(Nat)
  BY InTheTalk DEF Told, TalkOK
<1>2. PICK todo \in Seq(Nat) : todo = turn.todo
  BY <1>1
<1>3. /\ Head(todo) \in Range(todo) /\ Range(Tail(todo)) \subseteq Range(todo)
      /\ Head(todo) \in Nat
  BY <1>2, OneOfThem, OneLess
<1>4. PICK m \in Msg : /\ m = Answer(Head(todo), a) /\ m.role = "tool" /\ m.call = Head(todo)
                       /\ m.calls = {}
  BY <1>3, WhatIsSaid
<1>5. \E j \in 1..Len(msgs) : m.call \in msgs[j].calls /\ Between(msgs, j, Len(msgs) + 1)
  BY <1>1, <1>2, <1>3, <1>4 DEF Left
<1>6. Ordered(Append(msgs, m))
  BY <1>1, <1>4, <1>5, OrderedSaid
<1>7. Left(Append(msgs, m), Tail(todo))
  BY <1>1, <1>2, <1>3, <1>4, LeftSaid
<1>8. msgs' = Append(msgs, m) /\ turn'.todo = Tail(todo)
  BY <1>2, <1>4
<1>9. QED
  BY <1>6, <1>7, <1>8 DEF Told

LEMMA TurnUserTells ==
  ASSUME TalkOK, Told, TurnUser \/ TurnCut
  PROVE  Told'
<1>1. turn \in TurnState /\ \E at \in {"history", "end"} : turn' = [turn EXCEPT !.at = at]
  BY DEF TurnUser, TurnCut, To, TalkOK
<1>2. turn'.at \notin {"tool", "refuse", "result"}
  BY <1>1 DEF TurnState
<1>3. Ordered(msgs')
  <2>1. CASE TurnUser
    <3>1. PICK m \in Msg : /\ m = [Message("user") EXCEPT !.turn = turn.no]
                           /\ m.role = "user" /\ m.calls = {}
      BY WhatIsSaid
    <3>2. msgs' = Append(msgs, m)
      BY <2>1, <3>1 DEF TurnUser
    <3>3. QED
      BY <3>1, <3>2, SaysNoResult
  <2>2. CASE TurnCut /\ msgs' = msgs
    BY <1>1, <2>2 DEF Told
  <2>3. CASE TurnCut /\ msgs' = Append(msgs, Reply(TRUE, {}))
    <3>1. PICK m \in Msg : m = Reply(TRUE, {}) /\ m.role = "assistant" /\ m.calls = {}
      BY ReplySaid
    <3>2. msgs' = Append(msgs, m)
      BY <2>3, <3>1
    <3>3. QED
      BY <3>1, <3>2, SaysNoResult
  <2>4. QED
    BY <2>1, <2>2, <2>3 DEF TurnCut
<1>4. QED
  BY <1>2, <1>3 DEF Told

\* A reply is stored with its calls: they are the last ones.
LEMMA TurnSaveTells ==
  ASSUME TalkOK, Told, TurnSave
  PROVE  Told'
<1>1. turn \in TurnState /\ turn.text \in BOOLEAN /\ msgs \in Seq(Msg)
  BY DEF TalkOK, TurnState
<1>2. PICK todo : todo = turn.todo
  OBVIOUS
<1>3. Range(todo) \in SUBSET Nat
  BY <1>2, TheirCalls
<1>4. PICK m \in Msg : /\ m = Reply(turn.text, Range(todo)) /\ m.role = "assistant"
                       /\ m.calls = Range(todo)
  BY <1>1, <1>3, ReplySaid
<1>5. msgs' = Append(msgs, m)
  BY <1>2, <1>4 DEF TurnSave
<1>6. Ordered(msgs')
  BY <1>4, <1>5, SaysNoResult
<1>7. Left(Append(msgs, m), todo)
  <2> DEFINE r == Append(msgs, m)
  <2>1. Len(r) = Len(msgs) + 1 /\ Len(msgs) \in Nat /\ r[Len(msgs) + 1] = m
    BY <1>1, OneSaid
  <2> HIDE DEF r
  <2>2. Len(r) \in 1..Len(r) /\ Range(todo) \subseteq r[Len(r)].calls
    BY <1>4, <2>1
  <2>3. Between(r, Len(r), Len(r) + 1)
    BY <2>1 DEF Between
  <2>4. QED
    BY <2>2, <2>3 DEF Left, r
<1>8. turn'.todo = todo
  BY <1>1, <1>2 DEF TurnSave, To, TurnState
<1>9. QED
  BY <1>5, <1>6, <1>7, <1>8 DEF Told

LEMMA TurnAnswerTells ==
  ASSUME TalkOK, Told, TurnRefuse \/ TurnResult
  PROVE  Told'
<1>1. turn \in TurnState /\ turn.asked \in Nat
  BY DEF TalkOK, TurnState
<1>2. CASE TurnRefuse /\ turn.todo = <<>>
  <2>1. msgs' = msgs /\ turn' = [turn EXCEPT !.at = "end"]
    BY <1>2 DEF TurnRefuse, To
  <2>2. turn'.at = "end"
    BY <1>1, <2>1 DEF TurnState
  <2>3. QED
    BY <1>1, <2>1, <2>2 DEF Told
<1>3. CASE TurnRefuse /\ turn.todo # <<>>
  <2>1. /\ turn.at = "refuse" /\ msgs' = Append(msgs, Answer(Head(turn.todo), 0))
        /\ turn' = [turn EXCEPT !.todo = Tail(turn.todo)]
    BY <1>3 DEF TurnRefuse
  <2>2. turn'.at = "refuse" /\ turn'.todo = Tail(turn.todo)
    BY <1>1, <2>1 DEF TurnState
  <2>3. QED
    BY <1>1, <1>3, <2>1, <2>2, Answers
<1>4. CASE TurnResult
  <2>1. /\ turn.at = "result" /\ msgs' = Append(msgs, Answer(Head(turn.todo), turn.asked))
        /\ turn' = [turn EXCEPT !.at = "tool", !.todo = Tail(turn.todo), !.asked = 0]
        /\ turn.todo # <<>>
    BY <1>4 DEF TurnResult, TalkOK
  <2>2. turn'.at = "tool" /\ turn'.todo = Tail(turn.todo)
    BY <1>1, <2>1 DEF TurnState
  <2>3. QED
    BY <1>1, <2>1, <2>2, Answers
<1>5. QED
  BY <1>2, <1>3, <1>4

\* A decision is noted at any moment of a turn.
LEMMA NoteTells ==
  ASSUME TalkOK, Told, NEW t \in Tabs, Note(t)
  PROVE  Told'
<1>1. turn' = turn /\ msgs \in Seq(Msg)
  BY DEF Note, notTurn, TalkOK
<1>2. PICK m \in Msg : m = Message("event") /\ m.role = "event" /\ m.calls = {}
  BY WhatIsSaid
<1>3. msgs' = Append(msgs, m)
  BY <1>2 DEF Note
<1>4. Ordered(msgs')
  BY <1>2, <1>3, SaysNoResult
<1>5. ASSUME turn.at \in {"tool", "refuse", "result"}
      PROVE  Left(Append(msgs, m), turn.todo)
  <2>1. Left(msgs, turn.todo)
    BY <1>5 DEF Told
  <2>2. QED
    BY <1>1, <1>2, <2>1, LeftSaid
<1>6. QED
  BY <1>1, <1>3, <1>4, <1>5 DEF Told

\* The rest store nothing: the turn has calls that are left only where it had them.
LEMMA QuietTells ==
  ASSUME Told, msgs' = msgs,
         \/ turn'.at \notin {"tool", "refuse", "result"}
         \/ turn.at = "tool" /\ turn'.at \in {"tool", "result"} /\ turn'.todo = turn.todo
         \/ UNCHANGED turn
  PROVE  Told'
BY DEF Told

LEMMA StartTells ==
  ASSUME NEW new \in BOOLEAN, Start(new)
  PROVE  turn'.at \notin {"tool", "refuse", "result"}
<1>1. PICK at \in {"user", "history"} : at = IF new THEN "user" ELSE "history"
  OBVIOUS
<1>2. turn' = [NoTurn EXCEPT !.at = at, !.no = turns + 1, !.from = Len(msgs)]
  BY <1>1 DEF Start
<1>3. turn'.at = at
  BY <1>2 DEF NoTurn
<1>4. QED
  BY <1>3

LEMMA TurnMovesTells ==
  ASSUME TalkOK, Told, TurnHistory \/ TurnReply \/ TurnTool \/ TurnRound \/ Stop
  PROVE  Told'
<1>1. msgs' = msgs /\ turn \in TurnState
  BY DEF TurnHistory, TurnReply, TurnTool, TurnRound, Stop, TalkOK
<1>2. CASE TurnHistory
  <2>1. turn' = [turn EXCEPT !.at = "stream"]
    BY <1>2 DEF TurnHistory, To
  <2>2. turn'.at = "stream"
    BY <1>1, <2>1 DEF TurnState
  <2>3. QED
    BY <1>1, <2>2, QuietTells
<1>3. CASE TurnTool
  <2>1. /\ turn.at = "tool"
        /\ \/ turn' = [turn EXCEPT !.at = "end"]
           \/ turn' = [turn EXCEPT !.at = "result"]
           \/ turn' = [turn EXCEPT !.at = "result", !.asked = Len(acts) + 1]
    BY <1>3 DEF TurnTool, To
  <2>2. turn'.at = "end" \/ (turn'.at = "result" /\ turn'.todo = turn.todo)
    BY <1>1, <2>1 DEF TurnState
  <2>3. QED
    BY <1>1, <2>1, <2>2, QuietTells
<1>4. CASE TurnRound
  <2>1. \/ turn' = [turn EXCEPT !.at = "end"]
        \/ turn' = [turn EXCEPT !.at = "stream", !.round = turn.round + 1]
    BY <1>4 DEF TurnRound
  <2>2. turn'.at \in {"end", "stream"}
    BY <1>1, <2>1 DEF TurnState
  <2>3. QED
    BY <1>1, <2>2, QuietTells
<1>5. CASE Stop
  <2>1. turn.at \in {"stream", "tool"} /\ turn' = [turn EXCEPT !.stop = TRUE]
    BY <1>5 DEF Stop
  <2>2. turn'.at = turn.at /\ turn'.todo = turn.todo
    BY <1>1, <2>1 DEF TurnState
  <2>3. QED
    BY <1>1, <2>1, <2>2, QuietTells
<1>6. CASE TurnReply
  <2>1. PICK todo, text : turn' = [turn EXCEPT !.at = "save", !.text = text, !.todo = todo]
    BY <1>6 DEF TurnReply
  <2>2. turn'.at = "save"
    BY <1>1, <2>1 DEF TurnState
  <2>3. QED
    BY <1>1, <2>2, QuietTells
<1>7. QED
  BY <1>2, <1>3, <1>4, <1>5, <1>6

LEMMA NextTells ==
  ASSUME Talk, Told, [Next]_vars
  PROVE  Told'
<1>1. TalkOK
  BY DEF Talk
<1>2. CASE Turn /\ ~TurnEnd
  BY <1>1, <1>2, TurnUserTells, TurnSaveTells, TurnAnswerTells, TurnMovesTells DEF Turn
<1>3. CASE Stop
  BY <1>1, <1>3, TurnMovesTells
<1>4. CASE TurnEnd \/ Crash
  <2>1. msgs' = msgs /\ turn' = NoTurn
    BY <1>4 DEF TurnEnd, Crash
  <2>2. turn'.at = "none"
    BY <2>1 DEF NoTurn
  <2>3. QED
    BY <2>1, <2>2, QuietTells
<1>5. CASE Chat \/ Open \/ SendFails
  <2>1. UNCHANGED <<msgs, turn>>
    BY <1>5 DEF Chat, Open, OpenRead, OpenAnswer, Follow, SendFails
  <2>2. QED
    BY <2>1, QuietTells
<1>6. CASE Send \/ SendElsewhere
  <2>1. msgs' = msgs /\ Start(TRUE)
    BY <1>6 DEF Send, SendElsewhere
  <2>2. QED
    BY <2>1, StartTells, QuietTells
<1>7. ASSUME UNCHANGED talk
      PROVE  Told'
  <2>1. UNCHANGED <<msgs, turn>>
    BY <1>7 DEF talk
  <2>2. QED
    BY <2>1, QuietTells
<1>8. CASE List \/ TurnOff
  BY <1>7, <1>8, Elsewhere
<1>9. ASSUME NEW a \in DOMAIN acts, Age(a) \/ \E t \in Tabs : Approve(t, a) \/ Reject(t, a)
      PROVE  Told'
  BY <1>7, <1>9, Elsewhere
<1>10. ASSUME NEW t \in Tabs, Decide(t)
       PROVE  Told'
  <2>1. CASE Note(t)
    BY <1>1, <2>1, NoteTells
  <2>2. CASE GoOn(t)
    <3>1. msgs' = msgs /\ (Start(FALSE) \/ UNCHANGED turn)
      BY <2>2 DEF GoOn
    <3>2. QED
      BY <3>1, StartTells, QuietTells
  <2>3. QED
    BY <1>7, <1>10, <2>1, <2>2, Elsewhere DEF Decide
<1>11. CASE UNCHANGED vars
  BY <1>7, <1>11 DEF vars, talk
<1>12. QED
  BY <1>2, <1>3, <1>4, <1>5, <1>6, <1>8, <1>9, <1>10, <1>11 DEF Next, Turn

LEMMA InitTells == Init => Told
<1>1. SUFFICES ASSUME Init PROVE Told
  OBVIOUS
<1>2. msgs = <<>> /\ turn.at = "none" /\ <<>> \in Seq(Msg) /\ 1..Len(<<>>) = {}
  BY <1>1, EmptySeq, NoneRuns DEF Init
<1>3. PICK q \in Seq(Msg) : q = msgs /\ 1..Len(q) = {}
  BY <1>2
<1>4. Ordered(q)
  BY <1>3 DEF Ordered
<1>5. QED
  BY <1>2, <1>3, <1>4 DEF Told

\* A call that one message made is no other's.
LEMMA OneCaller ==
  ASSUME Ordered(msgs), NEW c \in Nat, Cardinality(Callers(c)) = 1
  PROVE  c \in Own(msgs)
<1>1. Len(msgs) \in Nat /\ DOMAIN msgs = 1..Len(msgs)
  BY LenProperties DEF Ordered
<1>2. IsFiniteSet(Callers(c))
  <2>1. Callers(c) \in SUBSET (1..Len(msgs)) /\ IsFiniteSet(1..Len(msgs))
    BY <1>1, FS_Interval DEF Callers
  <2>2. QED
    BY <2>1, FS_Subset
<1>3. PICK i : Callers(c) = {i}
  BY <1>2, FS_Singleton
<1>4. \A x \in 1..Len(msgs) : c \in msgs[x].calls => x = i
  BY <1>1, <1>3 DEF Callers
<1>5. QED
  BY <1>4 DEF Own

\* Of two results of one call in a block, only the first is passed on.
LEMMA OneResult ==
  ASSUME NEW h, NEW sure, Blocks(h, {}, sure), NEW j \in 1..Len(h), h[j].role = "assistant",
         NEW k \in 1..Len(h), NEW l \in 1..Len(h), j < k, k < l, Results(h, j, l),
         h[l].call = h[k].call
  PROVE  FALSE
<1>1. Len(h) \in Nat
  BY Sizes
<1>2. h[l].role = "tool"
  BY <1>1 DEF Results
<1>3. PICK i \in 1..Len(h) : ResultOf(h, l, i)
  BY <1>2 DEF Blocks
<1>4. i = j
  <2>1. CASE i < j
    <3>1. j \in i + 1 .. l
      BY <1>1, <2>1
    <3>2. QED
      BY <1>3, <3>1 DEF ResultOf, Results
  <2>2. CASE j < i
    <3>1. i \in j + 1 .. l
      BY <1>1, <1>3, <2>2 DEF ResultOf
    <3>2. QED
      BY <1>3, <3>1 DEF ResultOf, Results
  <2>3. QED
    BY <2>1, <2>2
<1>5. k \in i + 1 .. l - 1
  BY <1>1, <1>4
<1>6. QED
  BY <1>3, <1>5 DEF ResultOf

\* Of a conversation in order, the model is sent what is well formed.
LEMMA ToldWell ==
  ASSUME Told
  PROVE  WellFormed
<1> DEFINE h == HistoryForModel(msgs)
           Of(q, role) == {i \in DOMAIN q : q[i].role = role}
<1>0. Ordered(msgs)
  BY DEF Told
<1>1. /\ Blocks(h, {}, Own(msgs))
      /\ h # <<>> => h[1].role = "user"
      /\ Window(msgs) \in Seq(Msg)
      /\ Cardinality(EventsTo(h, Len(h)))
           = Cardinality(EventsTo(Window(msgs), Len(Window(msgs))))
  BY <1>0, OrderedPassedOn
<1> HIDE DEF h
<1> DEFINE Result(i, k) == /\ i < k /\ h[k].call \in h[i].calls
                           /\ \A x \in i + 1 .. k : h[x].role = "tool"
<1>2. h \in Seq(Msg) /\ DOMAIN h = 1..Len(h) /\ Len(h) \in Nat
  BY <1>1, LenProperties, Sizes
<1>3. ASSUME NEW k \in Of(h, "tool")
      PROVE  \E i \in Of(h, "assistant") :
               /\ Result(i, k)
               /\ \A l \in Of(h, "tool") : Result(i, l) /\ h[l].call = h[k].call => l = k
  <2>1. PICK i \in 1..Len(h) : ResultOf(h, k, i)
    BY <1>1, <1>2 DEF Blocks
  <2>2. i \in Of(h, "assistant") /\ Result(i, k)
    BY <1>2, <2>1 DEF ResultOf, Results
  <2>3. ASSUME NEW l \in Of(h, "tool"), Result(i, l), h[l].call = h[k].call, l # k
        PROVE  FALSE
    <3>1. k \in 1..Len(h) /\ l \in 1..Len(h) /\ h[i].role = "assistant" /\ i < k /\ i < l
      BY <1>2, <2>2, <2>3
    <3>2. Results(h, i, k) /\ Results(h, i, l)
      BY <2>2, <2>3 DEF Results
    <3>3. k < l \/ l < k
      BY <1>2, <2>3, <3>1
    <3>4. QED
      BY <1>1, <2>3, <3>1, <3>2, <3>3, OneResult
  <2>4. QED
    BY <2>2, <2>3
<1>4. ASSUME NEW i \in Of(h, "assistant"), NEW c \in h[i].calls, Cardinality(Callers(c)) = 1
      PROVE  \E k \in Of(h, "tool") : Result(i, k) /\ h[k].call = c
  <2>1. h[i] \in Msg /\ i \in 1..Len(h) /\ h[i].role = "assistant"
    BY <1>1, <1>2, Sizes
  <2>2. c \in Own(msgs)
    <3>1. c \in Nat
      BY <2>1 DEF Msg
    <3>2. QED
      BY <1>0, <1>4, <3>1, OneCaller
  <2>3. {} \cap Own(msgs) = {}
    OBVIOUS
  <2>4. Full(h, i, Own(msgs))
    BY <1>1, <2>1, <2>3, NoneWaited
  <2>5. PICK k \in i + 1 .. Len(h) : h[k].call = c /\ Results(h, i, k)
    BY <2>2, <2>4 DEF Full, Given
  <2>6. k \in 1..Len(h) /\ i < k /\ k \in i + 1 .. k
    BY <1>2, <2>1
  <2>7. k \in Of(h, "tool") /\ Result(i, k)
    BY <1>2, <2>5, <2>6 DEF Results
  <2>8. QED
    BY <2>5, <2>7
<1>5. Cardinality(Of(h, "event")) = Cardinality(Of(Window(msgs), "event"))
  <2>1. DOMAIN Window(msgs) = 1..Len(Window(msgs))
    BY <1>1, LenProperties
  <2>2. /\ Of(h, "event") = EventsTo(h, Len(h))
        /\ Of(Window(msgs), "event") = EventsTo(Window(msgs), Len(Window(msgs)))
    BY <1>2, <2>1 DEF EventsTo
  <2>3. QED
    BY <1>1, <2>2
<1>6. QED
  BY <1>1, <1>3, <1>4, <1>5 DEF WellFormed, h

\* What a turn sends the model (assistant/chat.ts, historyForModel) is well formed at every
\* moment and for any length of the window: it starts at a message of the user, every result
\* follows the reply that called it at once, one of each call, every call whose id no other
\* reply used has its result, and no decision noted after that message is lost, whatever
\* stops, crashes, cuts and notes came in between.
THEOREM HistoryWellFormed == Spec => []WellFormed
<1>1. Init => IInv /\ Talk /\ Told
  BY InitHolds, InitTalks, InitTells
<1>2. (IInv /\ Talk /\ Told) /\ [Next]_vars => (IInv /\ Talk /\ Told)'
  <2>1. IInv => acts \in Seq(Request)
    BY DEF IInv, Formed
  <2>2. QED
    BY <2>1, NextKeeps, NextTalks, NextTells
<1>3. Told => WellFormed
  BY ToldWell
<1>4. QED
  BY <1>1, <1>2, <1>3, PTL DEF Spec
=============================================================================
