----------------------------- MODULE Assistant -----------------------------
(***************************************************************************)
(* The built-in assistant: one conversation, its turns, the requests that  *)
(* wait for a person, and the chat that shows it.                          *)
(*                                                                         *)
(* A turn (assistant/route.ts, chat.ts, runs.ts) runs on the server apart  *)
(* from the request that started it.  A tool it calls may queue a change   *)
(* (mcp/context.ts); its user approves or rejects it in any tab            *)
(* (trpc/routers/agentAction.ts), the conversation is noted the decision,  *)
(* and a turn goes on with it.  The chat (AssistantPanel.vue) opens a      *)
(* conversation and follows its turn.                                      *)
(*                                                                         *)
(* A request made over MCP is decided in the same way, with its token's    *)
(* validity in place of the settings, and no conversation to note it in.   *)
(*                                                                         *)
(* A message is its role, what it calls or answers, and the turn it came   *)
(* from; what is written in it is left out.                                *)
(***************************************************************************)
EXTENDS Naturals, Sequences, FiniteSets, SequencesExt

CONSTANTS Tabs,      \* where decisions are made
          MaxRounds, \* MAX_ROUNDS
          History,   \* HISTORY_MESSAGES
          MaxCalls,  \* bound: tool calls of one reply
          Texts,     \* bound: may a reply of so many calls have text, or none?
          MaxMsgs,   \* bound: messages before the last reply
          MaxActs,   \* bound: requests
          MaxTurns,  \* bound
          MaxOpens,  \* bound: openings of the chat, and messages sent in another tab
          MaxFaults  \* bound: crashes, turns that fail, messages that do not get there

ASSUME AssistantAssumption ==
    /\ {MaxRounds, History} \subseteq Nat \ {0}
    /\ {MaxCalls, MaxMsgs, MaxActs, MaxTurns, MaxOpens, MaxFaults} \subseteq Nat
    /\ Texts \in [0..MaxCalls -> SUBSET BOOLEAN]

VARIABLES
    acts,    \* AgentAction
    ran,     \* history: how often the stored call of each one was run
    may,     \* is the assistant on, for this account?
    hand,    \* the decision each tab is making
    msgs,    \* AssistantMessage of the conversation, oldest first
    calls,   \* tool calls the provider named so far
    turn,    \* runs.get(conversationId)
    turns,   \* history: turns started
    events,  \* run.events: what the running turn showed so far
    panel, view,  \* the chat, and what it shows
    opens, faults

decisions == <<acts, ran, may, hand>>
chat == <<panel, view, opens>>
vars == <<acts, ran, may, hand, msgs, calls, turn, turns, events, panel, view, opens, faults>>

Fault == faults < MaxFaults /\ faults' = faults + 1

Message(role) == [role |-> role, calls |-> {}, call |-> 0, act |-> 0, text |-> FALSE,
                  turn |-> 0, round |-> 0]
NoTurn == [at |-> "none", no |-> 0, from |-> 0, round |-> 0, todo |-> <<>>, text |-> FALSE,
           asked |-> 0, stop |-> FALSE]
Running == turn.at # "none"
Unsent == MaxTurns + 1        \* a message that started no turn
NoHand == [at |-> "idle", act |-> 0]

\* What the chat shows of a message, with the turn it came from.
Shown(m) == IF m.role = "user" THEN {<<"user", m.turn, 0>>}
            ELSE IF m.text THEN {<<"text", m.turn, m.round>>}
            ELSE IF m.act # 0 THEN {<<"request", m.turn, m.act>>}
            ELSE {}
ShownUpto(n) == UNION {Shown(msgs[i]) : i \in 1..n}

----------------------------------------------------------------------------
(* historyForModel *)

\* MUTANT: a decision noted between a call and its result is passed on at once.
ReadNoteAtOnce(s, m, answered) ==
    CASE m.role = "event" -> [s EXCEPT !.out = Append(@, m)]
      [] m.role = "tool" /\ m.call \notin s.waiting -> s
      [] m.role = "tool" /\ m.call \in s.waiting ->
           [s EXCEPT !.out = Append(@, m), !.waiting = @ \ {m.call}]
      [] OTHER -> LET known == m.calls \cap answered IN
                  [s EXCEPT !.out = Append(@, [m EXCEPT !.calls = known]), !.waiting = known]

\* One message: tool results follow their calls at once, and the decisions noted
\* meanwhile wait for the last of them.
Read(s, m, answered) ==
    LET flushed(out, notes, waiting) ==
            IF waiting = {} THEN [out |-> out \o notes, notes |-> <<>>, waiting |-> {}]
            ELSE [out |-> out, notes |-> notes, waiting |-> waiting]
    IN
    CASE m.role = "event" -> flushed(s.out, Append(s.notes, m), s.waiting)
      [] m.role = "tool" /\ m.call \notin s.waiting -> flushed(s.out, s.notes, s.waiting)
      [] m.role = "tool" /\ m.call \in s.waiting ->
           flushed(Append(s.out, m), s.notes, s.waiting \ {m.call})
      [] OTHER -> LET known == m.calls \cap answered IN
                  [out |-> Append(s.out \o s.notes, [m EXCEPT !.calls = known]),
                   notes |-> <<>>, waiting |-> known]

\* The latest messages, from the first one of the user on.
Latest(stored) == SubSeq(stored, IF Len(stored) < History THEN 1 ELSE Len(stored) + 1 - History,
                         Len(stored))
Window(stored) ==
    LET last == Latest(stored)
        users == {i \in DOMAIN last : last[i].role = "user"}
    IN IF users = {} THEN <<>>
       ELSE SubSeq(last, CHOOSE i \in users : \A j \in users : i <= j, Len(last))

Unread == [out |-> <<>>, notes |-> <<>>, waiting |-> {}]
Reading(from, answered) ==
    LET read[i \in 0..Len(from)] ==
            IF i = 0 THEN Unread ELSE Read(read[i - 1], from[i], answered)
    IN read

\* No call is passed on without its result.
HistoryForModel(stored) ==
    LET from == Window(stored)
        answered == {m.call : m \in {n \in Range(Latest(stored)) : n.role = "tool"}}
        end == Reading(from, answered)[Len(from)]
    IN end.out \o end.notes

----------------------------------------------------------------------------
(* A turn *)

\* A message of the user is skipped when it reads like the one just sent (sentText), which
\* was shown at once; that of another turn may read the same.
Hear(S, now) ==
    \E same \in BOOLEAN :
        LET own == {e \in S : e[1] = "user"}
            skipped == IF panel.sent # 0 /\ (same \/ panel.sent = turn.no) THEN own ELSE {}
        IN /\ view' = view \cup (S \ skipped)
           /\ panel' = [now EXCEPT !.sent = IF skipped = {} THEN @ ELSE 0,
                                   !.lost = IF skipped \subseteq view THEN @ ELSE turn.no]

\* Every subscriber is passed what the turn shows.
Emit(S) ==
    /\ events' = events \cup S
    /\ view' = IF panel.at = "follow" THEN view \cup S ELSE view
NoEmit == UNCHANGED <<events, view>>

\* bound: what an approval does before its note shares nothing with a turn or the chat, so
\* it is done while both are at rest.
Approving == \E t \in Tabs : hand[t].at \in {"allow", "drop", "claim", "run", "record"}
AtRest == ~Running /\ panel.at = "shown"

\* startTurn and startRun: refused while one runs.
Start(new) ==
    /\ ~Approving
    /\ turns < MaxTurns /\ Len(msgs) < MaxMsgs     \* bound
    /\ turn' = [NoTurn EXCEPT !.at = IF new THEN "user" ELSE "history", !.no = turns + 1,
                              !.from = Len(msgs)]
    /\ turns' = turns + 1
    /\ events' = {}

To(at) == turn' = [turn EXCEPT !.at = at]

\* The user's message is stored and shown.
TurnUser ==
    /\ turn.at = "user"
    /\ msgs' = Append(msgs, [Message("user") EXCEPT !.turn = turn.no])
    /\ events' = events \cup {<<"user", turn.no, 0>>}
    /\ IF panel.at = "follow" THEN Hear({<<"user", turn.no, 0>>}, panel)
       ELSE UNCHANGED <<panel, view>>
    /\ To("history")
    /\ UNCHANGED <<decisions, calls, turns, opens, faults>>

\* The settings and the history are read: the model is sent HistoryForModel(msgs).
TurnHistory ==
    /\ turn.at = "history"
    /\ To("stream")
    /\ NoEmit
    /\ UNCHANGED <<decisions, msgs, calls, turns, panel, opens, faults>>

Reply(text, ids) == [Message("assistant") EXCEPT !.text = text, !.calls = ids,
                     !.turn = turn.no, !.round = turn.round]
Text == {<<"text", turn.no, turn.round>>}

\* The model replies, with or without calls.  Those the provider gave no id are named by
\* their place (collectStream): the same in every reply.
TurnReply ==
    /\ turn.at = "stream"
    /\ \E n \in 0..MaxCalls, text, named \in BOOLEAN :
          /\ text \in Texts[n]                      \* bound
          /\ n > 0 => Len(msgs) + n < MaxMsgs      \* bound
          /\ turn' = [turn EXCEPT !.at = "save", !.text = text,
                         !.todo = [i \in 1..n |-> IF named THEN MaxCalls + calls + i ELSE i]]
          /\ calls' = IF named THEN calls + n ELSE calls
          /\ Emit(IF text THEN Text ELSE {})
    /\ UNCHANGED <<decisions, msgs, turns, panel, opens, faults>>

\* Stopped while it replies: what was written is kept.  Otherwise the turn failed.
TurnCut ==
    /\ turn.at = "stream"
    /\ \/ /\ turn.stop
          /\ msgs' = Append(msgs, Reply(TRUE, {})) /\ Emit(Text) /\ UNCHANGED faults
       \/ /\ turn.stop \/ faults < MaxFaults
          /\ faults' = IF turn.stop THEN faults ELSE faults + 1
          /\ NoEmit /\ UNCHANGED msgs
    /\ To("end")
    /\ UNCHANGED <<decisions, calls, turns, panel, opens>>

\* The reply is stored; at the daily limit its calls are answered and not run.
TurnSave ==
    /\ turn.at = "save"
    /\ msgs' = Append(msgs, Reply(turn.text, Range(turn.todo)))
    /\ IF turn.todo = <<>> THEN To("end") ELSE To("tool") \/ To("refuse")
    /\ NoEmit
    /\ UNCHANGED <<decisions, calls, turns, panel, opens, faults>>

Answer(c, a) == [Message("tool") EXCEPT !.call = c, !.act = a, !.turn = turn.no]

TurnRefuse ==
    /\ turn.at = "refuse"
    /\ IF turn.todo = <<>> THEN To("end") /\ UNCHANGED msgs
       ELSE /\ msgs' = Append(msgs, Answer(Head(turn.todo), 0))
            /\ turn' = [turn EXCEPT !.todo = Tail(@)]
    /\ NoEmit
    /\ UNCHANGED <<decisions, calls, turns, panel, opens, faults>>

\* late: past its time, while it is pending
NewAct == [st |-> "pending", why |-> "none", late |-> FALSE, input |-> TRUE]

\* A call is run, unless the turn is stopped: it may queue a change.
TurnTool ==
    /\ turn.at = "tool" /\ turn.todo # <<>>
    /\ \/ turn.stop /\ To("end") /\ UNCHANGED <<acts, ran>>
       \/ ~turn.stop /\ To("result") /\ UNCHANGED <<acts, ran>>
       \/ /\ ~turn.stop /\ Len(acts) < MaxActs
          /\ acts' = Append(acts, NewAct) /\ ran' = Append(ran, 0)
          /\ turn' = [turn EXCEPT !.at = "result", !.asked = Len(acts) + 1]
    /\ NoEmit
    /\ UNCHANGED <<may, hand, msgs, calls, turns, panel, opens, faults>>

TurnResult ==
    /\ turn.at = "result"
    /\ msgs' = Append(msgs, Answer(Head(turn.todo), turn.asked))
    /\ turn' = [turn EXCEPT !.at = "tool", !.todo = Tail(@), !.asked = 0]
    /\ Emit(IF turn.asked # 0 THEN {<<"request", turn.no, turn.asked>>} ELSE {})
    /\ UNCHANGED <<decisions, calls, turns, panel, opens, faults>>

TurnRound ==
    /\ turn.at = "tool" /\ turn.todo = <<>>
    /\ turn' = IF turn.stop \/ turn.round + 1 >= MaxRounds THEN [turn EXCEPT !.at = "end"]
               ELSE [turn EXCEPT !.at = "stream", !.round = @ + 1]
    /\ NoEmit
    /\ UNCHANGED <<decisions, msgs, calls, turns, panel, opens, faults>>

\* finishRun: who follows is told, and the run is gone.
TurnEnd ==
    /\ turn.at = "end"
    /\ turn' = NoTurn /\ events' = {}
    /\ panel' = IF panel.at = "follow" THEN [panel EXCEPT !.at = "shown"] ELSE panel
    /\ UNCHANGED <<decisions, msgs, calls, turns, view, opens, faults>>

\* stopRun, where it is looked at
Stop ==
    /\ turn.at \in {"stream", "tool"} /\ ~turn.stop
    /\ turn' = [turn EXCEPT !.stop = TRUE]
    /\ UNCHANGED <<decisions, msgs, calls, turns, events, chat, faults>>

----------------------------------------------------------------------------
(* Requests *)

notTurn == <<calls, turn, turns, events, chat>>

\* The assistant is turned off, a day passes.
TurnOff ==
    /\ AtRest
    /\ may /\ may' = FALSE
    /\ UNCHANGED <<acts, ran, hand, msgs, notTurn, faults>>

Age(a) ==
    /\ AtRest
    /\ acts[a].st = "pending" /\ ~acts[a].late /\ acts' = [acts EXCEPT ![a].late = TRUE]
    /\ UNCHANGED <<ran, may, hand, msgs, notTurn, faults>>

\* list: what is past its time expires.
List ==
    /\ AtRest
    /\ \E a \in DOMAIN acts : acts[a].st = "pending" /\ acts[a].late
    /\ acts' = [a \in DOMAIN acts |->
                  IF acts[a].st = "pending" /\ acts[a].late
                  THEN [acts[a] EXCEPT !.st = "expired", !.late = FALSE, !.input = FALSE] ELSE acts[a]]
    /\ UNCHANGED <<ran, may, hand, msgs, notTurn, faults>>

Hand(t, at) == hand' = [hand EXCEPT ![t].at = at]
Done(t) == hand' = [hand EXCEPT ![t] = NoHand]

\* approve: decidable, then the assistant's settings, then the claim.
Approve(t, a) ==
    /\ AtRest
    /\ hand[t].at = "idle" /\ acts[a].st = "pending" /\ ~acts[a].late
    /\ hand' = [hand EXCEPT ![t] = [at |-> "allow", act |-> a]]
    /\ UNCHANGED <<acts, ran, may, msgs, notTurn, faults>>

Allow(t) ==
    /\ hand[t].at = "allow"
    /\ Hand(t, IF may THEN "claim" ELSE "drop")
    /\ UNCHANGED <<acts, ran, may, msgs, notTurn, faults>>

\* Written whatever became of the request meanwhile.
DropAct(t) ==
    /\ hand[t].at = "drop"
    /\ acts' = [acts EXCEPT ![hand[t].act] = [@ EXCEPT !.st = "rejected", !.why = "dropped",
                                                       !.late = FALSE, !.input = FALSE]]
    /\ Done(t)
    /\ UNCHANGED <<ran, may, msgs, notTurn, faults>>

\* MUTANT: claimed whatever its status.
ClaimAny(t) ==
    /\ hand[t].at = "claim"
    /\ acts' = [acts EXCEPT ![hand[t].act].st = "approved"]
    /\ Hand(t, "run")
    /\ UNCHANGED <<ran, may, msgs, notTurn, faults>>

Claim(t) ==
    /\ hand[t].at = "claim"
    /\ IF acts[hand[t].act].st = "pending"
       THEN /\ acts' = [acts EXCEPT ![hand[t].act] = [@ EXCEPT !.st = "approved", !.late = FALSE]]
            /\ Hand(t, "run")
       ELSE Done(t) /\ UNCHANGED acts
    /\ UNCHANGED <<ran, may, msgs, notTurn, faults>>

\* The stored call, as the account: it may throw, or answer that a step failed.
Run(t) ==
    /\ hand[t].at = "run"
    /\ ran' = [ran EXCEPT ![hand[t].act] = @ + 1]
    /\ Hand(t, "record")
    /\ UNCHANGED <<acts, may, msgs, notTurn, faults>>

Record(t) ==
    /\ hand[t].at = "record"
    /\ \E outcome \in {"done", "failed"} :
          acts' = [acts EXCEPT ![hand[t].act] = [@ EXCEPT !.st = outcome, !.input = FALSE]]
    /\ Hand(t, "note")
    /\ UNCHANGED <<ran, may, msgs, notTurn, faults>>

\* reject: one conditional write; a request past its time may still be rejected.
Reject(t, a) ==
    /\ panel.at \in {"shown", "follow"}     \* bound
    /\ hand[t].at = "idle" /\ acts[a].st = "pending"
    /\ acts' = [acts EXCEPT ![a] = [@ EXCEPT !.st = "rejected", !.why = "user", !.late = FALSE, !.input = FALSE]]
    /\ hand' = [hand EXCEPT ![t] = [at |-> "note", act |-> a]]
    /\ UNCHANGED <<ran, may, msgs, notTurn, faults>>

\* tellChat: the note, then a turn, refused when one runs or the assistant is off.
Note(t) ==
    /\ hand[t].at = "note"
    /\ msgs' = Append(msgs, Message("event"))
    /\ Hand(t, "start")
    /\ UNCHANGED <<acts, ran, may, notTurn, faults>>

GoOn(t) ==
    /\ hand[t].at = "start"
    /\ Done(t)
    /\ \/ ~Running /\ may /\ Start(FALSE)
       \/ UNCHANGED <<turn, turns, events>>
    /\ UNCHANGED <<acts, ran, may, msgs, calls, chat, faults>>

----------------------------------------------------------------------------
(* The chat *)

\* sent: the turn of the message in sentText, which nothing but its event resets; lost, a
\* history: the turn whose message was skipped and not shown
ViewOf(at) == [at |-> at, turn |-> 0, upto |-> 0, sent |-> panel.sent, lost |-> 0]

\* open: what was followed is left, and the conversation is asked for.
Open ==
    /\ \A t \in Tabs : hand[t].at = "idle"     \* bound
    /\ opens < MaxOpens /\ opens' = opens + 1
    /\ panel' = ViewOf("read") /\ view' = {}
    /\ UNCHANGED <<decisions, msgs, calls, turn, turns, events, faults>>

\* conversation: the messages are read, then whether a turn runs.
OpenRead ==
    /\ panel.at = "read"
    /\ panel' = [panel EXCEPT !.at = "answer", !.upto = Len(msgs)]
    /\ UNCHANGED <<decisions, msgs, calls, turn, turns, events, view, opens, faults>>

\* Shown up to the turn's start, whose own messages come with its events.
OpenAnswer ==
    /\ panel.at = "answer"
    /\ IF Running
       THEN /\ panel' = ViewOf("join")
            /\ view' = ShownUpto(IF turn.from < panel.upto THEN turn.from ELSE panel.upto)
       ELSE panel' = ViewOf("shown") /\ view' = ShownUpto(panel.upto)
    /\ UNCHANGED <<decisions, msgs, calls, turn, turns, events, opens, faults>>

\* MUTANT: only what comes from now on.
FollowFromNow ==
    /\ panel.at = "join"
    /\ panel' = IF Running THEN [panel EXCEPT !.at = "follow", !.turn = turn.no]
                ELSE [panel EXCEPT !.at = "shown"]
    /\ UNCHANGED <<decisions, msgs, calls, turn, turns, events, view, opens, faults>>

\* followChat and subscribe: the turn so far, then the rest; nothing when none runs.
Follow ==
    /\ panel.at = "join"
    /\ IF Running
       THEN Hear(events, [panel EXCEPT !.at = "follow", !.turn = turn.no])
       ELSE panel' = [panel EXCEPT !.at = "shown"] /\ UNCHANGED view
    /\ UNCHANGED <<decisions, msgs, calls, turn, turns, events, opens, faults>>

\* send: the message is shown at once, and the turn it starts is followed.
Send ==
    /\ panel.at = "shown" /\ ~Running /\ may
    /\ Start(TRUE)
    /\ panel' = [panel EXCEPT !.at = "follow", !.turn = turns + 1, !.sent = turns + 1, !.lost = 0]
    /\ view' = view \cup {<<"user", turns + 1, 0>>}
    /\ UNCHANGED <<decisions, msgs, calls, opens, faults>>

\* Refused, as a turn runs or the assistant is off, or it does not get there.
SendFails ==
    /\ panel.at = "shown" /\ Fault
    /\ panel' = [panel EXCEPT !.sent = Unsent]
    /\ UNCHANGED <<decisions, msgs, calls, turn, turns, events, view, opens>>

\* Another tab sends.
SendElsewhere ==
    /\ ~Running /\ may /\ opens < MaxOpens /\ opens' = opens + 1
    /\ Start(TRUE)
    /\ UNCHANGED <<decisions, msgs, calls, panel, view, faults>>

\* The backend stops and starts; the chat says that it lost the turn.
Crash ==
    /\ Fault
    /\ hand' = [t \in Tabs |-> NoHand]
    /\ turn' = NoTurn /\ events' = {}
    /\ panel' = ViewOf("shown")
    /\ UNCHANGED <<acts, ran, may, msgs, calls, turns, view, opens>>

Init ==
    /\ acts = <<>> /\ ran = <<>> /\ may = TRUE
    /\ hand = [t \in Tabs |-> NoHand]
    /\ msgs = <<>> /\ calls = 0 /\ turn = NoTurn /\ turns = 0 /\ events = {}
    /\ panel = [at |-> "shown", turn |-> 0, upto |-> 0, sent |-> 0, lost |-> 0]
    /\ view = {} /\ opens = 0 /\ faults = 0

Turn == \/ TurnUser \/ TurnHistory \/ TurnReply \/ TurnCut \/ TurnSave \/ TurnRefuse
        \/ TurnTool \/ TurnResult \/ TurnRound \/ TurnEnd
Decide(t) == \/ Allow(t) \/ DropAct(t) \/ Claim(t) \/ Run(t) \/ Record(t) \/ Note(t) \/ GoOn(t)
Chat == OpenRead \/ OpenAnswer \/ Follow

Next ==
    \/ Turn \/ Stop \/ Chat \/ Open \/ Send \/ SendFails \/ SendElsewhere \/ Crash
    \/ List \/ TurnOff
    \/ \E a \in DOMAIN acts : Age(a) \/ \E t \in Tabs : Approve(t, a) \/ Reject(t, a)
    \/ \E t \in Tabs : Decide(t)

\* What was begun goes on: the provider answers or its connection fails.
Spec == /\ Init /\ [][Next]_vars
        /\ WF_vars(Turn) /\ WF_vars(Chat) /\ \A t \in Tabs : WF_vars(Decide(t))

----------------------------------------------------------------------------
TypeOK ==
    /\ acts \in Seq([st : {"pending", "approved", "done", "failed", "rejected", "expired"},
                     why : {"none", "user", "dropped"}, late : BOOLEAN, input : BOOLEAN])
    /\ Len(acts) = Len(ran) /\ Len(acts) <= MaxActs
    /\ may \in BOOLEAN
    /\ hand \in [Tabs -> [at : {"idle", "allow", "drop", "claim", "run", "record", "note", "start"},
                          act : 0..Len(acts)]]
    /\ turn.at \in {"none", "user", "history", "stream", "save", "refuse", "tool", "result", "end"}
    /\ turn.no \in 0..turns /\ turn.from \in 0..Len(msgs) /\ turn.round \in 0..MaxRounds - 1
    /\ Range(turn.todo) \subseteq 1..MaxCalls + calls
    /\ panel.at \in {"read", "answer", "join", "follow", "shown"}
    /\ panel.turn \in 0..turns /\ panel.lost \in 0..turns /\ panel.upto \in 0..Len(msgs)
    /\ panel.sent \in 0..Unsent

\* A request runs at most once, and never when its user rejected it or it expired, whatever
\* tabs, lists and revocations meet; what ended keeps no input (it can hold a password).
Decided ==
    \A a \in DOMAIN acts :
        /\ ran[a] <= 1
        /\ acts[a].st \in {"pending", "expired"} \/ acts[a].why = "user" => ran[a] = 0
        /\ acts[a].st = "done" => ran[a] = 1
        /\ acts[a].st \notin {"pending", "approved"} => ~acts[a].input

\* The stored replies that made a call of this id.
Callers(c) == {i \in DOMAIN msgs : c \in msgs[i].calls}

\* What the model would be sent, at any moment, starts at a message of the user; each result
\* follows its reply at once, one of each call; no call whose id is its own is left without
\* its result; and no decision after that message is lost: stops, crashes, cuts at the limit
\* and decisions noted in between included.  (Of a provider that names no calls, a call left
\* by a stop is taken for answered by an earlier one of its place.)
WellFormed ==
    LET h == HistoryForModel(msgs)
        Of(q, role) == {i \in DOMAIN q : q[i].role = role}
        Result(i, k) == /\ i < k /\ h[k].call \in h[i].calls
                        /\ \A x \in i + 1 .. k : h[x].role = "tool"
    IN /\ h # <<>> => h[1].role = "user"
       /\ \A k \in Of(h, "tool") : \E i \in Of(h, "assistant") :
            /\ Result(i, k)
            /\ \A l \in Of(h, "tool") : Result(i, l) /\ h[l].call = h[k].call => l = k
       /\ \A i \in Of(h, "assistant") : \A c \in h[i].calls :
            Cardinality(Callers(c)) = 1 =>
               \E k \in Of(h, "tool") : Result(i, k) /\ h[k].call = c
       /\ Cardinality(Of(h, "event")) = Cardinality(Of(Window(msgs), "event"))

\* Whoever follows a turn gets all of it, from its start, whenever the following began: but
\* for the user's message, when it reads like one sent before that was never told back, as
\* after leaving the chat between sending and the turn's first event.
FollowedWhole ==
    LET missing == IF panel.lost = panel.turn THEN {<<"user", panel.turn, 0>>} ELSE {} IN
    panel.turn # 0 =>
        \A i \in DOMAIN msgs : msgs[i].turn = panel.turn => Shown(msgs[i]) \subseteq view \cup missing

=============================================================================
