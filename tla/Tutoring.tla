------------------------------ MODULE Tutoring ------------------------------
(***************************************************************************)
(* The tutoring conversations of one learner about the resources of one    *)
(* learning package (api/v1/tutoring.py, services/tutoring_service.py):    *)
(* streamed and plain turns, their thread, the events it hands to the      *)
(* response, pausing, leaving, the feedback a turn leaves, the mastery     *)
(* check that two signals propose and the review task a report creates.    *)
(*                                                                         *)
(* A streamed message and its empty reply are committed by the request.    *)
(* The response starts a thread; its one transaction reads the tables as   *)
(* they were when it started (MySQL REPEATABLE READ), runs the model,      *)
(* writes what it changed over whatever is committed by then.  Only the    *)
(* response hands a task of the turn to the background tasks.              *)
(***************************************************************************)
EXTENDS TutoringPolicy, FiniteSets

CONSTANTS
    MaxTurns,     \* bound: messages of the learner
    Sessions,     \* one conversation per resource, reused while it is active
    Messages,     \* the messages tried, see TutoringPolicy
    MaxOverlap,   \* bound: turns in progress at a time
    MaxSpecial    \* bound: messages without streaming, turns that raise, restarts,
                  \* pauses, departures and mastery checks asked for, together

ASSUME TurnsAssumption == MaxTurns \in Nat

ASSUME MessagesAssumption ==
  \A m \in Messages : m.says \in {"too_hard", "too_easy", "none"} /\ m.intent \in Intents

Turns == 1..MaxTurns

VARIABLES
    db,        \* the committed tables, see Init
    turns,     \* the handler or thread of each turn
    streams,   \* the response of each turn and the event that will end it
    pauses,    \* a pause has read the reply and will write it back
    special,
    crashed    \* history: the process was restarted

vars == <<db, turns, streams, pauses, special, crashed>>

NoFeedback == [id |-> 0]

Init ==
  /\ db = [count     |-> [s \in Sessions |-> 0],   \* turn_count
           reply     |-> [t \in Turns |-> "none"],
           feedback  |-> [t \in Turns |-> NoFeedback],
           proposals |-> <<>>,
           \* the path's current node is the one of the package's task
           current   |-> TRUE,
           task      |-> [t \in Turns |-> "none"]]
  /\ turns = [t \in Turns |-> [at |-> "free", id |-> 0]]
  /\ streams = [t \in Turns |->
                  [open |-> FALSE, event |-> "none", left |-> FALSE]]
  /\ pauses = {}
  /\ special = 0
  /\ crashed = FALSE

Special == special < MaxSpecial /\ special' = special + 1

\* Messages are numbered in the order in which they are sent.
IsNext(t) ==
  /\ turns[t].at = "free" /\ \A u \in 1..(t - 1) : turns[u].at # "free"
  /\ Cardinality({u \in 1..(t - 1) : turns[u].at # "done"}) < MaxOverlap

-----------------------------------------------------------------------------
(* Sending a message                                                       *)

\* create_streaming_messages: message and reply are committed before the
\* response is produced.
Send(t, s) ==
  /\ IsNext(t)
  /\ db' = [db EXCEPT !.count[s] = @ + 1, !.reply[t] = "streaming"]
  /\ turns' = [turns EXCEPT ![t] = [at |-> "accepted", id |-> 0, session |-> s]]
  /\ streams' = [streams EXCEPT ![t].open = TRUE]
  /\ UNCHANGED <<pauses, special, crashed>>

\* The ids of feedback rows are given out in the order in which turns begin.
NextId == 1 + Cardinality({u \in Turns : turns[u].id > 0})

\* What a turn reads: as it was when the turn began.
View(s) == [count |-> db.count[s], feedback |-> db.feedback,
            proposals |-> db.proposals, current |-> db.current]

Running(t, s, streamed) ==
  turns' = [turns EXCEPT ![t] =
              [at |-> "running", id |-> NextId, session |-> s, streamed |-> streamed,
               view |-> View(s)]]

\* stream_tutoring_message.generate: the response, when it is first asked for
\* events, starts the thread.
Begin(t) ==
  /\ turns[t].at = "accepted" /\ streams[t].open
  /\ Running(t, turns[t].session, TRUE)
  /\ UNCHANGED <<db, streams, pauses, special, crashed>>

\* post_tutoring_message: the whole turn in the request.
Post(t, s) ==
  /\ IsNext(t) /\ Special
  /\ Running(t, s, FALSE)
  /\ UNCHANGED <<db, streams, pauses, crashed>>

-----------------------------------------------------------------------------
(* What a turn leaves behind                                               *)

\* The intents of earlier turns of the session.
Previous(view, s) ==
  {view.feedback[u].intent : u \in {u \in Turns :
     view.feedback[u] # NoFeedback /\ view.feedback[u].session = s}}

\* The turn's own number: a plain turn has just counted itself.
Number(turn) == turn.view.count + IF turn.streamed THEN 0 ELSE 1

Verdict(turn, m) == Decision(m, Number(turn), Previous(turn.view, turn.session))

OwnFeedback(turn, m) ==
  LET v == Verdict(turn, m)
  IN  [id       |-> turn.id, session |-> turn.session,
       intent   |-> v.intent, action |-> v.action,
       evidence |-> EvidenceStatus(m, v.intent)]

\* _pending_proposal: the open one of the node
Open(view) == {p \in DOMAIN view.proposals :
                 view.proposals[p].status \in {"collecting", "pending_validation"}}

Newest(rows, S) == CHOOSE u \in S : \A w \in S : rows[w].id <= rows[u].id

\* Variant of Signals: what a proposal rests on stays eligible.
SignalsKept(rows) ==
  {u \in Turns : rows[u] # NoFeedback /\ rows[u].evidence \in {"eligible", "consumed"}}

\* The rows _qualifying_feedback reads.
Signals(rows) == {u \in Turns : rows[u] # NoFeedback /\ rows[u].evidence = "eligible"}

\* _qualifying_feedback: the two latest signals, none while there are fewer.
LatestPair(rows) ==
  LET S == Signals(rows) IN
  IF Cardinality(S) < 2 THEN {}
  ELSE LET a == Newest(rows, S) IN {a, Newest(rows, S \ {a})}

Marked(rows, S, status) ==
  [u \in Turns |-> IF u \in S THEN [rows[u] EXCEPT !.evidence = status] ELSE rows[u]]

Agree(rows, S) == \A u, w \in S : rows[u].intent = rows[w].intent

\* Rows and proposal a turn writes, from the rows it has read and its own.
Outcome(rows, proposal) == [rows |-> rows, proposal |-> proposal]

NoProposal == [status |-> "none"]

\* maybe_create_automatic_assessment; bank: a question is left for the check.
Collected(turn, rows, t, bank) ==
  LET pair == LatestPair(rows) IN
  IF ~turn.view.current THEN Outcome(Marked(rows, {t}, "stale"), NoProposal)
  ELSE IF Open(turn.view) # {} \/ pair = {} THEN Outcome(rows, NoProposal)
  ELSE IF ~Agree(rows, pair) THEN Outcome(Marked(rows, pair, "conflict"), NoProposal)
  ELSE Outcome(Marked(rows, pair, "consumed"),
               [status  |-> IF bank THEN "pending_validation" ELSE "collecting",
                sources |-> pair,
                late    |-> turn.view.proposals # db.proposals
                            \/ turn.view.feedback # db.feedback])

\* The columns the session object changed, over the committed rows.
Written(before, after, committed) ==
  [u \in Turns |-> IF after[u] # before[u] THEN after[u] ELSE committed[u]]

\* The handler or thread of a turn comes to its end.
Ends(t) ==
  /\ turns[t].at = "running"
  /\ turns' = [turns EXCEPT ![t] = [at |-> "done", id |-> @.id]]

\* add_learner_message up to the commit of the request or the thread.
Commit(t) ==
  LET turn == turns[t] IN
  /\ Ends(t)
  /\ \E m \in Messages, bank \in BOOLEAN :
       LET rows == [turn.view.feedback EXCEPT ![t] = OwnFeedback(turn, m)]
           out  == IF Founded(m) THEN Collected(turn, rows, t, bank)
                   ELSE Outcome(rows, NoProposal)
       IN  db' = [db EXCEPT
             !.count[turn.session] = IF turn.streamed THEN @ ELSE Number(turn),
             !.feedback = Written(turn.view.feedback, out.rows, @),
             !.proposals = IF out.proposal = NoProposal THEN @ ELSE Append(@, out.proposal),
             !.reply[t] = "completed",
             !.task[t] = IF Verdict(turn, m).action # "review" THEN "none"
                         ELSE IF turn.streamed THEN "pending" ELSE "handed"]
  /\ streams' = IF turn.streamed
                THEN [streams EXCEPT ![t].event = "completed"] ELSE streams
  /\ UNCHANGED <<pauses, special, crashed>>

\* The learner or the package no longer fits, or the database fails: what the
\* transaction wrote is rolled back.
Raise(t) ==
  /\ Ends(t) /\ Special
  /\ streams' = IF turns[t].streamed
                THEN [streams EXCEPT ![t].event = "error"] ELSE streams
  /\ UNCHANGED <<db, pauses, crashed>>

-----------------------------------------------------------------------------
(* The response and what the learner does to it                            *)

\* Variant of Recorded: a failed reply is reported to the learner only.
Unrecorded(reply, said) == reply

\* update_streaming_reply of a turn that raised; said: after some of its text
Recorded(reply, said) ==
  IF said THEN "interrupted" ELSE "failed"

\* Variant of Handed: the task is created and nobody is told.
HandedNever(e, task) == task

\* The review task of a turn goes to the background tasks of its response.
Handed(e, task) == IF e = "completed" /\ task = "pending" THEN "handed" ELSE task

\* The response takes the event that ends it.  The pieces of the reply it
\* passes on before are left out.
Deliver(t) ==
  LET e == streams[t].event IN
  /\ streams[t].open /\ e # "none"
  /\ streams' = [streams EXCEPT ![t].event = "none", ![t].open = FALSE]
  /\ \E said \in {e = "error", FALSE} :
       db' = [db EXCEPT
         !.reply[t] = IF e = "error" THEN Recorded(@, said) ELSE @,
         !.task[t] = Handed(e, @)]
  /\ UNCHANGED <<turns, pauses, special, crashed>>

\* The learner leaves the page or pauses: a response that waits for an event
\* is closed when it has taken it, which may be the last one, any other at once.
Leave(t) ==
  /\ streams[t].open /\ ~streams[t].left /\ Special
  /\ \E waiting \in {turns[t].at # "accepted", FALSE} :
       streams' = [streams EXCEPT ![t].left = TRUE, ![t].open = waiting]
  /\ UNCHANGED <<db, turns, pauses, crashed>>

\* pause_tutoring_message: the reply is read, then written with its metadata
\* as it was read; the turn goes on.
ReadPause(t) ==
  /\ t \notin pauses /\ db.reply[t] = "streaming" /\ streams[t].left
  /\ pauses' = pauses \cup {t}
  /\ UNCHANGED <<db, turns, streams, special, crashed>>

WritePause(t) ==
  /\ t \in pauses
  /\ db' = [db EXCEPT !.reply[t] = "paused"]
  /\ pauses' = pauses \ {t}
  /\ UNCHANGED <<turns, streams, special, crashed>>

-----------------------------------------------------------------------------
(* Mastery checks, and the process                                         *)

\* request_mastery_assessment; without a question nothing is committed.
RequestMastery ==
  /\ Special
  /\ db.current /\ Open(db) = {}
  /\ db' = [db EXCEPT !.proposals = Append(@,
              [status |-> "pending_validation", sources |-> {}, late |-> FALSE])]
  /\ UNCHANGED <<turns, streams, pauses, crashed>>

\* The answer to a check; LearnerProgress has what it does to the path.
AnswerCheck ==
  \E p \in DOMAIN db.proposals :
    /\ db.proposals[p].status = "pending_validation"
    /\ \E stays \in {db.current, FALSE} :
         db' = [db EXCEPT !.proposals[p].status = "closed", !.current = stays]
    /\ UNCHANGED <<turns, streams, pauses, special, crashed>>

Crash ==
  /\ Special /\ crashed' = TRUE
  /\ turns' = [t \in Turns |->
                 IF turns[t].at = "free" THEN turns[t]
                 ELSE [at |-> "done", id |-> turns[t].id]]
  /\ streams' = [t \in Turns |->
                   [streams[t] EXCEPT !.open = FALSE, !.event = "none"]]
  /\ pauses' = {}
  /\ UNCHANGED db

Next ==
  \/ \E t \in Turns :
       \/ \E s \in Sessions : Send(t, s) \/ Post(t, s)
       \/ Begin(t) \/ Commit(t) \/ Raise(t)
       \/ Deliver(t) \/ Leave(t)
       \/ ReadPause(t) \/ WritePause(t)
  \/ RequestMastery \/ AnswerCheck \/ Crash

Spec == Init /\ [][Next]_vars

\* Threads and responses run, and a model call ends because it times out.
FairSpec ==
  /\ Spec
  /\ \A t \in Turns :
       /\ WF_vars(Begin(t)) /\ WF_turns(Ends(t))
       /\ WF_vars(Deliver(t))

-----------------------------------------------------------------------------
(* Properties                                                              *)

\* A proposal the system makes itself rests on two signals of one direction,
\* none of which an earlier proposal has used, and joins no open proposal;
\* unless its turn was overtaken by another commit.
SignalsCountedOnce ==
  \A p \in DOMAIN db.proposals :
    LET P == db.proposals[p] IN
    P.sources # {} =>
      /\ Cardinality(P.sources) = 2 /\ Agree(db.feedback, P.sources)
      /\ ~P.late => \A q \in 1..(p - 1) : db.proposals[q].sources \cap P.sources = {}
      /\ p \in Open(db) /\ ~P.late => \A q \in 1..(p - 1) : q \notin Open(db)

\* A reply does not stay "streaming": it is finished, failed or paused, unless
\* the learner left or the process was restarted.
RepliesSettle ==
  \A t \in Turns : db.reply[t] = "streaming" ~>
    \/ db.reply[t] # "streaming"
    \/ streams[t].left \/ crashed

\* A reported error gets its review: the task of a finished turn is handed to
\* the background tasks, unless the learner left or the process was restarted.
ReviewStarts ==
  \A t \in Turns : db.task[t] = "pending" ~>
    \/ db.task[t] = "handed"
    \/ streams[t].left \/ crashed
=============================================================================
