---------------------------- MODULE Notifications ----------------------------
(* Notifications (ops/notification) and the garbage collector (ops/cleanup):    *)
(* a delivery reads the row, sends, and writes the outcome, and the job that     *)
(* does it may run twice at a time when its lease has passed.                    *)
EXTENDS Naturals, FiniteSets, Rows

CONSTANTS
    NoteIds,     \* notifications
    Senders,     \* workers of the notifications queue
    Channels,    \* channels of the notifications
    MaxAttempts, \* bound on failed attempts
    NFaults      \* bound on failed statements and crashes

VARIABLES
    notes,      \* ops_notifications
    deliveries, \* what each worker is doing: the row it read and what happened to the send
    sent,       \* how often each notification went out
    uncertain,  \* notifications whose deliveries overlapped, or ended before the outcome was written
    nfaults

nvars == <<notes, deliveries, sent, uncertain, nfaults>>

Note == [channel : Channels, status : {"pending", "delivered", "failed"}, attempts : 0..MaxAttempts, old : BOOLEAN]

ASSUME NotesAssumption == MaxAttempts \in Nat \ {0} /\ NFaults \in Nat /\ NoRow \notin Note

NIdle == [at |-> "idle"]

NotesInit ==
    /\ notes = [i \in NoteIds |-> NoRow]
    /\ deliveries = [w \in Senders |-> NIdle]
    /\ sent = [i \in NoteIds |-> 0]
    /\ uncertain = {} /\ nfaults = 0

NFault == nfaults < NFaults /\ nfaults' = nfaults + 1

On(w, i) == deliveries[w] # NIdle /\ deliveries[w].id = i

InsertNotification(i, c) ==
    /\ notes[i] = NoRow /\ sent[i] = 0 /\ i \notin uncertain
    /\ notes' = [notes EXCEPT ![i] = [channel |-> c, status |-> "pending", attempts |-> 0, old |-> FALSE]]
    /\ UNCHANGED <<deliveries, sent, uncertain, nfaults>>

MutToDeliver(i) == notes[i] # NoRow

\* Deliver: a delivered notification is not sent again.
ToDeliver(i) == notes[i] # NoRow /\ notes[i].status # "delivered"

\* handleNotify, and DrainPending for pending rows: GetNotification.
GetNotification(w, i) ==
    /\ deliveries[w] = NIdle
    /\ ToDeliver(i)
    /\ deliveries' = [deliveries EXCEPT ![w] = [at |-> "send", id |-> i]]
    /\ uncertain' = IF \E v \in Senders : On(v, i) THEN uncertain \cup {i} ELSE uncertain
    /\ UNCHANGED <<notes, sent, nfaults>>

\* Send: mail without a host is refused, and so is an answer of 400 or more; a request
\* that got through may still end in an error. The in-app sender sends nothing.
Send(w) ==
    /\ deliveries[w].at = "send"
    /\ \E out \in BOOLEAN, ok \in BOOLEAN :
        /\ notes[deliveries[w].id] # NoRow => (notes[deliveries[w].id].channel = "in_app" => ok)
        /\ ok => out
        /\ sent' = IF out THEN [sent EXCEPT ![deliveries[w].id] = IF @ < 2 THEN @ + 1 ELSE @] ELSE sent
        /\ deliveries' = [deliveries EXCEPT ![w].at = IF ok THEN "delivered" ELSE "failed"]
        /\ uncertain' = IF out /\ ~ok THEN uncertain \cup {deliveries[w].id} ELSE uncertain
    /\ UNCHANGED <<notes, nfaults>>

\* MarkNotificationDelivered, MarkNotificationFailed: only a failure counts an attempt.
Marked(row, outcome) ==
    IF outcome = "delivered" THEN [row EXCEPT !.status = "delivered", !.old = FALSE]
    ELSE [row EXCEPT !.status = "failed", !.old = FALSE, !.attempts = IF @ < MaxAttempts THEN @ + 1 ELSE @]

\* A failed send whose mark is written ends the job without an error: it is not retried.
MarkOutcome(w) ==
    /\ deliveries[w].at \in {"delivered", "failed"}
    /\ LET i == deliveries[w].id IN
       \/ /\ notes' = IF notes[i] = NoRow THEN notes ELSE [notes EXCEPT ![i] = Marked(notes[i], deliveries[w].at)]
          /\ UNCHANGED <<uncertain, nfaults>>
       \/ NFault /\ uncertain' = uncertain \cup {i} /\ UNCHANGED notes
    /\ deliveries' = [deliveries EXCEPT ![w] = NIdle]
    /\ UNCHANGED sent

\* The worker dies, or its lease passes and the job starts again elsewhere.
DeliveryCrashes(w) ==
    /\ deliveries[w] # NIdle /\ NFault
    /\ uncertain' = uncertain \cup {deliveries[w].id}
    /\ deliveries' = [deliveries EXCEPT ![w] = NIdle]
    /\ UNCHANGED <<notes, sent>>

\* NotificationMaxAge passes since the last update of a row.
GrowOld(i) ==
    /\ notes[i] # NoRow /\ notes' = [notes EXCEPT ![i].old = TRUE]
    /\ UNCHANGED <<deliveries, sent, uncertain, nfaults>>

\* cleanNotifications deletes delivered rows only.
CleanNotifications ==
    notes' = [i \in NoteIds |-> IF notes[i] # NoRow /\ notes[i].old /\ notes[i].status = "delivered" THEN NoRow ELSE notes[i]]

\* handleCleanup: RunAll goes on after the error of one target, RunTarget runs one.
RunAll == CleanNotifications /\ UNCHANGED <<deliveries, sent, uncertain, nfaults>>

NotesNext ==
    \/ RunAll
    \/ \E i \in NoteIds : GrowOld(i) \/ \E c \in Channels : InsertNotification(i, c)
    \/ \E w \in Senders : Send(w) \/ MarkOutcome(w) \/ DeliveryCrashes(w) \/ \E i \in NoteIds : GetNotification(w, i)

NotesSpec == NotesInit /\ [][NotesNext]_nvars

-----------------------------------------------------------------------------
(* Properties *)

\* A row that says delivered was sent; one that says failed was tried, and one that is
\* pending was neither sent nor tried by a delivery whose outcome is written.
OutcomeTruthful ==
    \A i \in NoteIds :
        notes[i] # NoRow =>
            /\ notes[i] \in Note
            /\ notes[i].status = "delivered" => sent[i] > 0
            /\ notes[i].status = "failed" => notes[i].attempts > 0 \/ i \in uncertain
            /\ (notes[i].status = "pending" /\ i \notin uncertain /\ \A w \in Senders : ~On(w, i)) => sent[i] = 0

\* A notification goes out twice only after deliveries of it overlapped, or one ended
\* before its outcome was written.
SentOnce == \A i \in NoteIds : sent[i] > 1 => i \in uncertain

\* The status of a notification tells what happened to it, and it goes out once, but for
\* deliveries that overlapped or lost their outcome.
DeliveriesTrue == OutcomeTruthful /\ SentOnce
=============================================================================
