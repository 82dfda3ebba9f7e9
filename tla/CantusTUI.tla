----------------------------- MODULE CantusTUI -----------------------------
(***************************************************************************)
(* The terminal dashboard (tui/app.py, widgets.py, client.py): the list of *)
(* runs, the cursor in it, the inspector, the health line, and the two     *)
(* tasks that refresh them. One is the message pump, which handles keys and*)
(* cursor events one at a time; the other is the polling timer, whose      *)
(* callback runs in a task of its own. They share every pane, and either   *)
(* may run while the other awaits an answer of the server.                 *)
(***************************************************************************)
EXTENDS SequencesExt

CONSTANTS
  Run,        \* runs the server may record
  None,       \* no run, no session, no trace
  Window,     \* how many runs the server keeps on record
  MaxEvents   \* bound: changes of the server, failed requests, cursor moves

Tasks == {"pump", "timer"}
Session == [run : Run, status : {"running", "finished"}]

ASSUME TUIAssumption ==
  Window \in Nat \ {0} /\ MaxEvents \in Nat /\ None \notin Run \cup Session

VARIABLES
  recorded,     \* external: the server's sessions, oldest first
  rows, cursor, \* SessionsPane
  inspector,    \* InspectorPane: the run and session of the header, the trace
  health,       \* HealthPane: is the server up, and how many runs
  paused, polling,
  highlighted,  \* a RowHighlighted event waits for the pump
  task,         \* what each task awaits, and what it has in its locals
  events        \* count of what MaxEvents bounds

panes == <<rows, cursor, inspector, health>>
tuiVars == <<recorded, panes, paused, polling, highlighted, task, events>>

Event == events < MaxEvents /\ events' = events + 1

IdsOf(sessions) == {sessions[k].run : k \in DOMAIN sessions}
IndexOf(sessions, r) == CHOOSE k \in DOMAIN sessions : sessions[k].run = r

-----------------------------------------------------------------------------
(* External: the server.                                                   *)

RunStarts(r) ==
  /\ r \notin IdsOf(recorded) /\ Event
  /\ LET kept == IF Len(recorded) = Window THEN Tail(recorded) ELSE recorded
     IN recorded' = Append(kept, [run |-> r, status |-> "running"])
  /\ UNCHANGED <<panes, paused, polling, highlighted, task>>

RunFinishes(k) ==
  /\ k \in DOMAIN recorded /\ recorded[k].status = "running" /\ Event
  /\ recorded' = [recorded EXCEPT ![k].status = "finished"]
  /\ UNCHANGED <<panes, paused, polling, highlighted, task>>

(* A run has a trace once it is finished; what is not on record is a 404.  *)
TraceOf(r) ==
  IF \E k \in DOMAIN recorded : recorded[k] = [run |-> r, status |-> "finished"]
  THEN r ELSE None

-----------------------------------------------------------------------------
(* Requests.                                                               *)

Idle == [at |-> "idle", reply |-> "none", ok |-> FALSE, sessions |-> <<>>,
         run |-> None, session |-> None, trace |-> None]

Asks(at) == [Idle EXCEPT !.at = at, !.reply = "pending"]

Pending(t) == task[t].reply = "pending"

(* The server reads what it answers; the answer travels while time goes on.*)
ServerAnswers(t) ==
  /\ Pending(t)
  /\ task' = [task EXCEPT ![t] =
       CASE @.at = "snapshot" -> [@ EXCEPT !.reply = "ok", !.sessions = recorded]
         [] @.at = "health"   -> [@ EXCEPT !.reply = "ok"]
         [] @.at = "workflow" -> [@ EXCEPT !.reply = "ok", !.trace = TraceOf(task[t].run)]]
  /\ UNCHANGED <<recorded, panes, paused, polling, highlighted, events>>

(* A timeout, a lost connection, an error status or a body that is no JSON.*)
RequestFails(t) ==
  /\ Pending(t) /\ Event
  /\ task' = [task EXCEPT ![t].reply = "failed"]
  /\ UNCHANGED <<recorded, panes, paused, polling, highlighted>>

-----------------------------------------------------------------------------
(* What a task does between two awaits.                                    *)

CurrentRun(sessions, row) == IF row \in DOMAIN sessions THEN sessions[row].run ELSE None
CurrentSession(sessions, row) == IF row \in DOMAIN sessions THEN sessions[row] ELSE None

Nothing == [run |-> None, session |-> None, trace |-> None]

(* on_mount starts the timer when its first fetch is over.                 *)
Ends(t) == task' = [task EXCEPT ![t] = Idle] /\ polling' = (polling \/ t = "pump")

(* The run and its session are looked up together, ahead of the await.     *)
RefreshInspector(t, sessions, row) ==
  LET r == CurrentRun(sessions, row)
  IN IF r = None
     THEN inspector' = Nothing /\ Ends(t)
     ELSE /\ task' = [task EXCEPT ![t] = [Asks("workflow") EXCEPT
               !.run = r, !.session = CurrentSession(sessions, row)]]
          /\ UNCHANGED <<inspector, polling>>

(* Mutant: the inspector is left to the cursor events.                     *)
LeaveInspector(t, sessions, row) == Ends(t) /\ UNCHANGED inspector

FetchEnds(t, sessions, row) == RefreshInspector(t, sessions, row)

GotSnapshot(t) ==
  /\ task[t].at = "snapshot" /\ ~Pending(t)
  /\ task' = [task EXCEPT ![t] = [Asks("health") EXCEPT
       !.ok = task[t].reply = "ok", !.sessions = task[t].sessions]]
  /\ UNCHANGED <<recorded, panes, paused, polling, highlighted, events>>

(* Mutant: the cursor stays in its row.                                    *)
SameRow(previous, sessions) == IF cursor \in DOMAIN sessions THEN cursor ELSE 1

(* clear() puts the cursor in the first row.                               *)
CursorAfter(previous, sessions) ==
  IF previous # None /\ previous \in IdsOf(sessions) THEN IndexOf(sessions, previous) ELSE 1

RowsAfter(sessions) == sessions

(* The health line says down, or counts the runs of the snapshot.          *)
HealthAfter(up, sessions) == [up |-> up, runs |-> IF up THEN Len(sessions) ELSE 0]

(* A failed snapshot leaves the rows as they are. Rebuilding them may post *)
(* a cursor event.                                                         *)
GotHealth(t) ==
  LET up == task[t].ok /\ task[t].reply = "ok"
  IN /\ task[t].at = "health" /\ ~Pending(t)
     /\ IF task[t].ok
        THEN /\ rows' = RowsAfter(task[t].sessions)
             /\ cursor' = CursorAfter(CurrentRun(rows, cursor), rows')
             /\ highlighted' \in {highlighted, TRUE}
        ELSE UNCHANGED <<rows, cursor, highlighted>>
     /\ health' = HealthAfter(up, task[t].sessions)
     /\ FetchEnds(t, rows', cursor')
     /\ UNCHANGED <<recorded, paused, events>>

(* Mutant: the session of the header is looked up after the await.         *)
SessionNow(t) == CurrentSession(rows, cursor)

HeaderSession(t) == task[t].session

(* A failed request shows the run without a trace, as a 404 does.          *)
GotWorkflow(t) ==
  /\ task[t].at = "workflow" /\ ~Pending(t)
  /\ inspector' = [run |-> task[t].run, session |-> HeaderSession(t), trace |-> task[t].trace]
  /\ Ends(t)
  /\ UNCHANGED <<recorded, rows, cursor, health, paused, highlighted, events>>

Resume(t) == GotSnapshot(t) \/ GotHealth(t) \/ GotWorkflow(t)

-----------------------------------------------------------------------------
(* The timer and the pump.                                                 *)

IsIdle(t) == task[t].at = "idle"

Tick ==
  /\ polling /\ ~paused /\ IsIdle("timer")
  /\ task' = [task EXCEPT !["timer"] = Asks("snapshot")]
  /\ UNCHANGED <<recorded, panes, paused, polling, highlighted, events>>

ActionRefresh ==
  /\ IsIdle("pump") /\ Event
  /\ task' = [task EXCEPT !["pump"] = Asks("snapshot")]
  /\ UNCHANGED <<recorded, panes, paused, polling, highlighted>>

ActionTogglePause ==
  /\ IsIdle("pump") /\ paused' = ~paused
  /\ UNCHANGED <<recorded, panes, polling, highlighted, task, events>>

(* A key of the list itself, which has a message pump of its own.          *)
MoveCursor ==
  /\ Event
  /\ \E k \in DOMAIN rows \ {cursor} : cursor' = k
  /\ highlighted' = TRUE
  /\ UNCHANGED <<recorded, rows, inspector, health, paused, polling, task>>

OnRowHighlighted ==
  /\ IsIdle("pump") /\ highlighted
  /\ highlighted' = FALSE
  /\ RefreshInspector("pump", rows, cursor)
  /\ UNCHANGED <<recorded, rows, cursor, health, paused, events>>

(* Enter, which also shows the tab of the inspector.                       *)
OnRowSelected ==
  /\ IsIdle("pump") /\ rows # <<>> /\ Event
  /\ RefreshInspector("pump", rows, cursor)
  /\ UNCHANGED <<recorded, rows, cursor, health, paused, highlighted>>

-----------------------------------------------------------------------------
TUIInit ==
  /\ recorded = <<>>
  /\ rows = <<>> /\ cursor = 1 /\ inspector = Nothing
  /\ health = [up |-> FALSE, runs |-> 0]
  /\ paused = FALSE /\ polling = FALSE /\ highlighted = FALSE /\ events = 0
  /\ task = [pump |-> Asks("snapshot"), timer |-> Idle]

Keys == ActionRefresh \/ ActionTogglePause \/ MoveCursor \/ OnRowSelected

TUINext ==
  \/ \E r \in Run : RunStarts(r)
  \/ \E k \in 1..Window : RunFinishes(k)
  \/ \E t \in Tasks : ServerAnswers(t) \/ RequestFails(t) \/ Resume(t)
  \/ Tick \/ OnRowHighlighted \/ Keys

(* The client's timeout ends every request; the event loop runs what is    *)
(* ready, the timer ticks, and the pump takes what is in its queue.        *)
Fairness ==
  /\ \A t \in Tasks : WF_tuiVars(ServerAnswers(t)) /\ WF_tuiVars(Resume(t))
  /\ WF_tuiVars(Tick) /\ WF_tuiVars(OnRowHighlighted)

TUISpec == TUIInit /\ [][TUINext]_tuiVars /\ Fairness

-----------------------------------------------------------------------------
(* Properties.                                                             *)

(* The header and the trace of the inspector are of one run, though both   *)
(* tasks refresh it, the cursor moves and the rows are rebuilt while they  *)
(* await the trace (app.py:151-162).                                       *)
InspectorShowsOneRun ==
  LET r == inspector.run
  IN /\ r # None => inspector.session # None /\ inspector.session.run = r
     /\ inspector.trace \in {None, r}

(* Rebuilding the rows, as runs start and old ones are evicted, never moves*)
(* the cursor to another run while its own is in the list                  *)
(* (widgets.py:140-159).                                                   *)
CursorFollowsRun ==
  [][LET r == CurrentRun(rows, cursor)
     IN rows' # rows /\ r \in IdsOf(rows') => CurrentRun(rows', cursor') = r]_tuiVars

UpToDate ==
  /\ rows = recorded
  /\ health = [up |-> TRUE, runs |-> Len(rows)]
  /\ inspector = IF rows = <<>> THEN Nothing
                 ELSE LET s == rows[cursor]
                      IN [run |-> s.run, session |-> s, trace |-> TraceOf(s.run)]

(* Unless it is paused, the dashboard ends up with what the server has on  *)
(* record, and the inspector with the run under the cursor, whatever       *)
(* requests failed and in whatever order the tasks were answered           *)
(* (app.py:122-149; openspec cantus-serve-tui spec.md:98 and 196).         *)
CatchesUp == <>[]~paused => <>[]UpToDate
=============================================================================
