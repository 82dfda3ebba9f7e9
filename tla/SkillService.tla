----------------------------- MODULE SkillService -----------------------------
(***************************************************************************)
(* The HTTP service of cantus.serve: serve() builds the app, POST requests *)
(* run skills and record them in the SessionTracker, GET requests under    *)
(* /introspection read the tracker.                                        *)
(*                                                                         *)
(* The POST endpoint is a coroutine: between its awaits it has the event   *)
(* loop for itself. The GET endpoints are plain functions, which the web   *)
(* framework runs on threads: they may interleave with every step of the   *)
(* event loop, those of SessionTracker.finish() included.                  *)
(***************************************************************************)
EXTENDS Integers, SequencesExt

CONSTANTS Request,    \* POST requests
          Reader,     \* threads that answer GET requests
          MaxEntries  \* retention of the tracker (100)

ASSUME ServiceAssumption == MaxEntries \in Nat \ {0}

VARIABLES
  settings,   \* Settings, with whether the token is set and a name is reserved
  app,        \* "unbuilt", "serving", or "refused": serve() raised
  pc,         \* request -> where its endpoint is
  loop,       \* the requests the event loop is working for: one at most
  outcome,    \* history: request -> how the skill ended
  records,    \* the tracker's deque of runs, oldest first
  run,        \* request -> what the record of its run says
  mutations,  \* the mutation counter of the deque
  rpc, want,  \* reader -> where it is, and what it was asked for
  at, seen,   \* reader -> its iterator: position and mutation counter
  got,        \* reader -> what it has projected so far
  starts      \* history: the runs in the order they were opened

tracker == <<records, run, mutations, starts>>
reading == <<rpc, want, at, seen, got>>
vars == <<settings, app, pc, loop, outcome, tracker, reading>>

Sessions == "sessions"
Settings == [auth_mode : {"none", "bearer", "api_key"}, token_set : BOOLEAN,
             reserved_name : BOOLEAN, introspection : BOOLEAN,
             introspection_requires_auth : BOOLEAN]
Credential == {"nothing", "wrong", "bearer", "api_key"}

-----------------------------------------------------------------------------
(* serve() and require_auth().                                             *)

(* validate_auth_config, and the reserved names of the paths.              *)
ConfigurationValid ==
  (settings.auth_mode # "none" => settings.token_set) /\ ~settings.reserved_name

Serve ==
  /\ app = "unbuilt"
  /\ app' = IF ConfigurationValid THEN "serving" ELSE "refused"
  /\ UNCHANGED <<settings, pc, loop, outcome, tracker, reading>>

RequireAuth(credential) == settings.auth_mode \in {"none", credential}

IntrospectionGate(credential) ==
  settings.introspection_requires_auth => RequireAuth(credential)

-----------------------------------------------------------------------------
(* The POST endpoint.                                                      *)

(* Mutant: one run too many is retained.                                   *)
EvictLate(log) == IF Len(log) > MaxEntries THEN Tail(log) ELSE log

Evict(log) == IF Len(log) = MaxEntries THEN Tail(log) ELSE log

(* SessionTracker.start: append to a deque with a maxlen.                  *)
StartRun(q) ==
  /\ records' = Append(Evict(records), q)
  /\ run' = [run EXCEPT ![q] = [status |-> "running", stream |-> "none", event_count |-> 0]]
  /\ mutations' = mutations + 1
  /\ starts' = Append(starts, q)

(* The gate, then the endpoint up to its await of the body.                *)
Post(q, credential) ==
  /\ app = "serving" /\ pc[q] = "new" /\ loop = {}
  /\ IF RequireAuth(credential)
     THEN StartRun(q) /\ pc' = [pc EXCEPT ![q] = "body"]
     ELSE pc' = [pc EXCEPT ![q] = "401"] /\ UNCHANGED tracker
  /\ UNCHANGED <<settings, app, loop, outcome, reading>>

(* request.json() raises: the body is malformed or the client is gone.     *)
BodyFails(q) ==
  /\ pc[q] = "body" /\ loop = {}
  /\ pc' = [pc EXCEPT ![q] = "500"]
  /\ UNCHANGED <<settings, app, loop, outcome, tracker, reading>>

(* The skill runs on the event loop; nothing validates its arguments.      *)
RunSkill(q, how) ==
  /\ pc[q] = "body" /\ loop = {}
  /\ outcome' = [outcome EXCEPT ![q] = how]
  /\ pc' = [pc EXCEPT ![q] = "finish"] /\ loop' = {q}
  /\ UNCHANGED <<settings, app, tracker, reading>>

Status(q) == IF outcome[q] = "completed" THEN "200" ELSE "500"

(* Mutant: the newest run is closed instead of the one looked up.          *)
NewestRun(q) == Last(records)

FoundRun(q) == q

(* finish() finds the record and sets its status, unless it was evicted.   *)
FinishStatus(q) ==
  /\ pc[q] = "finish"
  /\ IF q \in Range(records)
     THEN /\ run' = [run EXCEPT ![FoundRun(q)].status = outcome[q]]
          /\ pc' = [pc EXCEPT ![q] = "finish_stream"] /\ UNCHANGED loop
     ELSE /\ pc' = [pc EXCEPT ![q] = Status(q)] /\ loop' = {} /\ UNCHANGED run
  /\ UNCHANGED <<settings, app, outcome, records, mutations, starts, reading>>

(* Mutant: the trace of a failed skill ends like that of a completed one.  *)
AlwaysCompleted(q) == "completed"

StreamOf(q) == outcome[q]

FinishStream(q) ==
  /\ pc[q] = "finish_stream"
  /\ run' = [run EXCEPT ![q].stream = StreamOf(q)]
  /\ pc' = [pc EXCEPT ![q] = "finish_count"]
  /\ UNCHANGED <<settings, app, loop, outcome, records, mutations, starts, reading>>

(* A call and its observation: two events. Then the response is sent.      *)
FinishCount(q) ==
  /\ pc[q] = "finish_count"
  /\ run' = [run EXCEPT ![q].event_count = 2]
  /\ pc' = [pc EXCEPT ![q] = Status(q)] /\ loop' = {}
  /\ UNCHANGED <<settings, app, outcome, records, mutations, starts, reading>>

Endpoint(q) ==
  \/ \E credential \in Credential : Post(q, credential)
  \/ BodyFails(q)
  \/ \E how \in {"completed", "error"} : RunSkill(q, how)
  \/ FinishStatus(q) \/ FinishStream(q) \/ FinishCount(q)

-----------------------------------------------------------------------------
(* The GET endpoints: /sessions and the roll-up read every record,         *)
(* /workflows/{run_id} looks for one.                                      *)

Answer(r, status) == rpc' = [rpc EXCEPT ![r] = status]

Get(r, what, credential) ==
  /\ app = "serving" /\ rpc[r] \notin {"iterating", "projecting"}
  /\ IF ~settings.introspection THEN Answer(r, "404") /\ UNCHANGED <<at, seen>>
     ELSE IF ~IntrospectionGate(credential) THEN Answer(r, "401") /\ UNCHANGED <<at, seen>>
     ELSE /\ Answer(r, "iterating")
          /\ at' = [at EXCEPT ![r] = 0] /\ seen' = [seen EXCEPT ![r] = mutations]
  /\ want' = [want EXCEPT ![r] = what] /\ got' = [got EXCEPT ![r] = <<>>]
  /\ UNCHANGED <<settings, app, pc, loop, outcome, tracker>>

(* The iterator of a deque notices that it changed.                        *)
Mutated(r) == mutations # seen[r]

(* "deque mutated during iteration"                                        *)
ReadFails(r) ==
  /\ rpc[r] = "iterating" /\ Mutated(r)
  /\ Answer(r, "500")
  /\ UNCHANGED <<settings, app, pc, loop, outcome, tracker, want, at, seen, got>>

Advance(r) == at' = [at EXCEPT ![r] = @ + 1]

(* entries() projects the next record, one attribute after the other.      *)
ReadStatus(r) ==
  /\ rpc[r] = "iterating" /\ ~Mutated(r) /\ want[r] = Sessions /\ at[r] < Len(records)
  /\ Answer(r, "projecting") /\ Advance(r)
  /\ LET q == records[at[r] + 1]
     IN got' = [got EXCEPT ![r] = Append(@, [run |-> q, status |-> run[q].status,
                                             event_count |-> 0])]
  /\ UNCHANGED <<settings, app, pc, loop, outcome, tracker, want, seen>>

ReadCount(r) ==
  /\ rpc[r] = "projecting"
  /\ Answer(r, "iterating")
  /\ LET k == Len(got[r])
     IN got' = [got EXCEPT ![r][k].event_count = run[got[r][k].run].event_count]
  /\ UNCHANGED <<settings, app, pc, loop, outcome, tracker, want, at, seen>>

(* _find passes over a record of another run ...                           *)
SkipEntry(r) ==
  /\ rpc[r] = "iterating" /\ ~Mutated(r) /\ want[r] # Sessions /\ at[r] < Len(records)
  /\ records[at[r] + 1] # want[r]
  /\ Advance(r)
  /\ UNCHANGED <<settings, app, pc, loop, outcome, tracker, rpc, want, seen, got>>

(* ... or finds it, and its stream, if it has one, is projected.           *)
FindTrace(r) ==
  /\ rpc[r] = "iterating" /\ ~Mutated(r) /\ want[r] # Sessions /\ at[r] < Len(records)
  /\ records[at[r] + 1] = want[r]
  /\ IF run[want[r]].stream = "none"
     THEN Answer(r, "404") /\ UNCHANGED got
     ELSE Answer(r, "200") /\ got' = [got EXCEPT ![r] = <<run[want[r]].stream>>]
  /\ UNCHANGED <<settings, app, pc, loop, outcome, tracker, want, at, seen>>

ReadEnds(r) ==
  /\ rpc[r] = "iterating" /\ ~Mutated(r) /\ at[r] >= Len(records)
  /\ Answer(r, IF want[r] = Sessions THEN "200" ELSE "404")
  /\ UNCHANGED <<settings, app, pc, loop, outcome, tracker, want, at, seen, got>>

Read(r) ==
  \/ \E what \in Request \cup {Sessions}, credential \in Credential : Get(r, what, credential)
  \/ ReadFails(r) \/ ReadStatus(r) \/ ReadCount(r) \/ SkipEntry(r) \/ FindTrace(r) \/ ReadEnds(r)

-----------------------------------------------------------------------------
Init ==
  /\ settings \in Settings /\ app = "unbuilt"
  /\ pc = [q \in Request |-> "new"] /\ loop = {}
  /\ outcome = [q \in Request |-> "none"]
  /\ records = <<>> /\ mutations = 0 /\ starts = <<>>
  /\ run = [q \in Request |-> [status |-> "none", stream |-> "none", event_count |-> 0]]
  /\ rpc = [r \in Reader |-> "idle"] /\ want = [r \in Reader |-> Sessions]
  /\ at = [r \in Reader |-> 0] /\ seen = [r \in Reader |-> 0]
  /\ got = [r \in Reader |-> <<>>]

Next == Serve \/ (\E q \in Request : Endpoint(q)) \/ (\E r \in Reader : Read(r))

Spec == Init /\ [][Next]_vars

-----------------------------------------------------------------------------
(* Properties.                                                             *)

Outcome == {"none", "completed", "error"}
Entry == [run : Request, status : {"running", "completed", "error"}, event_count : {0, 2}]

(* Every variable keeps its type, and nothing happens before serve() has   *)
(* accepted the configuration.                                             *)
TypeOK ==
  /\ settings \in Settings /\ app \in {"unbuilt", "serving", "refused"}
  /\ pc \in [Request -> {"new", "401", "body", "finish", "finish_stream", "finish_count",
                         "200", "500"}]
  /\ loop \in SUBSET Request /\ outcome \in [Request -> Outcome]
  /\ records \in Seq(Request) /\ Len(records) <= MaxEntries
  /\ run \in [Request -> [status : {"none", "running", "completed", "error"},
                         stream : Outcome, event_count : {0, 2}]]
  /\ mutations \in Nat /\ starts \in Seq(Request)
  /\ rpc \in [Reader -> {"idle", "401", "404", "iterating", "projecting", "200", "500"}]
  /\ want \in [Reader -> Request \cup {Sessions}]
  /\ at \in [Reader -> 0..MaxEntries] /\ seen \in [Reader -> 0..mutations]
  /\ \A r \in Reader : got[r] \in Seq(IF want[r] = Sessions THEN Entry ELSE Outcome)
  /\ app # "serving" => records = <<>> /\ \A r \in Reader : rpc[r] = "idle"

(* The newest MaxEntries runs are on record, each answered one with the    *)
(* outcome of its skill, a trace of its two events, and nothing of another *)
(* run; one that goes on "running" is in progress, or its body could not   *)
(* be read (introspection.py:166-193, app.py:237-264).                     *)
NewestRunsAreRecorded ==
  \A k \in 1..Len(starts) :
    LET q == starts[k] IN
    /\ q \in Range(records) <=> k > Len(starts) - MaxEntries
    /\ q \in Range(records) /\ outcome[q] # "none" /\ pc[q] \in {"200", "500"} =>
         run[q] = [status |-> outcome[q], stream |-> outcome[q], event_count |-> 2]
    /\ q \in Range(records) =>
         (run[q].status = "running" <=>
            pc[q] \in {"body", "finish"} \/ (pc[q] = "500" /\ outcome[q] = "none"))

(* What a reader is told of a run is true of it, whatever the event loop   *)
(* did while it was reading: no outcome of another run or ahead of its     *)
(* skill; and the list of sessions it gets is the one that was retained    *)
(* when it began to read: no run is skipped or listed twice because the    *)
(* deque moved on (introspection.py:179-217).                              *)
ReadsAreTruthful ==
  \A r \in Reader :
    /\ \A k \in 1..Len(got[r]) :
         IF want[r] = Sessions
         THEN LET e == got[r][k] IN
              /\ e.status \in {"running", outcome[e.run]}
              /\ e.event_count > 0 => outcome[e.run] # "none"
         ELSE got[r][k] = outcome[want[r]]
    /\ rpc[r] = "200" /\ want[r] = Sessions =>
         LET first == IF seen[r] > MaxEntries THEN seen[r] - MaxEntries + 1 ELSE 1
         IN [k \in 1..Len(got[r]) |-> got[r][k].run] = SubSeq(starts, first, seen[r])
=============================================================================
