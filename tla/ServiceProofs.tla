----------------------------- MODULE ServiceProofs -----------------------------
(***************************************************************************)
(* Proofs about the service, for any requests, readers and retention, and  *)
(* about the terminal dashboard that shows it, for any runs, window of the *)
(* server and number of events.                                            *)
(***************************************************************************)
EXTENDS SkillService, CantusTUI, SequenceTheorems, TLAPS

-----------------------------------------------------------------------------
(* The service. Its properties rest on the records being the newest of the *)
(* runs started: what is on record then follows from where each request is,*)
(* and what a reader has collected from where it began, whatever was       *)
(* started since.                                                          *)

(* How many of the first n runs have been evicted.                         *)
Dropped(n) == IF n > MaxEntries THEN n - MaxEntries ELSE 0

(* The records are the newest MaxEntries runs, in the order they started.  *)
NewestRuns ==
  /\ mutations = Len(starts)
  /\ Len(records) = Len(starts) - Dropped(Len(starts))
  /\ \A i \in 1..Len(records) : records[i] = starts[Dropped(Len(starts)) + i]

(* A request starts at most one run.                                       *)
StartedOnce ==
  /\ \A j, k \in 1..Len(starts) : starts[j] = starts[k] => j = k
  /\ \A k \in 1..Len(starts) : pc[starts[k]] \notin {"new", "401"}

(* A request has an outcome once its skill has run.                        *)
OutcomeKnown ==
  \A q \in Request :
    /\ pc[q] \in {"new", "401", "body"} => outcome[q] = "none"
    /\ pc[q] \in {"finish", "finish_stream", "finish_count", "200"} => outcome[q] # "none"
    /\ run[q].event_count # 0 => outcome[q] # "none"

(* What finish() has set of the record of a run, by where its request is.  *)
Expected(q) ==
  [status |-> IF pc[q] \in {"body", "finish"} \/ outcome[q] = "none"
              THEN "running" ELSE outcome[q],
   stream |-> IF pc[q] \in {"finish_count", "200", "500"} THEN outcome[q] ELSE "none",
   event_count |-> IF pc[q] \in {"200", "500"} /\ outcome[q] # "none" THEN 2 ELSE 0]

Recorded == \A i \in 1..Len(records) : run[records[i]] = Expected(records[i])

(* A reader has collected the runs that were retained when it began, from  *)
(* the oldest on, and what it was told of them stays true.                 *)
CollectedBy(r) ==
  /\ rpc[r] = "projecting" => want[r] = Sessions /\ Len(got[r]) >= 1
  /\ want[r] = Sessions =>
       /\ rpc[r] \in {"iterating", "projecting"} => Len(got[r]) = at[r]
       /\ rpc[r] = "200" => Len(got[r]) = seen[r] - Dropped(seen[r])
       /\ \A k \in 1..Len(got[r]) :
            /\ k <= seen[r] - Dropped(seen[r])
            /\ got[r][k].run = starts[Dropped(seen[r]) + k]
            /\ got[r][k].status \in {"running", outcome[got[r][k].run]}
            /\ got[r][k].event_count # 0 => outcome[got[r][k].run] # "none"
  /\ want[r] # Sessions =>
       \A k \in 1..Len(got[r]) : got[r][k] # "none" /\ got[r][k] = outcome[want[r]]

Collected == DOMAIN got = Reader /\ \A r \in Reader : CollectedBy(r)

IInv ==
  TypeOK /\ NewestRuns /\ StartedOnce /\ OutcomeKnown /\ Recorded /\ Collected

(* Some record is kept, so that a new one always finds its place.          *)
LEMMA RetentionTyped == MaxEntries \in Nat /\ MaxEntries >= 1
BY ServiceAssumption

USE RetentionTyped

LEMMA InitInv == Init => IInv
<1> SUFFICES ASSUME Init PROVE IInv
  OBVIOUS
<1>1. TypeOK
  <2>1. /\ records \in Seq(Request) /\ Len(records) = 0 /\ starts \in Seq(Request)
        /\ Len(starts) = 0
    BY DEF Init
  <2>2. ASSUME NEW r \in Reader PROVE got[r] \in Seq(IF want[r] = Sessions THEN Entry ELSE Outcome)
    BY DEF Init
  <2>3. /\ at \in [Reader -> 0..MaxEntries] /\ seen \in [Reader -> 0..mutations]
        /\ want \in [Reader -> Request \cup {Sessions}]
    BY DEF Init
  <2> QED BY <2>1, <2>2, <2>3 DEF Init, TypeOK, Outcome
<1>2. NewestRuns /\ StartedOnce /\ Recorded
  BY DEF Init, NewestRuns, StartedOnce, Recorded, Dropped
<1>3. OutcomeKnown
  BY DEF Init, OutcomeKnown
<1>4. Collected
  BY DEF Init, Collected, CollectedBy
<1> QED BY <1>1, <1>2, <1>3, <1>4 DEF IInv

(* SessionTracker.start() appends the newest run to the records, and evicts*)
(* the oldest of a full deque.                                             *)
LEMMA StartKeepsWindow ==
  ASSUME IInv, NEW q \in Request, pc[q] = "new", StartRun(q), NEW place,
         place \notin {"new", "401"}, pc' = [pc EXCEPT ![q] = place]
  PROVE  /\ records' \in Seq(Request) /\ Len(records') <= MaxEntries
         /\ starts' \in Seq(Request) /\ Len(starts') = Len(starts) + 1
         /\ starts'[Len(starts')] = q
         /\ \A k \in 1..Len(starts) : starts'[k] = starts[k] /\ starts[k] \in Request
         /\ NewestRuns' /\ StartedOnce'
<1>1. /\ records \in Seq(Request) /\ Len(records) <= MaxEntries /\ starts \in Seq(Request)
      /\ mutations = Len(starts) /\ DOMAIN pc = Request
      /\ NewestRuns /\ StartedOnce
  BY DEF IInv, TypeOK, NewestRuns
<1>2. /\ starts' = Append(starts, q) /\ records' = Append(Evict(records), q)
      /\ mutations' = mutations + 1
  BY DEF StartRun
<1>3. /\ starts' \in Seq(Request) /\ Len(starts') = Len(starts) + 1
      /\ starts'[Len(starts')] = q /\ Len(starts) \in Nat
      /\ \A k \in 1..Len(starts) : starts'[k] = starts[k] /\ starts[k] \in Request
  BY <1>1, <1>2
<1>4. ASSUME Len(records) = MaxEntries
      PROVE  records' \in Seq(Request) /\ Len(records') <= MaxEntries /\ NewestRuns'
  <2>1. /\ Evict(records) \in Seq(Request) /\ Len(Evict(records)) = MaxEntries - 1
        /\ \A i \in 1..(MaxEntries - 1) : Evict(records)[i] = records[i + 1]
    BY <1>1, <1>4 DEF Evict
  <2>2. /\ records' \in Seq(Request) /\ Len(records') = MaxEntries
        /\ records'[MaxEntries] = q
        /\ \A i \in 1..(MaxEntries - 1) : records'[i] = records[i + 1]
    BY <1>2, <2>1
  <2>3. Dropped(Len(starts')) = Dropped(Len(starts)) + 1 /\ Dropped(Len(starts)) \in Nat
        /\ Len(starts') = Dropped(Len(starts')) + MaxEntries
    BY <1>1, <1>3, <1>4 DEF NewestRuns, Dropped
  <2>4. ASSUME NEW i \in 1..MaxEntries
        PROVE  records'[i] = starts'[Dropped(Len(starts')) + i]
    <3>1. CASE i = MaxEntries
      BY <1>3, <2>2, <2>3, <3>1
    <3>2. CASE i # MaxEntries
      <4>1. i + 1 \in 1..Len(records) /\ i \in 1..(MaxEntries - 1)
        BY <1>4, <3>2
      <4>2. records'[i] = starts[Dropped(Len(starts)) + (i + 1)]
        BY <1>1, <2>2, <4>1 DEF NewestRuns
      <4>3. /\ Dropped(Len(starts)) + (i + 1) = Dropped(Len(starts')) + i
            /\ Dropped(Len(starts)) + (i + 1) \in 1..Len(starts)
        BY <1>3, <1>4, <2>3, <4>1
      <4> QED BY <1>3, <4>2, <4>3
    <3> QED BY <3>1, <3>2
  <2>5. /\ mutations' = Len(starts') /\ Len(records') = Len(starts') - Dropped(Len(starts'))
        /\ Dropped(Len(starts')) \in Nat
    BY <1>1, <1>2, <1>3, <2>2, <2>3
  <2>6. NewestRuns'
    BY <2>2, <2>4, <2>5 DEF NewestRuns
  <2> QED BY <2>2, <2>6
<1>5. ASSUME Len(records) # MaxEntries
      PROVE  records' \in Seq(Request) /\ Len(records') <= MaxEntries /\ NewestRuns'
  <2>1. Len(records) = Len(starts) /\ Len(starts) < MaxEntries
    BY <1>1, <1>3, <1>5 DEF NewestRuns, Dropped
  <2>2. /\ records' \in Seq(Request) /\ Len(records') = Len(records) + 1
        /\ records'[Len(records) + 1] = q
        /\ \A i \in 1..Len(records) : records'[i] = records[i]
    BY <1>1, <1>2, <1>5 DEF Evict
  <2>3. Dropped(Len(starts')) = 0 /\ Dropped(Len(starts)) = 0
    BY <1>3, <2>1 DEF Dropped
  <2>4. \A i \in 1..Len(records') : records'[i] = starts'[i]
    BY <1>1, <1>3, <2>1, <2>2, <2>3 DEF NewestRuns
  <2>5. mutations' = Len(starts') /\ Len(records') = Len(starts')
    BY <1>1, <1>2, <1>3, <2>1, <2>2
  <2>6. NewestRuns'
    BY <2>3, <2>4, <2>5 DEF NewestRuns
  <2> QED BY <1>1, <2>1, <2>2, <2>6
<1>6. StartedOnce'
  <2>1. ASSUME NEW k \in 1..Len(starts) PROVE starts[k] # q
    BY <1>1, <2>1 DEF StartedOnce
  <2>2. ASSUME NEW k \in 1..Len(starts') PROVE pc'[starts'[k]] \notin {"new", "401"}
    BY <1>1, <1>3, <2>1 DEF StartedOnce
  <2>3. ASSUME NEW j \in 1..Len(starts'), NEW k \in 1..Len(starts'), starts'[j] = starts'[k]
        PROVE  j = k
    BY <1>1, <1>3, <2>1, <2>3 DEF StartedOnce
  <2> QED BY <2>2, <2>3 DEF StartedOnce
<1> QED BY <1>3, <1>4, <1>5, <1>6

(* A record that was there before it is there after another one started,   *)
(* or was evicted.                                                         *)
LEMMA OldRecords ==
  ASSUME IInv, NEW q \in Request, StartRun(q), NEW i \in 1..Len(records')
  PROVE  records'[i] = q \/ \E j \in 1..Len(records) : records'[i] = records[j]
<1>1. records \in Seq(Request) /\ Len(records) <= MaxEntries
  BY DEF IInv, TypeOK
<1>2. records' = Append(Evict(records), q)
  BY DEF StartRun
<1>3. CASE Len(records) = MaxEntries
  <2>1. /\ Evict(records) \in Seq(Request) /\ Len(Evict(records)) = MaxEntries - 1
        /\ \A k \in 1..(MaxEntries - 1) : Evict(records)[k] = records[k + 1]
    BY <1>1, <1>3 DEF Evict
  <2>2. CASE i = MaxEntries
    BY <1>2, <2>1, <2>2
  <2>3. CASE i # MaxEntries
    <3>1. i \in 1..(MaxEntries - 1) /\ i + 1 \in 1..Len(records)
      BY <1>2, <1>3, <2>1, <2>3
    <3> QED BY <1>2, <2>1, <3>1
  <2> QED BY <2>2, <2>3
<1>4. CASE Len(records) # MaxEntries
  BY <1>1, <1>2, <1>4 DEF Evict
<1> QED BY <1>3, <1>4

(* What is on record was started, by a request whose run it is.            *)
LEMMA OnRecord ==
  ASSUME IInv, NEW i \in 1..Len(records)
  PROVE  /\ records[i] \in Request /\ pc[records[i]] \notin {"new", "401"}
         /\ run[records[i]] = Expected(records[i])
         /\ run[records[i]].status \in {"running", outcome[records[i]]}
         /\ run[records[i]].status # "none"
         /\ run[records[i]].stream \in {"none", outcome[records[i]]}
<1>1. /\ records \in Seq(Request) /\ starts \in Seq(Request) /\ outcome \in [Request -> Outcome]
      /\ NewestRuns /\ StartedOnce /\ Recorded /\ OutcomeKnown
  BY DEF IInv, TypeOK
<1>2. records[i] \in Request
  BY <1>1
<1>3. records[i] = starts[Dropped(Len(starts)) + i]
      /\ Dropped(Len(starts)) + i \in 1..Len(starts)
  BY <1>1 DEF NewestRuns, Dropped
<1>4. pc[records[i]] \notin {"new", "401"}
  BY <1>1, <1>3 DEF StartedOnce
<1>5. run[records[i]] = Expected(records[i])
  BY <1>1 DEF Recorded
<1> QED BY <1>1, <1>2, <1>4, <1>5 DEF Expected, OutcomeKnown, Outcome

(* A step that starts no run keeps the records right if it keeps that of   *)
(* its own request right.                                                  *)
LEMMA OwnRecord ==
  ASSUME IInv, NEW q \in Request, UNCHANGED <<records, mutations, starts>>,
         \A x \in Request \ {q} : run'[x] = run[x] /\ pc'[x] = pc[x] /\ outcome'[x] = outcome[x],
         (\E i \in 1..Len(records) : records[i] = q) => run'[q] = Expected(q)'
  PROVE  Recorded'
<1>1. ASSUME NEW i \in 1..Len(records) PROVE run'[records[i]] = Expected(records[i])'
  <2>1. CASE records[i] = q
    BY <2>1
  <2>2. CASE records[i] # q
    BY <2>2, OnRecord DEF Expected
  <2> QED BY <2>1, <2>2
<1> QED BY <1>1 DEF Recorded

(* Once on the way to its answer a request stays there.                    *)
LEMMA NeverNewAgain ==
  ASSUME IInv, NEW q \in Request, pc[q] \notin {"new", "401"}, NEW place,
         place \notin {"new", "401"}, pc' = [pc EXCEPT ![q] = place],
         UNCHANGED <<records, mutations, starts>>
  PROVE  NewestRuns' /\ StartedOnce'
<1>1. DOMAIN pc = Request /\ NewestRuns /\ StartedOnce
  BY DEF IInv, TypeOK
<1>2. NewestRuns'
  BY <1>1 DEF NewestRuns
<1>3. StartedOnce'
  BY <1>1 DEF StartedOnce
<1> QED BY <1>2, <1>3

(* The endpoint keeps its types: the values a record goes through ...      *)
LEMMA EndpointTyped == ASSUME IInv, NEW q \in Request, Endpoint(q) PROVE TypeOK'
<1> USE DEF IInv, tracker, reading
<1>1. UNCHANGED <<settings, app, reading>>
  BY DEF Endpoint, Post, BodyFails, RunSkill, FinishStatus, FinishStream, FinishCount
<1>2. pc' \in [Request -> {"new", "401", "body", "finish", "finish_stream", "finish_count",
                           "200", "500"}]
      /\ loop' \in SUBSET Request /\ outcome' \in [Request -> Outcome]
  <2>1. \E place \in {"401", "body", "finish", "finish_stream", "finish_count", "200", "500"} :
          pc' = [pc EXCEPT ![q] = place]
    BY DEF Endpoint, Post, BodyFails, RunSkill, FinishStatus, FinishStream, FinishCount, Status
  <2>2. loop' = loop \/ loop' = {q} \/ loop' = {}
    BY DEF Endpoint, Post, BodyFails, RunSkill, FinishStatus, FinishStream, FinishCount
  <2>3. outcome' = outcome \/ \E how \in {"completed", "error"} :
                                outcome' = [outcome EXCEPT ![q] = how]
    BY DEF Endpoint, Post, BodyFails, RunSkill, FinishStatus, FinishStream, FinishCount
  <2>4. pc' \in [Request -> {"new", "401", "body", "finish", "finish_stream", "finish_count",
                             "200", "500"}]
    BY <2>1 DEF TypeOK
  <2>5. loop' \in SUBSET Request
    BY <2>2 DEF TypeOK
  <2>6. outcome' \in [Request -> Outcome]
    BY <2>3 DEF TypeOK, Outcome
  <2> QED BY <2>4, <2>5, <2>6
<1>3. CASE \E credential \in Credential : Post(q, credential) /\ RequireAuth(credential)
  <2>1. /\ StartRun(q) /\ pc[q] = "new" /\ pc' = [pc EXCEPT ![q] = "body"] /\ app = "serving"
    BY <1>3 DEF Post
  <2>2. /\ records' \in Seq(Request) /\ Len(records') <= MaxEntries
        /\ starts' \in Seq(Request)
    BY <2>1, StartKeepsWindow
  <2>3. /\ mutations' = mutations + 1 /\ mutations \in Nat /\ seen \in [Reader -> 0..mutations]
    BY <2>1 DEF StartRun, TypeOK
  <2>4. seen' \in [Reader -> 0..mutations']
    BY <1>1, <2>3
  <2>5. run' \in [Request -> [status : {"none", "running", "completed", "error"},
                              stream : Outcome, event_count : {0, 2}]]
    BY <2>1 DEF StartRun, TypeOK, Outcome
  <2>6. mutations' \in Nat
    BY <2>3
  <2> QED BY <1>1, <1>2, <2>1, <2>2, <2>4, <2>5, <2>6 DEF TypeOK
<1>4. CASE ~\E credential \in Credential : Post(q, credential) /\ RequireAuth(credential)
  <2>1. UNCHANGED <<records, mutations, starts>>
    BY <1>4 DEF Endpoint, Post, BodyFails, RunSkill, FinishStatus, FinishStream, FinishCount
  <2>2. \/ run' = run
        \/ run' = [run EXCEPT ![q].status = outcome[q]]
        \/ run' = [run EXCEPT ![q].stream = outcome[q]]
        \/ run' = [run EXCEPT ![q].event_count = 2]
    BY <1>4 DEF Endpoint, Post, BodyFails, RunSkill, FinishStatus, FinishStream, FinishCount,
                FoundRun, StreamOf
  <2>3. outcome[q] \in Outcome /\ Outcome \subseteq {"none", "running", "completed", "error"}
    BY DEF TypeOK, Outcome
  <2>4. run' \in [Request -> [status : {"none", "running", "completed", "error"},
                              stream : Outcome, event_count : {0, 2}]]
    <3>1. run \in [Request -> [status : {"none", "running", "completed", "error"},
                              stream : Outcome, event_count : {0, 2}]]
      BY DEF TypeOK
    <3> HIDE DEF IInv
    <3> QED BY <2>2, <2>3, <3>1
  <2> QED BY <1>1, <1>2, <2>1, <2>4 DEF TypeOK
<1> QED BY <1>3, <1>4

(* ... and what is on record follows where each request is.                *)
LEMMA EndpointRecords ==
  ASSUME IInv, NEW q \in Request, Endpoint(q)
  PROVE  NewestRuns' /\ StartedOnce' /\ OutcomeKnown' /\ Recorded'
<1> USE DEF tracker
<1>0. /\ DOMAIN pc = Request /\ outcome \in [Request -> Outcome]
      /\ run \in [Request -> [status : {"none", "running", "completed", "error"},
                              stream : Outcome, event_count : {0, 2}]]
      /\ OutcomeKnown /\ Recorded /\ NewestRuns /\ StartedOnce /\ records \in Seq(Request)
  BY DEF IInv, TypeOK
<1>1. ASSUME NEW credential \in Credential, Post(q, credential), RequireAuth(credential)
      PROVE  NewestRuns' /\ StartedOnce' /\ OutcomeKnown' /\ Recorded'
  <2>1. /\ StartRun(q) /\ pc[q] = "new" /\ pc' = [pc EXCEPT ![q] = "body"]
        /\ UNCHANGED outcome
        /\ run' = [run EXCEPT ![q] = [status |-> "running", stream |-> "none", event_count |-> 0]]
    BY <1>1 DEF Post, StartRun
  <2>2. NewestRuns' /\ StartedOnce'
    BY <2>1, StartKeepsWindow
  <2>3. OutcomeKnown'
    BY <1>0, <2>1 DEF OutcomeKnown
  <2>4. run'[q] = Expected(q)'
    <3>1. run'[q] = [status |-> "running", stream |-> "none", event_count |-> 0]
      BY <1>0, <2>1
    <3>2. pc'[q] = "body" /\ outcome'[q] = "none"
      BY <1>0, <2>1 DEF OutcomeKnown
    <3> QED BY <3>1, <3>2 DEF Expected
  <2>5. ASSUME NEW x \in Request \ {q}, run[x] = Expected(x) PROVE run'[x] = Expected(x)'
    <3>1. run'[x] = run[x] /\ pc'[x] = pc[x] /\ outcome'[x] = outcome[x]
      BY <1>0, <2>1
    <3> QED BY <2>5, <3>1 DEF Expected
  <2>6. ASSUME NEW i \in 1..Len(records') PROVE (run[records[i]] = Expected(records[i]))'
    <3>1. CASE records'[i] = q
      BY <2>4, <3>1
    <3>2. CASE \E j \in 1..Len(records) : records'[i] = records[j]
      <4>1. PICK x \in Request \ {q} : records'[i] = x /\ run[x] = Expected(x)
        BY <2>1, <3>2, OnRecord
      <4> QED BY <2>5, <4>1
    <3> QED BY <2>1, <3>1, <3>2, OldRecords
  <2>7. Recorded'
    BY <2>6 DEF Recorded
  <2> QED BY <2>2, <2>3, <2>7
<1>2. ASSUME NEW credential \in Credential, Post(q, credential), ~RequireAuth(credential)
      PROVE  NewestRuns' /\ StartedOnce' /\ OutcomeKnown' /\ Recorded'
  <2>1. /\ pc[q] = "new" /\ pc' = [pc EXCEPT ![q] = "401"]
        /\ UNCHANGED <<records, mutations, starts, run, outcome>>
    BY <1>2 DEF Post
  <2>2. NewestRuns' /\ OutcomeKnown'
    BY <1>0, <2>1 DEF NewestRuns, OutcomeKnown
  <2>3. StartedOnce'
    BY <1>0, <2>1 DEF StartedOnce
  <2>4. ~\E i \in 1..Len(records) : records[i] = q
    BY <2>1, OnRecord
  <2>5. Recorded'
    BY <1>0, <2>1, <2>4, OwnRecord
  <2> QED BY <2>2, <2>3, <2>5
<1>3. CASE BodyFails(q)
  <2>1. /\ pc[q] = "body" /\ pc' = [pc EXCEPT ![q] = "500"]
        /\ UNCHANGED <<records, mutations, starts, run, outcome>>
    BY <1>3 DEF BodyFails
  <2>2. OutcomeKnown'
    BY <1>0, <2>1 DEF OutcomeKnown
  <2>3. ASSUME NEW i \in 1..Len(records), records[i] = q PROVE run'[q] = Expected(q)'
    <3>1. run[q] = [status |-> "running", stream |-> "none", event_count |-> 0]
      BY <1>0, <2>1, <2>3, OnRecord DEF Expected, OutcomeKnown
    <3>2. run'[q] = [status |-> "running", stream |-> "none", event_count |-> 0]
      BY <1>0, <2>1, <3>1
    <3>3. pc'[q] = "500" /\ outcome'[q] = outcome[q]
      BY <1>0, <2>1
    <3> QED BY <1>0, <2>1, <3>2, <3>3 DEF Expected, OutcomeKnown
  <2> QED BY <1>0, <2>1, <2>2, <2>3, OwnRecord, NeverNewAgain
<1>4. ASSUME NEW how \in {"completed", "error"}, RunSkill(q, how)
      PROVE  NewestRuns' /\ StartedOnce' /\ OutcomeKnown' /\ Recorded'
  <2>1. /\ pc[q] = "body" /\ pc' = [pc EXCEPT ![q] = "finish"]
        /\ outcome' = [outcome EXCEPT ![q] = how]
        /\ UNCHANGED <<records, mutations, starts, run>>
    BY <1>4 DEF RunSkill
  <2>2. OutcomeKnown'
    BY <1>0, <2>1 DEF OutcomeKnown
  <2>3. ASSUME NEW i \in 1..Len(records), records[i] = q PROVE run'[q] = Expected(q)'
    <3>1. run[q] = [status |-> "running", stream |-> "none", event_count |-> 0]
      BY <1>0, <2>1, <2>3, OnRecord DEF Expected, OutcomeKnown
    <3>2. run'[q] = [status |-> "running", stream |-> "none", event_count |-> 0]
      BY <1>0, <2>1, <3>1
    <3>3. pc'[q] = "finish" /\ outcome'[q] = how
      BY <1>0, <2>1
    <3> QED BY <1>0, <2>1, <3>2, <3>3 DEF Expected, OutcomeKnown
  <2> QED BY <1>0, <2>1, <2>2, <2>3, OwnRecord, NeverNewAgain
<1>5. CASE FinishStatus(q) /\ q \in Range(records)
  <2>1. /\ pc[q] = "finish" /\ pc' = [pc EXCEPT ![q] = "finish_stream"]
        /\ run' = [run EXCEPT ![q].status = outcome[q]]
        /\ UNCHANGED <<records, mutations, starts, outcome>>
    BY <1>5 DEF FinishStatus, FoundRun
  <2>2. OutcomeKnown'
    BY <1>0, <2>1 DEF OutcomeKnown
  <2>3. ASSUME NEW i \in 1..Len(records), records[i] = q PROVE run'[q] = Expected(q)'
    <3>1. run[q] = [status |-> "running", stream |-> "none", event_count |-> 0]
      BY <1>0, <2>1, <2>3, OnRecord DEF Expected, OutcomeKnown
    <3>2. run'[q] = [status |-> outcome[q], stream |-> "none", event_count |-> 0]
      BY <1>0, <2>1, <3>1
    <3>3. pc'[q] = "finish_stream" /\ outcome'[q] = outcome[q]
      BY <1>0, <2>1
    <3> QED BY <1>0, <2>1, <3>2, <3>3 DEF Expected, OutcomeKnown
  <2> QED BY <1>0, <2>1, <2>2, <2>3, OwnRecord, NeverNewAgain
<1>6. CASE FinishStatus(q) /\ q \notin Range(records)
  <2>1. /\ pc[q] = "finish" /\ pc' = [pc EXCEPT ![q] = Status(q)]
        /\ Status(q) \notin {"new", "401"}
        /\ UNCHANGED <<records, mutations, starts, run, outcome>>
    BY <1>6 DEF FinishStatus, Status
  <2>2. OutcomeKnown'
    BY <1>0, <2>1 DEF OutcomeKnown, Status
  <2>3. ~\E i \in 1..Len(records) : records[i] = q
    BY <1>0, <1>6, RangeEquality
  <2> QED BY <1>0, <2>1, <2>2, <2>3, OwnRecord, NeverNewAgain
<1>7. CASE FinishStream(q)
  <2>1. /\ pc[q] = "finish_stream" /\ pc' = [pc EXCEPT ![q] = "finish_count"]
        /\ run' = [run EXCEPT ![q].stream = outcome[q]]
        /\ UNCHANGED <<records, mutations, starts, outcome>>
    BY <1>7 DEF FinishStream, StreamOf
  <2>2. OutcomeKnown'
    BY <1>0, <2>1 DEF OutcomeKnown
  <2>3. ASSUME NEW i \in 1..Len(records), records[i] = q PROVE run'[q] = Expected(q)'
    <3>1. run[q] = [status |-> outcome[q], stream |-> "none", event_count |-> 0]
      BY <1>0, <2>1, <2>3, OnRecord DEF Expected, OutcomeKnown
    <3>2. run'[q] = [status |-> outcome[q], stream |-> outcome[q], event_count |-> 0]
      BY <1>0, <2>1, <3>1
    <3>3. pc'[q] = "finish_count" /\ outcome'[q] = outcome[q]
      BY <1>0, <2>1
    <3> QED BY <1>0, <2>1, <3>2, <3>3 DEF Expected, OutcomeKnown
  <2> QED BY <1>0, <2>1, <2>2, <2>3, OwnRecord, NeverNewAgain
<1>8. CASE FinishCount(q)
  <2>1. /\ pc[q] = "finish_count" /\ pc' = [pc EXCEPT ![q] = Status(q)]
        /\ Status(q) \in {"200", "500"}
        /\ run' = [run EXCEPT ![q].event_count = 2]
        /\ UNCHANGED <<records, mutations, starts, outcome>>
    BY <1>8 DEF FinishCount, Status
  <2>2. OutcomeKnown'
    BY <1>0, <2>1 DEF OutcomeKnown
  <2>3. ASSUME NEW i \in 1..Len(records), records[i] = q PROVE run'[q] = Expected(q)'
    <3>1. run[q] = [status |-> outcome[q], stream |-> outcome[q], event_count |-> 0]
      BY <1>0, <2>1, <2>3, OnRecord DEF Expected, OutcomeKnown
    <3>2. run'[q] = [status |-> outcome[q], stream |-> outcome[q], event_count |-> 2]
      BY <1>0, <2>1, <3>1
    <3>3. pc'[q] = Status(q) /\ outcome'[q] = outcome[q]
      BY <1>0, <2>1
    <3> QED BY <1>0, <2>1, <3>2, <3>3 DEF Expected, OutcomeKnown
  <2> QED BY <1>0, <2>1, <2>2, <2>3, OwnRecord, NeverNewAgain
<1> QED BY <1>1, <1>2, <1>3, <1>4, <1>5, <1>6, <1>7, <1>8 DEF Endpoint

(* Runs are started after those that were, and an outcome is for good.     *)
LEMMA EndpointStable ==
  ASSUME IInv, NEW q \in Request, Endpoint(q)
  PROVE  /\ UNCHANGED reading /\ Len(starts') >= Len(starts)
         /\ \A k \in 1..Len(starts) : starts'[k] = starts[k] /\ starts[k] \in Request
         /\ \A x \in Request : outcome[x] # "none" => outcome'[x] = outcome[x]
<1>1. UNCHANGED reading
  BY DEF Endpoint, Post, BodyFails, RunSkill, FinishStatus, FinishStream, FinishCount
<1>2. starts \in Seq(Request) /\ OutcomeKnown /\ DOMAIN pc = Request
      /\ outcome \in [Request -> Outcome]
  BY DEF IInv, TypeOK
<1>3. \A x \in Request : outcome[x] # "none" => outcome'[x] = outcome[x]
  <2>1. ASSUME NEW how \in {"completed", "error"}, RunSkill(q, how)
        PROVE  outcome' = [outcome EXCEPT ![q] = how] /\ outcome[q] = "none"
    BY <1>2, <2>1 DEF RunSkill, OutcomeKnown
  <2>2. outcome' = outcome \/ \E how \in {"completed", "error"} : RunSkill(q, how)
    BY DEF Endpoint, Post, BodyFails, FinishStatus, FinishStream, FinishCount
  <2> QED BY <1>2, <2>1, <2>2
<1>4. CASE starts' = starts
  BY <1>1, <1>2, <1>3, <1>4
<1>5. CASE \E credential \in Credential : Post(q, credential) /\ RequireAuth(credential)
  <2>1. StartRun(q) /\ pc[q] = "new" /\ pc' = [pc EXCEPT ![q] = "body"]
    BY <1>5 DEF Post
  <2>2. /\ Len(starts') = Len(starts) + 1
        /\ \A k \in 1..Len(starts) : starts'[k] = starts[k] /\ starts[k] \in Request
    BY <2>1, StartKeepsWindow
  <2>3. Len(starts) \in Nat
    BY <1>2
  <2> QED BY <1>1, <1>3, <2>2, <2>3
<1> QED BY <1>4, <1>5
        DEF Endpoint, Post, BodyFails, RunSkill, FinishStatus, FinishStream, FinishCount, tracker

(* Nothing the endpoint does makes what a reader was told untrue.          *)
LEMMA EndpointCollected ==
  ASSUME IInv, NEW q \in Request, Endpoint(q) PROVE Collected'
<1>1. /\ Collected /\ NewestRuns /\ seen \in [Reader -> 0..mutations] /\ starts \in Seq(Request)
      /\ \A r \in Reader : got[r] \in Seq(IF want[r] = Sessions THEN Entry ELSE Outcome)
      /\ want \in [Reader -> Request \cup {Sessions}] /\ UNCHANGED <<rpc, want, at, seen, got>>
  BY EndpointStable DEF IInv, TypeOK, reading
<1>2. ASSUME NEW r \in Reader PROVE CollectedBy(r)'
  <2>1. CASE want[r] = Sessions
    <3>1. ASSUME NEW k \in 1..Len(got[r])
          PROVE  /\ k <= seen[r] - Dropped(seen[r])
                 /\ got[r][k].run = starts'[Dropped(seen[r]) + k]
                 /\ got[r][k].status \in {"running", outcome'[got[r][k].run]}
                 /\ got[r][k].event_count # 0 => outcome'[got[r][k].run] # "none"
      <4>1. /\ k <= seen[r] - Dropped(seen[r])
            /\ got[r][k].run = starts[Dropped(seen[r]) + k]
            /\ got[r][k].status \in {"running", outcome[got[r][k].run]}
            /\ got[r][k].event_count # 0 => outcome[got[r][k].run] # "none"
        BY <1>1, <2>1 DEF Collected, CollectedBy
      <4>2. Dropped(seen[r]) + k \in 1..Len(starts)
        BY <1>1, <4>1 DEF NewestRuns, Dropped
      <4>3. starts'[Dropped(seen[r]) + k] = starts[Dropped(seen[r]) + k]
        BY <4>2, EndpointStable
      <4>4. got[r][k] \in Entry
        BY <1>1, <2>1
      <4>5. got[r][k].run \in Request /\ got[r][k].status # "none"
        BY <4>4 DEF Entry
      <4> QED BY <4>1, <4>3, <4>5, EndpointStable
    <3> QED BY <1>1, <2>1, <3>1 DEF Collected, CollectedBy
  <2>2. CASE want[r] # Sessions
    <3>1. want[r] \in Request
      BY <1>1, <2>2
    <3>2. ASSUME NEW k \in 1..Len(got[r])
          PROVE  got[r][k] # "none" /\ got[r][k] = outcome'[want[r]]
      <4>1. got[r][k] # "none" /\ got[r][k] = outcome[want[r]]
        BY <1>1, <2>2 DEF Collected, CollectedBy
      <4> QED BY <3>1, <4>1, EndpointStable
    <3> QED BY <1>1, <2>2, <3>2 DEF Collected, CollectedBy
  <2> QED BY <2>1, <2>2
<1> QED BY <1>1, <1>2 DEF Collected

(* A reader changes nothing but its own state.                             *)
LEMMA ReadAlone ==
  ASSUME IInv, NEW r \in Reader, Read(r)
  PROVE  /\ UNCHANGED <<settings, app, pc, loop, outcome, tracker>>
         /\ \A x \in Reader \ {r} : /\ rpc'[x] = rpc[x] /\ want'[x] = want[x] /\ at'[x] = at[x]
                                    /\ seen'[x] = seen[x] /\ got'[x] = got[x]
         /\ DOMAIN got' = Reader
<1> USE DEF Read, Get, ReadFails, ReadStatus, ReadCount, SkipEntry, FindTrace, ReadEnds, Answer,
            Advance
<1>1. UNCHANGED <<settings, app, pc, loop, outcome, tracker>>
  OBVIOUS
<1>2. DOMAIN got = Reader
  BY DEF IInv, Collected
<1>3. DOMAIN got' = Reader /\ \A x \in Reader \ {r} : got'[x] = got[x]
  BY <1>2
<1>4. \A x \in Reader \ {r} : /\ rpc'[x] = rpc[x] /\ want'[x] = want[x] /\ at'[x] = at[x]
                              /\ seen'[x] = seen[x]
  BY DEF IInv, TypeOK
<1> QED BY <1>1, <1>3, <1>4

(* A step of a reader is right for all if it is right for that reader.     *)
LEMMA OwnReading ==
  ASSUME IInv, NEW r \in Reader, Read(r), CollectedBy(r)' PROVE Collected'
<1>1. ASSUME NEW x \in Reader \ {r} PROVE CollectedBy(x)'
  BY ReadAlone DEF IInv, Collected, CollectedBy, tracker
<1> QED BY <1>1, ReadAlone DEF Collected

(* The control state of a reader keeps its types.                          *)
LEMMA ReadTyped ==
  ASSUME IInv, NEW r \in Reader, Read(r)
  PROVE  /\ rpc' \in [Reader -> {"idle", "401", "404", "iterating", "projecting", "200", "500"}]
         /\ want' \in [Reader -> Request \cup {Sessions}]
         /\ at' \in [Reader -> 0..MaxEntries] /\ seen' \in [Reader -> 0..mutations]
         /\ app = "serving"
<1> USE DEF Read, Get, ReadFails, ReadStatus, ReadCount, SkipEntry, FindTrace, ReadEnds, Answer,
            Advance
<1>0. /\ rpc \in [Reader -> {"idle", "401", "404", "iterating", "projecting", "200", "500"}]
      /\ want \in [Reader -> Request \cup {Sessions}] /\ mutations \in Nat
      /\ at \in [Reader -> 0..MaxEntries] /\ seen \in [Reader -> 0..mutations]
      /\ records \in Seq(Request) /\ Len(records) <= MaxEntries
      /\ app # "serving" => rpc[r] = "idle"
  BY DEF IInv, TypeOK
<1>1. \E status \in {"401", "404", "iterating", "projecting", "200", "500"} :
        rpc' = rpc \/ rpc' = [rpc EXCEPT ![r] = status]
  OBVIOUS
<1>2. want' = want \/ \E what \in Request \cup {Sessions} : want' = [want EXCEPT ![r] = what]
  OBVIOUS
<1>3. at' = at \/ at' = [at EXCEPT ![r] = 0]
      \/ (at[r] < Len(records) /\ at' = [at EXCEPT ![r] = @ + 1])
  OBVIOUS
<1>4. seen' = seen \/ seen' = [seen EXCEPT ![r] = mutations]
  OBVIOUS
<1>5. app = "serving"
  BY <1>0
<1> HIDE DEF Read, Get, ReadFails, ReadStatus, ReadCount, SkipEntry, FindTrace, ReadEnds
<1>6. at' \in [Reader -> 0..MaxEntries]
  <2>1. CASE at' = at \/ at' = [at EXCEPT ![r] = 0]
    <3>1. at \in [Reader -> 0..MaxEntries] /\ 0 \in 0..MaxEntries
      BY <1>0
    <3> QED BY <2>1, <3>1
  <2>2. CASE at[r] < Len(records) /\ at' = [at EXCEPT ![r] = @ + 1]
    <3>1. at[r] + 1 \in 0..MaxEntries
      BY <1>0, <2>2
    <3> QED BY <1>0, <2>2, <3>1
  <2> QED BY <1>3, <2>1, <2>2
<1>7. rpc' \in [Reader -> {"idle", "401", "404", "iterating", "projecting", "200", "500"}]
  BY <1>0, <1>1
<1>8. want' \in [Reader -> Request \cup {Sessions}]
  BY <1>0, <1>2
<1>9. seen' \in [Reader -> 0..mutations]
  <2>1. seen \in [Reader -> 0..mutations] /\ mutations \in 0..mutations
    BY <1>0
  <2> QED BY <1>4, <2>1
<1> QED BY <1>5, <1>6, <1>7, <1>8, <1>9

(* A step of a reader keeps the types if what it has got is of its type.   *)
LEMMA OwnTypes ==
  ASSUME IInv, NEW r \in Reader, Read(r),
         got'[r] \in Seq(IF want'[r] = Sessions THEN Entry ELSE Outcome)
  PROVE  TypeOK'
<1>1. ASSUME NEW x \in Reader
      PROVE  got'[x] \in Seq(IF want'[x] = Sessions THEN Entry ELSE Outcome)
  <2>1. CASE x = r
    BY <2>1
  <2>2. CASE x # r
    <3>1. got[x] \in Seq(IF want[x] = Sessions THEN Entry ELSE Outcome)
      BY DEF IInv, TypeOK
    <3>2. got'[x] = got[x] /\ want'[x] = want[x]
      BY <2>2, ReadAlone
    <3> QED BY <3>1, <3>2
  <2> QED BY <2>1, <2>2
<1> QED BY <1>1, ReadAlone, ReadTyped DEF IInv, TypeOK, tracker

(* A reader that adds nothing, and ends on no list of sessions.            *)
LEMMA NothingCollected ==
  ASSUME IInv, NEW r \in Reader, Read(r), got'[r] = got[r], want'[r] = want[r], seen'[r] = seen[r],
         rpc'[r] # "projecting", rpc'[r] = "iterating" /\ want[r] = Sessions => at'[r] = Len(got[r]),
         rpc'[r] = "200" /\ want[r] = Sessions => Len(got[r]) = seen[r] - Dropped(seen[r])
  PROVE  TypeOK' /\ Collected'
<1>1. got'[r] \in Seq(IF want'[r] = Sessions THEN Entry ELSE Outcome)
  BY DEF IInv, TypeOK
<1>2. CollectedBy(r)'
  BY ReadAlone DEF IInv, Collected, CollectedBy, tracker
<1> QED BY <1>1, <1>2, OwnTypes, OwnReading

(* Each step of a reader collects what is retained, and no more.           *)
LEMMA ReadKept == ASSUME IInv, NEW r \in Reader, Read(r) PROVE TypeOK' /\ Collected'
<1>0. /\ rpc \in [Reader -> {"idle", "401", "404", "iterating", "projecting", "200", "500"}]
      /\ want \in [Reader -> Request \cup {Sessions}] /\ DOMAIN got = Reader
      /\ at \in [Reader -> 0..MaxEntries] /\ seen \in [Reader -> 0..mutations]
      /\ got[r] \in Seq(IF want[r] = Sessions THEN Entry ELSE Outcome)
      /\ records \in Seq(Request) /\ starts \in Seq(Request)
      /\ CollectedBy(r) /\ NewestRuns /\ OutcomeKnown
  BY DEF IInv, TypeOK, Collected
<1>1. ASSUME NEW what \in Request \cup {Sessions}, NEW credential \in Credential,
             Get(r, what, credential)
      PROVE  TypeOK' /\ Collected'
  <2>1. got'[r] = <<>> /\ rpc'[r] \in {"404", "401", "iterating"}
        /\ (rpc'[r] = "iterating" => at'[r] = 0)
    BY <1>0, <1>1 DEF Get, Answer
  <2>2. got'[r] \in Seq(IF want'[r] = Sessions THEN Entry ELSE Outcome) /\ Len(got'[r]) = 0
    BY <2>1
  <2>3. CollectedBy(r)'
    BY <2>1, <2>2 DEF CollectedBy
  <2> QED BY <2>2, <2>3, OwnTypes, OwnReading
<1>2. CASE ReadFails(r)
  BY <1>0, <1>2, NothingCollected DEF ReadFails, Answer
<1>3. CASE SkipEntry(r)
  BY <1>0, <1>3, NothingCollected DEF SkipEntry
<1>4. CASE ReadEnds(r)
  <2>1. CASE want[r] = Sessions
    <3>1. /\ rpc[r] = "iterating" /\ seen[r] = Len(starts) /\ at[r] >= Len(records)
          /\ rpc'[r] = "200" /\ UNCHANGED <<want, at, seen, got>>
      BY <1>0, <1>4, <2>1 DEF ReadEnds, Mutated, Answer, NewestRuns
    <3>2. Len(got[r]) = at[r] /\ Len(records) = seen[r] - Dropped(seen[r])
      BY <1>0, <2>1, <3>1 DEF CollectedBy, NewestRuns
    <3>3. Len(got[r]) <= Len(records)
      <4>1. CASE Len(got[r]) = 0
        BY <1>0, <4>1
      <4>2. CASE Len(got[r]) # 0
        <5>1. Len(got[r]) \in 1..Len(got[r])
          BY <1>0, <4>2
        <5> QED BY <1>0, <2>1, <3>2, <5>1 DEF CollectedBy
      <4> QED BY <4>1, <4>2
    <3>4. Len(got[r]) = seen[r] - Dropped(seen[r])
      BY <1>0, <3>1, <3>2, <3>3
    <3> QED BY <3>1, <3>4, NothingCollected
  <2>2. CASE want[r] # Sessions
    BY <1>0, <1>4, <2>2, NothingCollected DEF ReadEnds, Answer
  <2> QED BY <2>1, <2>2
<1>5. CASE FindTrace(r)
  <2>1. PICK i \in 1..Len(records) : records[i] = want[r]
    BY <1>0, <1>5 DEF FindTrace
  <2>2. want[r] \in Request /\ run[want[r]].stream \in {"none", outcome[want[r]]}
        /\ outcome[want[r]] \in Outcome
    BY <2>1, OnRecord DEF IInv, TypeOK
  <2>3. CASE run[want[r]].stream = "none"
    BY <1>0, <1>5, <2>3, NothingCollected DEF FindTrace, Answer
  <2>4. CASE run[want[r]].stream # "none"
    <3>1. /\ got'[r] = <<outcome[want[r]]>> /\ outcome[want[r]] # "none"
          /\ want[r] # Sessions /\ rpc'[r] = "200"
          /\ UNCHANGED <<want, seen, outcome>>
      BY <1>0, <1>5, <2>2, <2>4 DEF FindTrace, Answer
    <3>2. /\ got'[r] \in Seq(Outcome) /\ Len(got'[r]) = 1 /\ got'[r][1] = outcome[want[r]]
      BY <2>2, <3>1
    <3>3. CollectedBy(r)'
      BY <3>1, <3>2 DEF CollectedBy
    <3> QED BY <3>1, <3>2, <3>3, OwnTypes, OwnReading
  <2> QED BY <2>3, <2>4
<1>6. CASE ReadStatus(r)
  <2> DEFINE i == at[r] + 1
             e == [run |-> records[i], status |-> run[records[i]].status, event_count |-> 0]
  <2>1. /\ rpc[r] = "iterating" /\ seen[r] = Len(starts) /\ want[r] = Sessions
        /\ at[r] < Len(records) /\ rpc'[r] = "projecting" /\ at'[r] = at[r] + 1
        /\ got'[r] = Append(got[r], e)
        /\ UNCHANGED <<want, seen, starts, outcome>>
    BY <1>0, <1>6 DEF ReadStatus, Mutated, Answer, Advance, NewestRuns, tracker
  <2>2. i \in 1..Len(records) /\ at[r] = Len(got[r])
    BY <1>0, <2>1 DEF CollectedBy
  <2>3. /\ records[i] \in Request /\ run[records[i]].status \in {"running", outcome[records[i]]}
        /\ run[records[i]].status # "none" /\ outcome[records[i]] \in Outcome
        /\ records[i] = starts[Dropped(seen[r]) + i]
        /\ i <= seen[r] - Dropped(seen[r])
    BY <1>0, <2>1, <2>2, OnRecord DEF IInv, TypeOK, NewestRuns
  <2>4. e \in Entry
    BY <2>3 DEF Entry, Outcome
  <2> HIDE DEF e
  <2>5. /\ got'[r] \in Seq(Entry) /\ Len(got'[r]) = Len(got[r]) + 1
        /\ got'[r][Len(got[r]) + 1] = e
        /\ \A k \in 1..Len(got[r]) : got'[r][k] = got[r][k]
    BY <1>0, <2>1, <2>4
  <2>6. ASSUME NEW k \in 1..Len(got'[r])
        PROVE  /\ k <= seen[r] - Dropped(seen[r])
               /\ got'[r][k].run = starts[Dropped(seen[r]) + k]
               /\ got'[r][k].status \in {"running", outcome[got'[r][k].run]}
               /\ got'[r][k].event_count # 0 => outcome[got'[r][k].run] # "none"
    <3>1. CASE k = i
      BY <2>2, <2>3, <2>5, <3>1 DEF e
    <3>2. CASE k # i
      <4>1. k \in 1..Len(got[r])
        BY <1>0, <2>2, <2>5, <3>2
      <4> QED BY <1>0, <2>1, <2>5, <4>1 DEF CollectedBy
    <3> QED BY <3>1, <3>2
  <2>7. CollectedBy(r)'
    BY <1>0, <2>1, <2>2, <2>5, <2>6 DEF CollectedBy
  <2> QED BY <2>1, <2>5, <2>7, OwnTypes, OwnReading
<1>7. CASE ReadCount(r)
  <2> DEFINE n == Len(got[r])
             count == run[got[r][n].run].event_count
  <2>1. /\ rpc[r] = "projecting" /\ rpc'[r] = "iterating" /\ want[r] = Sessions
        /\ n >= 1 /\ n = at[r]
        /\ UNCHANGED <<want, at, seen, starts, outcome>>
    BY <1>0, <1>7 DEF ReadCount, Answer, CollectedBy, tracker
  <2>2. got[r] \in Seq(Entry) /\ n \in 1..Len(got[r]) /\ got[r][n] \in Entry
    BY <1>0, <2>1
  <2>3. /\ got[r][n].run \in Request /\ count \in {0, 2}
        /\ count # 0 => outcome[got[r][n].run] # "none"
    BY <1>0, <2>2 DEF Entry, OutcomeKnown, IInv, TypeOK
  <2>4. got'[r] = [got[r] EXCEPT ![n] = [got[r][n] EXCEPT !.event_count = count]]
    BY <1>0, <1>7, <2>2 DEF ReadCount
  <2>5. [got[r][n] EXCEPT !.event_count = count] \in Entry
    BY <2>2, <2>3 DEF Entry
  <2>6. /\ got'[r] \in Seq(Entry) /\ Len(got'[r]) = Len(got[r])
        /\ \A k \in 1..Len(got[r]) :
             got'[r][k] = IF k = n THEN [got[r][n] EXCEPT !.event_count = count] ELSE got[r][k]
    BY <2>2, <2>4, <2>5, ExceptSeq
  <2>7. ASSUME NEW k \in 1..Len(got'[r])
        PROVE  /\ k <= seen[r] - Dropped(seen[r])
               /\ got'[r][k].run = starts[Dropped(seen[r]) + k]
               /\ got'[r][k].status \in {"running", outcome[got'[r][k].run]}
               /\ got'[r][k].event_count # 0 => outcome[got'[r][k].run] # "none"
    <3>1. /\ k <= seen[r] - Dropped(seen[r])
          /\ got[r][k].run = starts[Dropped(seen[r]) + k]
          /\ got[r][k].status \in {"running", outcome[got[r][k].run]}
          /\ got[r][k].event_count # 0 => outcome[got[r][k].run] # "none"
      BY <1>0, <2>1, <2>6 DEF CollectedBy
    <3>2. CASE k = n
      <4>1. /\ got'[r][k].run = got[r][k].run /\ got'[r][k].status = got[r][k].status
            /\ got'[r][k].event_count = count
        BY <2>2, <2>6, <3>2 DEF Entry
      <4> QED BY <2>3, <3>1, <3>2, <4>1
    <3>3. CASE k # n
      BY <2>6, <3>1, <3>3
    <3> QED BY <3>2, <3>3
  <2>8. CollectedBy(r)'
    BY <2>1, <2>6, <2>7 DEF CollectedBy
  <2> QED BY <2>1, <2>6, <2>8, OwnTypes, OwnReading
<1> QED BY <1>1, <1>2, <1>3, <1>4, <1>5, <1>6, <1>7 DEF Read

(* The whole invariant holds through every step of the service.            *)
LEMMA InvariantKept == IInv /\ [Next]_vars => IInv'
<1> SUFFICES ASSUME IInv, [Next]_vars PROVE IInv'
  OBVIOUS
<1>1. CASE Serve
  <2>1. TypeOK'
    BY <1>1 DEF Serve, tracker, reading, IInv, TypeOK
  <2>2. (NewestRuns /\ StartedOnce /\ OutcomeKnown /\ Recorded)'
    BY <1>1 DEF Serve, tracker, reading, IInv, NewestRuns, StartedOnce, OutcomeKnown, Recorded, Expected
  <2>3. Collected'
    BY <1>1 DEF Serve, tracker, reading, IInv, Collected, CollectedBy
  <2> QED BY <2>1, <2>2, <2>3 DEF IInv
<1>2. ASSUME NEW q \in Request, Endpoint(q) PROVE IInv'
  BY <1>2, EndpointTyped, EndpointRecords, EndpointCollected DEF IInv
<1>3. ASSUME NEW r \in Reader, Read(r) PROVE IInv'
  <2>1. UNCHANGED <<pc, outcome, records, run, mutations, starts>>
    BY <1>3, ReadAlone DEF tracker
  <2>2. (NewestRuns /\ StartedOnce /\ OutcomeKnown /\ Recorded)'
    BY <2>1 DEF IInv, NewestRuns, StartedOnce, OutcomeKnown, Recorded, Expected
  <2> QED BY <1>3, <2>2, ReadKept DEF IInv
<1>4. CASE UNCHANGED vars
  <2>1. TypeOK'
    BY <1>4 DEF vars, tracker, reading, IInv, TypeOK
  <2>2. (NewestRuns /\ StartedOnce /\ OutcomeKnown /\ Recorded)'
    BY <1>4 DEF vars, tracker, reading, IInv, NewestRuns, StartedOnce, OutcomeKnown, Recorded, Expected
  <2>3. Collected'
    BY <1>4 DEF vars, tracker, reading, IInv, Collected, CollectedBy
  <2> QED BY <2>1, <2>2, <2>3 DEF IInv
<1> QED BY <1>1, <1>2, <1>3, <1>4 DEF Next

LEMMA Invariant == Spec => []IInv
BY InitInv, InvariantKept, PTL DEF Spec

(* Every variable of the service keeps its type.                           *)
THEOREM ServiceTypeCorrect == Spec => []TypeOK
<1>1. IInv => TypeOK
  BY DEF IInv
<1> QED BY Invariant, <1>1, PTL

(* The newest runs, and only they, are on record, each with what became of *)
(* it and nothing of another (introspection.py:166-193, app.py:237-264).   *)
THEOREM RecordsAreRight == Spec => []NewestRunsAreRecorded
<1>1. ASSUME IInv PROVE NewestRunsAreRecorded
  <2>1. /\ records \in Seq(Request) /\ starts \in Seq(Request) /\ outcome \in [Request -> Outcome]
        /\ NewestRuns /\ StartedOnce /\ OutcomeKnown
    BY <1>1 DEF IInv, TypeOK
  <2>2. ASSUME NEW k \in 1..Len(starts)
        PROVE  starts[k] \in Range(records) <=> k > Len(starts) - MaxEntries
    <3>1. /\ Range(records) = {records[i] : i \in 1..Len(records)}
          /\ Dropped(Len(starts)) \in 0..Len(starts)
          /\ k > Len(starts) - MaxEntries <=> k > Dropped(Len(starts))
      BY <2>1, RangeEquality DEF Dropped
    <3>2. ASSUME k > Dropped(Len(starts)) PROVE starts[k] \in Range(records)
      <4>1. k - Dropped(Len(starts)) \in 1..Len(records)
        BY <2>1, <3>1, <3>2 DEF NewestRuns
      <4>2. records[k - Dropped(Len(starts))] = starts[k]
        BY <2>1, <3>1, <4>1 DEF NewestRuns
      <4> QED BY <3>1, <4>1, <4>2
    <3>3. ASSUME starts[k] \in Range(records) PROVE k > Dropped(Len(starts))
      <4>1. PICK i \in 1..Len(records) : records[i] = starts[k]
        BY <3>1, <3>3
      <4>2. Dropped(Len(starts)) + i \in 1..Len(starts) /\ starts[Dropped(Len(starts)) + i] = starts[k]
        BY <2>1, <3>1, <4>1 DEF NewestRuns
      <4>3. Dropped(Len(starts)) + i = k
        BY <2>1, <4>2 DEF StartedOnce
      <4> QED BY <3>1, <4>3
    <3> QED BY <3>1, <3>2, <3>3
  <2>3. ASSUME NEW q \in Request, q \in Range(records)
        PROVE  /\ outcome[q] # "none" /\ pc[q] \in {"200", "500"} =>
                    run[q] = [status |-> outcome[q], stream |-> outcome[q], event_count |-> 2]
               /\ run[q].status = "running" <=>
                    pc[q] \in {"body", "finish"} \/ (pc[q] = "500" /\ outcome[q] = "none")
    <3>1. PICK i \in 1..Len(records) : records[i] = q
      BY <2>1, <2>3, RangeEquality
    <3>2. pc[q] \notin {"new", "401"} /\ run[q] = Expected(q)
      BY <1>1, <3>1, OnRecord
    <3>3. pc[q] \in {"new", "401", "body", "finish", "finish_stream", "finish_count", "200", "500"}
      BY <1>1 DEF IInv, TypeOK
    <3> QED BY <2>1, <3>2, <3>3 DEF Expected, OutcomeKnown, Outcome
  <2>4. \A k \in 1..Len(starts) : starts[k] \in Request
    BY <2>1
  <2> QED BY <2>2, <2>3, <2>4 DEF NewestRunsAreRecorded
<1> QED BY Invariant, <1>1, PTL

(* What a reader is told is true, and the sessions it lists are those that *)
(* were retained when it began (introspection.py:179-217).                 *)
THEOREM ReadersAreToldTheTruth == Spec => []ReadsAreTruthful
<1>1. ASSUME IInv PROVE ReadsAreTruthful
  <2>1. /\ starts \in Seq(Request) /\ seen \in [Reader -> 0..mutations] /\ mutations = Len(starts)
        /\ \A r \in Reader : CollectedBy(r)
        /\ \A r \in Reader : got[r] \in Seq(IF want[r] = Sessions THEN Entry ELSE Outcome)
    BY <1>1 DEF IInv, TypeOK, NewestRuns, Collected
  <2>2. ASSUME NEW r \in Reader, NEW k \in 1..Len(got[r])
        PROVE  IF want[r] = Sessions
               THEN LET e == got[r][k] IN
                    /\ e.status \in {"running", outcome[e.run]}
                    /\ e.event_count > 0 => outcome[e.run] # "none"
               ELSE got[r][k] = outcome[want[r]]
    <3>1. CASE want[r] = Sessions
      <4>1. got[r][k] \in Entry
        BY <2>1, <3>1
      <4>2. got[r][k].event_count \in {0, 2}
        BY <4>1 DEF Entry
      <4> QED BY <2>1, <3>1, <4>2 DEF CollectedBy
    <3>2. CASE want[r] # Sessions
      BY <2>1, <3>2 DEF CollectedBy
    <3> QED BY <3>1, <3>2
  <2>3. ASSUME NEW r \in Reader, rpc[r] = "200", want[r] = Sessions
        PROVE  LET first == IF seen[r] > MaxEntries THEN seen[r] - MaxEntries + 1 ELSE 1
               IN [k \in 1..Len(got[r]) |-> got[r][k].run] = SubSeq(starts, first, seen[r])
    <3> DEFINE first == Dropped(seen[r]) + 1
               listed == [k \in 1..Len(got[r]) |-> got[r][k].run]
    <3>1. first = IF seen[r] > MaxEntries THEN seen[r] - MaxEntries + 1 ELSE 1
      BY <2>1 DEF Dropped
    <3>2. /\ seen[r] \in 0..Len(starts) /\ first \in 1..(seen[r] + 1)
          /\ Len(got[r]) = seen[r] - first + 1 /\ Len(got[r]) \in Nat
      BY <2>1, <2>3 DEF Dropped, CollectedBy
    <3>3. \A k \in 1..Len(got[r]) : got[r][k].run = starts[first + k - 1]
      <4>1. ASSUME NEW k \in 1..Len(got[r]) PROVE got[r][k].run = starts[first + k - 1]
        <5>1. got[r][k].run = starts[Dropped(seen[r]) + k]
          BY <2>1, <2>3 DEF CollectedBy
        <5>2. Dropped(seen[r]) + k = first + k - 1
          BY <2>1 DEF Dropped
        <5> QED BY <5>1, <5>2
      <4> QED BY <4>1
    <3>4. \A j \in first..seen[r] : starts[j] \in Request
      BY <2>1, <3>2
    <3>5. /\ SubSeq(starts, first, seen[r]) \in Seq(Request)
          /\ Len(SubSeq(starts, first, seen[r])) = Len(got[r])
          /\ \A k \in 1..Len(got[r]) : SubSeq(starts, first, seen[r])[k] = starts[first + k - 1]
      BY <3>2, <3>4, SubSeqProperties
    <3>6. listed \in Seq(Request) /\ Len(listed) = Len(got[r])
      <4>1. ASSUME NEW k \in 1..Len(got[r]) PROVE got[r][k].run \in Request
        <5>1. first + k - 1 \in first..seen[r]
          BY <3>2
        <5> QED BY <3>3, <3>4, <5>1
      <4>2. listed \in [1..Len(got[r]) -> Request]
        BY <4>1
      <4> HIDE DEF listed
      <4>3. Len(listed) = Len(got[r])
        BY <3>2, <4>2
      <4> QED BY <3>2, <4>2, <4>3, SeqDef
    <3>7. \A k \in 1..Len(listed) : listed[k] = SubSeq(starts, first, seen[r])[k]
      BY <3>3, <3>5, <3>6
    <3> HIDE DEF listed, first
    <3>8. listed = SubSeq(starts, first, seen[r])
      BY <3>5, <3>6, <3>7, SeqEqual
    <3> QED BY <3>1, <3>8 DEF listed
  <2> QED BY <2>2, <2>3 DEF ReadsAreTruthful
<1> QED BY Invariant, <1>1, PTL

-----------------------------------------------------------------------------
(* The terminal dashboard. That the inspector shows one run rests on what  *)
(* the two tasks hold in their locals while they await a trace.            *)

(* What a task holds: sessions of the server, and, while it awaits a trace,*)
(* a run and its session, and an answer that is about that run.            *)
Local ==
  [at : {"idle", "snapshot", "health", "workflow"},
   reply : {"none", "pending", "ok", "failed"}, ok : BOOLEAN, sessions : Seq(Session),
   run : Run \cup {None}, session : Session \cup {None}, trace : Run \cup {None}]

OfOneRun(local) ==
  /\ local \in Local
  /\ local.at = "idle" => local.reply = "none"
  /\ local.at = "workflow" =>
       /\ local.run \in Run
       /\ local.session \in Session /\ local.session.run = local.run
       /\ local.trace \in {None, local.run}

Locals == DOMAIN task = Tasks /\ \A t \in Tasks : OfOneRun(task[t])

DashboardInv ==
  /\ recorded \in Seq(Session) /\ rows \in Seq(Session)
  /\ Locals /\ InspectorShowsOneRun

USE TUIAssumption

(* A task that is done, or that asks anew, holds nothing of a trace.       *)
LEMMA IdleTyped ==
  /\ Idle \in Local /\ Idle.at = "idle" /\ Idle.reply = "none"
  /\ Idle.sessions = <<>> /\ Idle.trace = None
BY DEF Idle, Local

LEMMA AsksTyped ==
  ASSUME NEW kind \in {"snapshot", "health", "workflow"}
  PROVE  /\ Asks(kind) \in Local /\ Asks(kind).at = kind
         /\ Asks(kind).reply = "pending" /\ Asks(kind).trace = None
BY IdleTyped DEF Asks, Local

LEMMA DashboardInit ==
  TUIInit => DashboardInv
<1> SUFFICES ASSUME TUIInit PROVE DashboardInv
  OBVIOUS
<1>1. Locals
  BY IdleTyped, AsksTyped DEF TUIInit, Locals, OfOneRun, Tasks
<1>2. InspectorShowsOneRun
  BY DEF TUIInit, InspectorShowsOneRun, Nothing
<1> QED BY <1>1, <1>2 DEF TUIInit, DashboardInv

(* The run and the session under a row are of one another.                 *)
LEMMA RowIsOneRun ==
  ASSUME NEW sessions \in Seq(Session), NEW row,
         CurrentRun(sessions, row) # None
  PROVE  /\ row \in DOMAIN sessions /\ CurrentRun(sessions, row) \in Run
         /\ CurrentSession(sessions, row) \in Session
         /\ CurrentSession(sessions, row).run = CurrentRun(sessions, row)
<1>1. row \in 1..Len(sessions)
  BY DEF CurrentRun
<1>2. sessions[row] \in Session
  BY <1>1
<1> QED BY <1>1, <1>2 DEF CurrentRun, CurrentSession, Session

(* A step of one task leaves the locals of the other alone.                *)
LEMMA NewLocals ==
  ASSUME Locals, NEW t \in Tasks, NEW local, OfOneRun(local),
         task' = [task EXCEPT ![t] = local]
  PROVE  Locals'
<1>1. DOMAIN task' = Tasks
  BY DEF Locals
<1>2. ASSUME NEW x \in Tasks PROVE OfOneRun(task'[x])
  BY DEF Locals
<1> QED BY <1>1, <1>2 DEF Locals

LEMMA EndsKept ==
  ASSUME Locals, NEW t \in Tasks, Ends(t)
  PROVE  Locals'
<1>1. OfOneRun(Idle)
  BY IdleTyped DEF OfOneRun
<1> QED BY <1>1, NewLocals DEF Ends

(* The request of a trace is for the run under the row, and its session.   *)
LEMMA RefreshKept ==
  ASSUME DashboardInv, NEW t \in Tasks,
         NEW sessions \in Seq(Session), NEW row, RefreshInspector(t, sessions, row)
  PROVE  Locals' /\ InspectorShowsOneRun'
<1> DEFINE r == CurrentRun(sessions, row)
<1>1. CASE r = None
  <2>1. inspector' = Nothing /\ Ends(t)
    BY <1>1 DEF RefreshInspector
  <2>2. InspectorShowsOneRun'
    BY <2>1 DEF InspectorShowsOneRun, Nothing
  <2> QED BY <2>1, <2>2, EndsKept DEF DashboardInv
<1>2. CASE r # None
  <2> DEFINE local == [Asks("workflow") EXCEPT
                         !.run = r, !.session = CurrentSession(sessions, row)]
  <2>1. /\ task' = [task EXCEPT ![t] = local] /\ UNCHANGED inspector
    BY <1>2 DEF RefreshInspector
  <2>2. /\ r \in Run /\ CurrentSession(sessions, row) \in Session
        /\ CurrentSession(sessions, row).run = r
    BY <1>2, RowIsOneRun
  <2> HIDE DEF r
  <2>3. /\ local \in Local /\ local.at = "workflow" /\ local.run = r
        /\ local.session = CurrentSession(sessions, row) /\ local.trace = None
    BY <2>2, AsksTyped DEF Local
  <2> HIDE DEF local
  <2>4. OfOneRun(local)
    BY <2>2, <2>3 DEF OfOneRun
  <2>5. Locals'
    BY <2>1, <2>4, NewLocals DEF DashboardInv
  <2> QED BY <2>1, <2>5 DEF DashboardInv, InspectorShowsOneRun
<1> QED BY <1>1, <1>2

(* What is answered while a trace is awaited is about the run it is for.   *)
LEMMA AnswerKept ==
  ASSUME Locals, recorded \in Seq(Session),
         NEW t \in Tasks, ServerAnswers(t)
  PROVE  Locals'
<1>1. /\ task[t] \in Local /\ OfOneRun(task[t]) /\ task[t].reply = "pending"
      /\ task[t].at \in {"snapshot", "health", "workflow"}
  BY DEF Locals, OfOneRun, ServerAnswers, Pending, Local
<1>2. CASE task[t].at = "snapshot"
  <2> DEFINE local == [task[t] EXCEPT !.reply = "ok", !.sessions = recorded]
  <2>1. task' = [task EXCEPT ![t] = local]
    BY <1>2 DEF ServerAnswers
  <2>2. OfOneRun(local)
    BY <1>1, <1>2 DEF OfOneRun, Local
  <2> QED BY <2>1, <2>2, NewLocals
<1>3. CASE task[t].at = "health"
  <2> DEFINE local == [task[t] EXCEPT !.reply = "ok"]
  <2>1. task' = [task EXCEPT ![t] = local]
    BY <1>3 DEF ServerAnswers
  <2>2. OfOneRun(local)
    BY <1>1, <1>3 DEF OfOneRun, Local
  <2> QED BY <2>1, <2>2, NewLocals
<1>4. CASE task[t].at = "workflow"
  <2> DEFINE trace == TraceOf(task[t].run)
             local == [task[t] EXCEPT !.reply = "ok", !.trace = trace]
  <2>1. task' = [task EXCEPT ![t] = local]
    BY <1>4 DEF ServerAnswers
  <2>2. trace \in {None, task[t].run} /\ task[t].run \in Run
    BY <1>1, <1>4 DEF TraceOf, OfOneRun
  <2> HIDE DEF trace
  <2>3. OfOneRun(local)
    BY <1>1, <1>4, <2>2 DEF OfOneRun, Local
  <2> QED BY <2>1, <2>3, NewLocals
<1> QED BY <1>1, <1>2, <1>3, <1>4

(* A request that fails leaves what the task holds.                        *)
LEMMA FailureKept ==
  ASSUME Locals, NEW t \in Tasks,
         RequestFails(t)
  PROVE  Locals'
<1> DEFINE local == [task[t] EXCEPT !.reply = "failed"]
<1>1. task' = [task EXCEPT ![t] = local] /\ task[t].reply = "pending" /\ OfOneRun(task[t])
  BY DEF RequestFails, Pending, Locals
<1>2. OfOneRun(local)
  BY <1>1 DEF OfOneRun, Local
<1> QED BY <1>1, <1>2, NewLocals

(* The server records sessions, and keeps a window of them.                *)
LEMMA StartKept ==
  ASSUME recorded \in Seq(Session), NEW r \in Run, RunStarts(r)
  PROVE  recorded' \in Seq(Session)
<1>1. [run |-> r, status |-> "running"] \in Session
  BY DEF Session
<1>2. CASE Len(recorded) = Window
  <2>1. recorded # <<>>
    BY <1>2
  <2>2. Tail(recorded) \in Seq(Session)
    BY <2>1
  <2> QED BY <1>1, <1>2, <2>2 DEF RunStarts
<1>3. CASE Len(recorded) # Window
  BY <1>1, <1>3 DEF RunStarts
<1> QED BY <1>2, <1>3

LEMMA FinishKept ==
  ASSUME recorded \in Seq(Session), NEW k, RunFinishes(k)
  PROVE  recorded' \in Seq(Session)
<1>1. k \in 1..Len(recorded) /\ recorded[k] \in Session
  BY DEF RunFinishes
<1>2. recorded' = [recorded EXCEPT ![k] = [recorded[k] EXCEPT !.status = "finished"]]
  BY DEF RunFinishes
<1>3. [recorded[k] EXCEPT !.status = "finished"] \in Session
  BY <1>1 DEF Session
<1> QED BY <1>1, <1>2, <1>3

(* What a task does once it is answered.                                   *)
LEMMA ResumeKept ==
  ASSUME DashboardInv, NEW t \in Tasks, Resume(t)
  PROVE  UNCHANGED recorded /\ rows' \in Seq(Session) /\ Locals' /\ InspectorShowsOneRun'
<1>0. /\ rows \in Seq(Session) /\ Locals /\ InspectorShowsOneRun /\ OfOneRun(task[t])
      /\ task[t] \in Local /\ task[t].sessions \in Seq(Session)
  BY DEF DashboardInv, Locals, OfOneRun, Local
<1>1. CASE GotSnapshot(t)
  <2> DEFINE up == task[t].reply = "ok"
             local == [Asks("health") EXCEPT !.ok = up, !.sessions = task[t].sessions]
  <2>1. task' = [task EXCEPT ![t] = local] /\ UNCHANGED <<recorded, panes>>
    BY <1>1 DEF GotSnapshot
  <2>2. up \in BOOLEAN
    OBVIOUS
  <2> HIDE DEF up
  <2>3. local \in Local /\ local.at = "health"
    BY <1>0, <2>2, AsksTyped DEF Local
  <2> HIDE DEF local
  <2>4. OfOneRun(local)
    BY <2>3 DEF OfOneRun
  <2>5. Locals'
    BY <1>0, <2>1, <2>4, NewLocals
  <2> QED BY <1>0, <2>1, <2>5 DEF panes, InspectorShowsOneRun
<1>2. CASE GotHealth(t)
  <2>1. rows' \in Seq(Session) /\ UNCHANGED recorded
    BY <1>0, <1>2 DEF GotHealth, RowsAfter
  <2>2. RefreshInspector(t, rows', cursor')
    BY <1>2 DEF GotHealth, FetchEnds
  <2> QED BY <2>1, <2>2, RefreshKept
<1>3. CASE GotWorkflow(t)
  <2>1. /\ inspector' = [run |-> task[t].run, session |-> task[t].session, trace |-> task[t].trace]
        /\ Ends(t) /\ UNCHANGED <<recorded, rows>> /\ task[t].at = "workflow"
    BY <1>3 DEF GotWorkflow, HeaderSession
  <2>2. /\ task[t].run \in Run /\ task[t].session \in Session
        /\ task[t].session.run = task[t].run /\ task[t].trace \in {None, task[t].run}
    BY <1>0, <2>1 DEF OfOneRun
  <2>3. InspectorShowsOneRun'
    BY <2>1, <2>2 DEF InspectorShowsOneRun
  <2> QED BY <1>0, <2>1, <2>3, EndsKept
<1> QED BY <1>1, <1>2, <1>3 DEF Resume

(* The invariant holds through every step of the server, the timer, the    *)
(* pump and the keys.                                                      *)
LEMMA DashboardKept ==
  DashboardInv /\ [TUINext]_tuiVars => DashboardInv'
<1> SUFFICES ASSUME DashboardInv, [TUINext]_tuiVars PROVE DashboardInv'
  OBVIOUS
<1>0. /\ recorded \in Seq(Session) /\ rows \in Seq(Session)
      /\ Locals /\ InspectorShowsOneRun
  BY DEF DashboardInv
<1>1. ASSUME NEW r \in Run, RunStarts(r) PROVE DashboardInv'
  <2>1. UNCHANGED <<rows, inspector, task>>
    BY <1>1 DEF RunStarts, panes
  <2> QED BY <1>0, <1>1, <2>1, StartKept DEF DashboardInv, Locals, InspectorShowsOneRun
<1>2. ASSUME NEW k \in 1..Window, RunFinishes(k) PROVE DashboardInv'
  <2>1. UNCHANGED <<rows, inspector, task>>
    BY <1>2 DEF RunFinishes, panes
  <2> QED BY <1>0, <1>2, <2>1, FinishKept DEF DashboardInv, Locals, InspectorShowsOneRun
<1>3. ASSUME NEW t \in Tasks, ServerAnswers(t) \/ RequestFails(t) PROVE DashboardInv'
  <2>1. UNCHANGED <<recorded, rows, inspector>>
    BY <1>3 DEF ServerAnswers, RequestFails, panes
  <2> QED BY <1>0, <1>3, <2>1, AnswerKept, FailureKept DEF DashboardInv,
                                                           InspectorShowsOneRun
<1>4. ASSUME NEW t \in Tasks, Resume(t) PROVE DashboardInv'
  BY <1>0, <1>4, ResumeKept DEF DashboardInv
<1>5. CASE Tick \/ ActionRefresh
  <2>1. PICK t \in Tasks : task' = [task EXCEPT ![t] = Asks("snapshot")]
    BY <1>5 DEF Tick, ActionRefresh, Tasks
  <2>2. OfOneRun(Asks("snapshot"))
    BY AsksTyped DEF OfOneRun
  <2>3. UNCHANGED <<recorded, rows, inspector>>
    BY <1>5 DEF Tick, ActionRefresh, panes
  <2> QED BY <1>0, <2>1, <2>2, <2>3, NewLocals DEF DashboardInv, InspectorShowsOneRun
<1>6. CASE OnRowHighlighted \/ OnRowSelected
  <2>1. RefreshInspector("pump", rows, cursor) /\ UNCHANGED <<recorded, rows>>
    BY <1>6 DEF OnRowHighlighted, OnRowSelected
  <2> QED BY <1>0, <2>1, RefreshKept DEF DashboardInv, Tasks
<1>7. CASE ActionTogglePause \/ MoveCursor \/ UNCHANGED tuiVars
  <2>1. UNCHANGED <<recorded, rows, inspector, task>>
    BY <1>7 DEF ActionTogglePause, MoveCursor, tuiVars, panes
  <2> QED BY <1>0, <2>1 DEF DashboardInv, Locals, InspectorShowsOneRun
<1> QED BY <1>1, <1>2, <1>3, <1>4, <1>5, <1>6, <1>7 DEF TUINext, Keys

LEMMA DashboardInvariant ==
  TUISpec => []DashboardInv
BY DashboardInit, DashboardKept, PTL DEF TUISpec

(* The header and the trace of the inspector are of one run, whatever the  *)
(* two tasks, the cursor and the server do meanwhile (app.py:151-162).     *)
THEOREM HeaderAndTraceAgree ==
  TUISpec => []InspectorShowsOneRun
<1>1. DashboardInv => InspectorShowsOneRun
  BY DEF DashboardInv
<1> QED BY DashboardInvariant, <1>1, PTL

(* Rebuilding the rows never moves the cursor off a run that is still in   *)
(* the list (widgets.py:140-159).                                          *)
THEOREM CursorStaysOnItsRun ==
  TUISpec => CursorFollowsRun
<1>1. ASSUME DashboardInv, [TUINext]_tuiVars
      PROVE  [LET r == CurrentRun(rows, cursor)
              IN rows' # rows /\ r \in IdsOf(rows') =>
                   CurrentRun(rows', cursor') = r]_tuiVars
  <2> DEFINE r == CurrentRun(rows, cursor)
  <2>1. SUFFICES ASSUME rows' # rows, r \in IdsOf(rows')
                 PROVE  CurrentRun(rows', cursor') = r
    OBVIOUS
  <2>2. PICK t \in Tasks : GotHealth(t) /\ task[t].ok
    BY <1>1, <2>1 DEF TUINext, RunStarts, RunFinishes, ServerAnswers, RequestFails,
                      Resume, GotSnapshot, GotHealth, GotWorkflow, Tick,
                      OnRowHighlighted, Keys, ActionRefresh,
                      ActionTogglePause, MoveCursor, OnRowSelected, tuiVars,
                      panes
  <2>3. rows' \in Seq(Session) /\ cursor' = CursorAfter(r, rows')
    BY <1>1, <2>2 DEF GotHealth, RowsAfter, DashboardInv, Locals, OfOneRun, Local
  <2> HIDE DEF r
  <2>4. PICK k \in DOMAIN rows' : rows'[k].run = r
    BY <2>1 DEF IdsOf
  <2>5. rows'[k] \in Session
    BY <2>3, <2>4
  <2>6. r \in Run
    BY <2>4, <2>5 DEF Session
  <2>7. cursor' = IndexOf(rows', r)
    BY <2>1, <2>3, <2>6 DEF CursorAfter
  <2>8. cursor' \in DOMAIN rows' /\ rows'[cursor'].run = r
    BY <2>4, <2>7 DEF IndexOf
  <2> QED BY <2>8 DEF CurrentRun
<1> QED BY DashboardInvariant, <1>1, PTL DEF TUISpec, CursorFollowsRun
=============================================================================
