-------------------------- MODULE AgentServiceProofs --------------------------
(***************************************************************************)
(* Proofs about the Agent Service, for any number of processes, attempts,  *)
(* stops, repairs and permits.  Runs, builds and generations share no      *)
(* state, so each has an inductive invariant of its own.                   *)
(***************************************************************************)
EXTENDS AgentService, SequenceTheorems, WellFoundedInduction, TLAPS

-----------------------------------------------------------------------------
(***************************************************************************)
(* Runs                                                                    *)
(***************************************************************************)

MaxTries == MaxAttempts + MaxStops

WorkRow == [state : {"none", "requested", "running"} \cup Ended, attempt : 0..MaxTries,
            holder : Processes \cup {NoProcess}, live : BOOLEAN]

WorkerState ==
  [step : {"idle", "claimed", "bound", "environment", "evaluation", "executing"},
   seen : {"none", "requested", "running", "cancelling"} \cup TerminalRun,
   lease : [Tracks -> 0..MaxTries], generating : SUBSET Tracks,
   lost : BOOLEAN, cancelled : BOOLEAN]

\* The holder of the row of the track works on the attempt that the row is at.
Active(t) ==
  /\ work[t].holder \in Processes
  /\ t \in worker[work[t].holder].generating
  /\ worker[work[t].holder].lease[t] = work[t].attempt

\* A track is requested only below MaxAttempts; beyond, a lease that runs out is
\* the one of a worker that has stopped.
AttemptsBounded(t) ==
  /\ work[t].attempt <= MaxAttempts + stops
  /\ work[t].state = "requested" => work[t].attempt < MaxAttempts
  /\ work[t].state = "running" /\ (~work[t].live \/ ~Active(t)) =>
       work[t].attempt < MaxAttempts + stops

\* What is requested has not succeeded, and nothing is attempted before it is requested.
RequestFits(t) ==
  /\ work[t].state = "requested" => LastAttempt(attempts, t) # "succeeded"
  /\ run.state = "none" => attempts[t] = <<>>

RunInv ==
  /\ RunTypeOK
  /\ stops \in 0..MaxStops
  /\ AttemptsFaithful
  /\ RunTold
  /\ \A t \in Tracks : AttemptsBounded(t) /\ RequestFits(t)
  /\ \A p \in Processes :
       worker[p].step \in {"idle", "claimed", "bound"} => worker[p].generating = {}

LEMMA RunConsts ==
  MaxAttempts \in Nat /\ MaxStops \in Nat /\ MaxTries \in Nat /\ MaxAttempts >= 1
BY RunConstants, ProcessConstants DEF MaxTries

LEMMA AppendFacts ==
  ASSUME NEW S, NEW s \in Seq(S), NEW e \in S
  PROVE  /\ Append(s, e) \in Seq(S) /\ Len(Append(s, e)) = Len(s) + 1
         /\ Append(s, e) # <<>> /\ Append(s, e)[Len(s) + 1] = e
         /\ \A n \in 1..Len(s) : Append(s, e)[n] = s[n]
OBVIOUS

LEMMA ReplaceLastFacts ==
  ASSUME NEW S, NEW s \in Seq(S), NEW e \in S, s # <<>>
  PROVE  LET r == [s EXCEPT ![Len(s)] = e]
         IN  /\ r \in Seq(S) /\ Len(r) = Len(s) /\ Len(s) \in Nat /\ Len(s) >= 1
             /\ r # <<>> /\ r[Len(s)] = e
             /\ \A n \in 1..Len(s) : n # Len(s) => r[n] = s[n]
<1>1. Len(s) \in Nat /\ Len(s) >= 1 /\ s \in [1..Len(s) -> S]
  BY EmptySeq, LenProperties
<1> DEFINE r == [s EXCEPT ![Len(s)] = e]
<1>2. r \in Seq(S) /\ Len(r) = Len(s)
  BY <1>1, ExceptSeq
<1>3. Len(s) \in 1..Len(s)
  BY <1>1
<1>4. r[Len(s)] = e /\ \A n \in 1..Len(s) : n # Len(s) => r[n] = s[n]
  BY <1>1, <1>3
<1>5. r # <<>>
  BY <1>1, <1>2
<1> HIDE DEF r
<1>6. /\ r \in Seq(S) /\ Len(r) = Len(s) /\ Len(s) \in Nat /\ Len(s) >= 1
      /\ r # <<>> /\ r[Len(s)] = e
      /\ \A n \in 1..Len(s) : n # Len(s) => r[n] = s[n]
  BY <1>1, <1>2, <1>4, <1>5
<1> QED BY <1>6 DEF r

LEMMA NonEmpty ==
  ASSUME NEW S, NEW s \in Seq(S), s # <<>>
  PROVE  Len(s) \in Nat /\ Len(s) >= 1 /\ s[Len(s)] \in S
<1>1. Len(s) \in Nat /\ Len(s) >= 1 /\ s \in [1..Len(s) -> S]
  BY EmptySeq, LenProperties
<1> QED BY <1>1

LEMMA LastOf ==
  ASSUME NEW as \in [Tracks -> Seq(AttemptStates)], NEW t \in Tracks
  PROVE  /\ as[t] = <<>> => LastAttempt(as, t) = "none" /\ Len(as[t]) = 0
         /\ as[t] # <<>> => /\ LastAttempt(as, t) = as[t][Len(as[t])]
                            /\ LastAttempt(as, t) \in AttemptStates
                            /\ Len(as[t]) \in Nat /\ Len(as[t]) >= 1
<1>1. as[t] \in Seq(AttemptStates)
  OBVIOUS
<1>2. as[t] # <<>> => /\ Len(as[t]) \in Nat /\ Len(as[t]) >= 1
                      /\ as[t][Len(as[t])] \in AttemptStates
  BY <1>1, NonEmpty
<1> QED BY <1>2 DEF LastAttempt

\* What append_claimed_attempt does to the attempts of a track.
LEMMA Claimed ==
  ASSUME NEW t \in Tracks, attempts \in [Tracks -> Seq(AttemptStates)],
         work[t].state = "running" => attempts[t] # <<>>
  PROVE  LET as == AppendClaimedAttempt(t)
         IN  /\ as \in [Tracks -> Seq(AttemptStates)]
             /\ \A u \in Tracks : u # t => as[u] = attempts[u]
             /\ Len(as[t]) = Len(attempts[t]) + 1 /\ LastAttempt(as, t) = "running"
             /\ \A n \in 1..Len(as[t]) : as[t][n] = "succeeded" =>
                  n \in 1..Len(attempts[t]) /\ attempts[t][n] = "succeeded"
<1> DEFINE old   == attempts[t]
           ended == IF work[t].state = "running" THEN [old EXCEPT ![Len(old)] = "failed"] ELSE old
<1>1. old \in Seq(AttemptStates) /\ Len(old) \in Nat
  OBVIOUS
<1>2. /\ ended \in Seq(AttemptStates) /\ Len(ended) = Len(old)
      /\ \A n \in 1..Len(old) : ended[n] = "succeeded" => old[n] = "succeeded"
  <2>1. CASE work[t].state = "running"
    <3>1. old # <<>> /\ "failed" \in AttemptStates
      BY <2>1 DEF AttemptStates
    <3> HIDE DEF old
    <3> QED BY <1>1, <2>1, <3>1, ReplaceLastFacts
  <2>2. CASE work[t].state # "running"
    BY <1>1, <2>2
  <2> QED BY <2>1, <2>2
<1>3. "running" \in AttemptStates
  BY DEF AttemptStates
<1>4. AppendClaimedAttempt(t) = [attempts EXCEPT ![t] = Append(ended, "running")]
  BY DEF AppendClaimedAttempt
<1> HIDE DEF ended
<1> DEFINE new == Append(ended, "running")
<1>5. /\ new \in Seq(AttemptStates) /\ Len(new) = Len(old) + 1 /\ new # <<>>
      /\ new[Len(old) + 1] = "running" /\ \A n \in 1..Len(old) : new[n] = ended[n]
  BY <1>1, <1>2, <1>3, AppendFacts
<1>6. \A n \in 1..Len(new) : new[n] = "succeeded" => n \in 1..Len(old) /\ old[n] = "succeeded"
  <2> SUFFICES ASSUME NEW n \in 1..Len(new), new[n] = "succeeded"
               PROVE  n \in 1..Len(old) /\ old[n] = "succeeded"
    OBVIOUS
  <2> HIDE DEF new, old
  <2>1. n \in 1..Len(old) \/ n = Len(old) + 1
    BY <1>1, <1>5
  <2> QED BY <2>1, <1>2, <1>5
<1> HIDE DEF new
<1>7. AppendClaimedAttempt(t)[t] = new /\ \A u \in Tracks : u # t => AppendClaimedAttempt(t)[u] = attempts[u]
  BY <1>4 DEF new
<1>8. AppendClaimedAttempt(t) \in [Tracks -> Seq(AttemptStates)]
  BY <1>4, <1>5 DEF new
<1>9. LastAttempt(AppendClaimedAttempt(t), t) = "running"
  BY <1>5, <1>7 DEF LastAttempt
<1> QED BY <1>5, <1>6, <1>7, <1>8, <1>9

\* What apply_checkpoint does to the attempts of a track.
LEMMA Applied ==
  ASSUME NEW t \in Tracks, NEW o \in AttemptStates,
         attempts \in [Tracks -> Seq(AttemptStates)], attempts[t] # <<>>
  PROVE  LET as == ApplyCheckpoint(t, o)
         IN  /\ as \in [Tracks -> Seq(AttemptStates)]
             /\ \A u \in Tracks : u # t => as[u] = attempts[u]
             /\ Len(as[t]) = Len(attempts[t]) /\ LastAttempt(as, t) = o
             /\ \A n \in 1..Len(as[t]) : as[t][n] = "succeeded" =>
                  n = Len(as[t]) \/ attempts[t][n] = "succeeded"
<1> DEFINE old == attempts[t]
           new == [old EXCEPT ![Len(old)] = o]
<1>1. old \in Seq(AttemptStates) /\ old # <<>>
  OBVIOUS
<1>2. ApplyCheckpoint(t, o) = [attempts EXCEPT ![t] = new]
  BY DEF ApplyCheckpoint
<1> HIDE DEF old
<1>3. /\ new \in Seq(AttemptStates) /\ Len(new) = Len(old) /\ Len(old) \in Nat /\ Len(old) >= 1
      /\ new # <<>> /\ new[Len(old)] = o
      /\ \A n \in 1..Len(old) : n # Len(old) => new[n] = old[n]
  BY <1>1, ReplaceLastFacts
<1> HIDE DEF new
<1>4. ApplyCheckpoint(t, o)[t] = new /\ \A u \in Tracks : u # t => ApplyCheckpoint(t, o)[u] = attempts[u]
  BY <1>2
<1>5. ApplyCheckpoint(t, o) \in [Tracks -> Seq(AttemptStates)]
  BY <1>2, <1>3
<1>6. LastAttempt(ApplyCheckpoint(t, o), t) = o
  BY <1>3, <1>4 DEF LastAttempt
<1> QED BY <1>3, <1>4, <1>5, <1>6 DEF old

\* The derived state is decided by the last attempts: one that runs keeps the run running.
LEMMA Derived ==
  ASSUME NEW as
  PROVE  /\ \A t \in Tracks : LastAttempt(as, t) = "running" => DerivedState(as) = "running"
         /\ DerivedState(as) \in {"requested", "running"} \cup TerminalRun
         /\ (\A t \in Tracks : as[t] = <<>>) => DerivedState(as) = "requested"
<1> DEFINE latest == [t \in Tracks |-> LastAttempt(as, t)]
<1>1. \A t \in Tracks : LastAttempt(as, t) = "running" => DerivedState(as) = "running"
  <2> SUFFICES ASSUME NEW t \in Tracks, LastAttempt(as, t) = "running"
               PROVE  DerivedState(as) = "running"
    OBVIOUS
  <2>1. latest[t] = "running" /\ t \notin {u \in Tracks : latest[u] \in Ended}
    BY DEF Ended
  <2>2. ~(\A u \in Tracks : latest[u] = "none") /\ {u \in Tracks : latest[u] \in Ended} # Tracks
    BY <2>1
  <2> HIDE DEF latest
  <2> QED BY <2>2 DEF DerivedState, latest
<1>2. DerivedState(as) \in {"requested", "running"} \cup TerminalRun
  BY DEF DerivedState, TerminalRun
<1>3. (\A t \in Tracks : as[t] = <<>>) => DerivedState(as) = "requested"
  BY DEF DerivedState, LastAttempt
<1> QED BY <1>1, <1>2, <1>3

\* AttemptsFaithful, of one track.
Faithful(t) ==
  /\ work[t].attempt = Len(attempts[t])
  /\ work[t].state = "running" <=> LastAttempt(attempts, t) = "running"
  /\ work[t].state \in Ended => LastAttempt(attempts, t) = work[t].state
  /\ \A n \in 1..Len(attempts[t]) :
       attempts[t][n] = "succeeded" => CheckpointSequence(t, n) \in checkpoints

LEMMA FaithfulTracks == AttemptsFaithful <=> \A t \in Tracks : Faithful(t)
BY DEF AttemptsFaithful, Faithful

LEMMA RunTypes ==
  ASSUME RunInv
  PROVE  /\ work \in [Tracks -> WorkRow] /\ worker \in [Processes -> WorkerState]
         /\ attempts \in [Tracks -> Seq(AttemptStates)]
         /\ run \in [state : {"none", "requested", "running", "cancelling"} \cup TerminalRun,
                     cancel : BOOLEAN]
         /\ stops \in Nat /\ stops <= MaxStops
         /\ \A t \in Tracks : work[t] \in WorkRow /\ Faithful(t) /\ AttemptsBounded(t) /\ RequestFits(t)
         /\ \A p \in Processes : worker[p] \in WorkerState
<1>1. work \in [Tracks -> WorkRow] /\ worker \in [Processes -> WorkerState]
  BY DEF RunInv, RunTypeOK, WorkRow, WorkerState, MaxTries
<1>2. stops \in Nat /\ stops <= MaxStops
  BY RunConsts DEF RunInv
<1>3. \A t \in Tracks : Faithful(t) /\ AttemptsBounded(t) /\ RequestFits(t)
  BY FaithfulTracks DEF RunInv
<1>4. attempts \in [Tracks -> Seq(AttemptStates)]
  BY DEF RunInv, RunTypeOK
<1>5. run \in [state : {"none", "requested", "running", "cancelling"} \cup TerminalRun,
               cancel : BOOLEAN]
  BY DEF RunInv, RunTypeOK
<1> QED BY <1>1, <1>2, <1>3, <1>4, <1>5

LEMMA ToldStays ==
  ASSUME RunTold, UNCHANGED <<run, attempts, announced>>
  PROVE  RunTold'
BY DEF RunTold, RunState

LEMMA FaithfulStays ==
  ASSUME NEW t \in Tracks, Faithful(t), attempts'[t] = attempts[t], checkpoints \subseteq checkpoints',
         work'[t].attempt = work[t].attempt, work'[t].state = work[t].state
  PROVE  Faithful(t)'
BY DEF Faithful, LastAttempt, CheckpointSequence

\* Only one worker, and perhaps the dispatch, changes: what it was active on it still is,
\* or the bound allows another attempt.
LEMMA WorkerMove ==
  ASSUME RunInv, NEW p \in Processes, NEW w \in WorkerState,
         worker' = [worker EXCEPT ![p] = w], UNCHANGED <<run, attempts, work, checkpoints, announced>>,
         dispatch' \in [state : {"none", "pending", "preparing", "prepared", "failed"},
                        holder : Processes \cup {NoProcess}, live : BOOLEAN],
         stops' \in 0..MaxStops, stops' >= stops,
         w.step \in {"idle", "claimed", "bound"} => w.generating = {},
         \A t \in Tracks : t \in worker[p].generating /\ work[t].holder = p /\ work[t].live =>
           \/ t \in w.generating /\ w.lease[t] = worker[p].lease[t]
           \/ worker[p].lease[t] # work[t].attempt
           \/ stops' > stops
  PROVE  RunInv'
<1> USE RunTypes, RunConsts
<1>1. worker' \in [Processes -> WorkerState]
  OBVIOUS
<1>2. RunTypeOK'
  BY <1>1 DEF RunInv, RunTypeOK, WorkerState, MaxTries
<1>3. RunTold'
  BY ToldStays DEF RunInv
<1>4. \A t \in Tracks : Faithful(t)'
  BY FaithfulStays
<1>5. \A t \in Tracks : RequestFits(t)'
  BY DEF RequestFits
<1>6. ASSUME NEW t \in Tracks
      PROVE  AttemptsBounded(t)'
  <2>1. work[t].attempt \in Nat /\ stops \in Nat /\ stops' \in Nat
    BY DEF WorkRow
  <2>2. CASE stops' > stops
    BY <2>1, <2>2 DEF AttemptsBounded
  <2>3. CASE stops' = stops
    <3>1. Active(t) /\ work[t].live => Active(t)'
      BY <2>3 DEF Active
    <3> QED BY <2>1, <2>3, <3>1 DEF AttemptsBounded
  <2> QED BY <2>1, <2>2, <2>3
<1>7. \A q \in Processes :
        worker'[q].step \in {"idle", "claimed", "bound"} => worker'[q].generating = {}
  BY DEF RunInv
<1>8. AttemptsFaithful'
  BY <1>4 DEF AttemptsFaithful, Faithful
<1> QED BY <1>2, <1>3, <1>5, <1>6, <1>7, <1>8 DEF RunInv

LEMMA IdleIsState == IdleWorker \in WorkerState /\ IdleWorker.step = "idle" /\ IdleWorker.generating = {}
BY RunConsts DEF IdleWorker, WorkerState

LEMMA Claiming ==
  ASSUME RunInv, NEW p \in Processes, ClaimDispatch(p), UNCHANGED stops
  PROVE  RunInv'
<1> USE RunTypes, RunConsts
<1> DEFINE w == [IdleWorker EXCEPT !.step = "claimed", !.seen = run.state]
<1>1. w \in WorkerState /\ w.generating = {}
  BY IdleIsState DEF IdleWorker, WorkerState
<1>2. worker[p].generating = {}
  BY DEF ClaimDispatch, RunInv
<1>3. worker' = [worker EXCEPT ![p] = w] /\ UNCHANGED <<run, attempts, work, checkpoints, announced>>
  BY DEF ClaimDispatch
<1>4. dispatch' \in [state : {"none", "pending", "preparing", "prepared", "failed"},
                     holder : Processes \cup {NoProcess}, live : BOOLEAN]
  BY DEF ClaimDispatch
<1>5. stops' \in 0..MaxStops /\ stops' >= stops
  OBVIOUS
<1> HIDE DEF w
<1> QED BY <1>1, <1>2, <1>3, <1>4, <1>5, WorkerMove

DispatchRow == [state : {"none", "pending", "preparing", "prepared", "failed"},
                holder : Processes \cup {NoProcess}, live : BOOLEAN]

\* The worker is idle again, and it was active on nothing, or the process has stopped.
LEMMA Exiting ==
  ASSUME RunInv, NEW p \in Processes, worker' = [worker EXCEPT ![p] = IdleWorker],
         UNCHANGED <<run, attempts, work, checkpoints, announced>>, dispatch' \in DispatchRow,
         stops' \in 0..MaxStops, stops' >= stops, worker[p].generating = {} \/ stops' > stops
  PROVE  RunInv'
BY IdleIsState, WorkerMove DEF DispatchRow

LEMMA Binding ==
  ASSUME RunInv, NEW p \in Processes, BindPreparedDispatch(p), UNCHANGED stops
  PROVE  RunInv'
<1> USE RunTypes, RunConsts
<1> DEFINE w == [worker[p] EXCEPT !.step = "bound"]
<1>1. worker[p].generating = {} /\ dispatch \in DispatchRow
  BY DEF BindPreparedDispatch, RunInv, RunTypeOK, DispatchRow
<1>2. w \in WorkerState /\ w.generating = {}
  BY <1>1 DEF WorkerState
<1>3. UNCHANGED <<run, attempts, work, checkpoints, announced>>
  BY DEF BindPreparedDispatch
<1>4. stops' \in 0..MaxStops /\ stops' >= stops
  OBVIOUS
<1>5. dispatch' \in DispatchRow
  <2>1. \/ dispatch' = [state |-> "prepared", holder |-> NoProcess, live |-> FALSE]
        \/ dispatch' = dispatch
    BY DEF BindPreparedDispatch
  <2>2. [state |-> "prepared", holder |-> NoProcess, live |-> FALSE] \in DispatchRow
    BY DEF DispatchRow
  <2> QED BY <1>1, <2>1, <2>2
<1>6. \/ worker' = [worker EXCEPT ![p] = w]
      \/ worker' = [worker EXCEPT ![p] = IdleWorker]
  BY DEF BindPreparedDispatch, Exit
<1> HIDE DEF w
<1>7. CASE worker' = [worker EXCEPT ![p] = w]
  BY <1>1, <1>2, <1>3, <1>4, <1>5, <1>7, WorkerMove DEF DispatchRow
<1>8. CASE worker' = [worker EXCEPT ![p] = IdleWorker]
  BY <1>1, <1>3, <1>4, <1>5, <1>8, Exiting
<1> QED BY <1>6, <1>7, <1>8

LEMMA Validating ==
  ASSUME RunInv, NEW p \in Processes, ValidateReservedRun(p), UNCHANGED stops
  PROVE  RunInv'
<1> USE RunTypes, RunConsts
<1> DEFINE w == [worker[p] EXCEPT !.step = "environment"]
<1>1. worker[p].generating = {} /\ dispatch' \in DispatchRow
  BY DEF ValidateReservedRun, RunInv, RunTypeOK, DispatchRow
<1>2. w \in WorkerState /\ w.step = "environment"
  BY <1>1 DEF WorkerState
<1>3. UNCHANGED <<run, attempts, work, checkpoints, announced>>
  BY DEF ValidateReservedRun
<1>4. stops' \in 0..MaxStops /\ stops' >= stops
  OBVIOUS
<1>6. \/ worker' = [worker EXCEPT ![p] = w]
      \/ worker' = [worker EXCEPT ![p] = IdleWorker]
  BY DEF ValidateReservedRun, Exit
<1> HIDE DEF w
<1>7. CASE worker' = [worker EXCEPT ![p] = w]
  BY <1>1, <1>2, <1>3, <1>4, <1>7, WorkerMove DEF DispatchRow
<1>8. CASE worker' = [worker EXCEPT ![p] = IdleWorker]
  BY <1>1, <1>3, <1>4, <1>8, Exiting
<1> QED BY <1>6, <1>7, <1>8

LEMMA Retrying ==
  ASSUME RunInv, NEW t \in Tracks, RetryTrack(t), UNCHANGED stops
  PROVE  RunInv'
<1> USE RunTypes, RunConsts
<1> DEFINE row == [state |-> "requested", attempt |-> work[t].attempt,
                   holder |-> NoProcess, live |-> FALSE]
<1>1. work' = [work EXCEPT ![t] = row] /\ UNCHANGED <<run, attempts, dispatch, checkpoints, announced, worker>>
  BY DEF RetryTrack
<1>2. /\ work[t].state \in {"failed", "cancelled"} /\ work[t].attempt < MaxAttempts
      /\ LastAttempt(attempts, t) \in {"failed", "cancelled"}
      /\ run.state # "none"
  BY DEF RetryTrack
<1>3. row \in WorkRow
  BY DEF WorkRow
<1> HIDE DEF row
<1>4. work' \in [Tracks -> WorkRow] /\ work'[t] = row /\ \A u \in Tracks : u # t => work'[u] = work[u]
  BY <1>1, <1>3
<1>5. RunTypeOK'
  BY <1>1, <1>4 DEF RunInv, RunTypeOK, WorkRow, MaxTries
<1>6. RunTold'
  BY <1>1, ToldStays DEF RunInv
<1>7. ASSUME NEW u \in Tracks
      PROVE  Faithful(u)' /\ AttemptsBounded(u)' /\ RequestFits(u)'
  <2>1. CASE u = t
    <3>1. work'[u] = row /\ row.state = "requested" /\ row.attempt = work[t].attempt
      BY <1>4, <2>1 DEF row
    <3>2. Faithful(u)'
      BY <1>1, <1>2, <2>1, <3>1 DEF Faithful, Ended
    <3>3. AttemptsBounded(u)'
      BY <1>1, <1>2, <2>1, <3>1 DEF AttemptsBounded
    <3>4. RequestFits(u)'
      BY <1>1, <1>2, <2>1 DEF RequestFits
    <3> QED BY <3>2, <3>3, <3>4
  <2>2. CASE u # t
    <3>1. work'[u] = work[u]
      BY <1>4, <2>2
    <3>2. Faithful(u)'
      BY <1>1, <3>1, FaithfulStays
    <3>3. AttemptsBounded(u)'
      BY <1>1, <3>1 DEF AttemptsBounded, Active
    <3>4. RequestFits(u)'
      BY <1>1, <3>1 DEF RequestFits
    <3> QED BY <3>2, <3>3, <3>4
  <2> QED BY <2>1, <2>2
<1>8. AttemptsFaithful'
  BY <1>7 DEF AttemptsFaithful, Faithful
<1> QED BY <1>1, <1>5, <1>6, <1>7, <1>8 DEF RunInv

LEMMA Lapsing ==
  ASSUME RunInv, NEW t \in Tracks, TrackLeaseLapses(t), UNCHANGED stops
  PROVE  RunInv'
<1> USE RunTypes, RunConsts
<1> DEFINE row == [work[t] EXCEPT !.live = FALSE]
<1>1. work' = [work EXCEPT ![t] = row] /\ UNCHANGED <<run, attempts, dispatch, checkpoints, announced, worker>>
  BY DEF TrackLeaseLapses
<1>2. /\ work[t].attempt < MaxAttempts \/ ~(\E p \in Processes : t \in worker[p].generating)
      /\ work[t].state = "running"
  BY DEF TrackLeaseLapses
<1>3. row \in WorkRow /\ row.state = work[t].state /\ row.attempt = work[t].attempt
  BY DEF WorkRow
<1> HIDE DEF row
<1>4. work' \in [Tracks -> WorkRow] /\ work'[t] = row /\ \A u \in Tracks : u # t => work'[u] = work[u]
  BY <1>1, <1>3
<1>5. RunTypeOK'
  BY <1>1, <1>4 DEF RunInv, RunTypeOK, WorkRow, MaxTries
<1>6. RunTold'
  BY <1>1, ToldStays DEF RunInv
<1>7. ASSUME NEW u \in Tracks
      PROVE  Faithful(u)' /\ AttemptsBounded(u)' /\ RequestFits(u)'
  <2>0. work'[u].attempt = work[u].attempt /\ work'[u].state = work[u].state
    BY <1>3, <1>4
  <2>1. Faithful(u)'
    BY <1>1, <2>0, FaithfulStays
  <2>2. RequestFits(u)'
    BY <1>1, <2>0 DEF RequestFits
  <2>3. AttemptsBounded(u)'
    <3>1. CASE u = t
      <4>1. work[t].attempt < MaxAttempts \/ ~Active(t)
        BY <1>2 DEF Active
      <4>2. work[t].attempt \in Nat /\ work[t].attempt < MaxAttempts + stops
        BY <4>1, <1>2 DEF AttemptsBounded, WorkRow
      <4> QED BY <1>1, <1>2, <2>0, <3>1, <4>2 DEF AttemptsBounded
    <3>2. CASE u # t
      BY <1>1, <1>4, <3>2 DEF AttemptsBounded, Active
    <3> QED BY <3>1, <3>2
  <2> QED BY <2>1, <2>2, <2>3
<1>8. AttemptsFaithful'
  BY <1>7 DEF AttemptsFaithful, Faithful
<1> QED BY <1>1, <1>5, <1>6, <1>7, <1>8 DEF RunInv

LEMMA Reserving ==
  ASSUME RunInv, ReserveDispatch, UNCHANGED stops
  PROVE  RunInv'
<1> USE RunTypes, RunConsts
<1> DEFINE row(t) == [work[t] EXCEPT !.state = "requested"]
<1>1. /\ work' = [t \in Tracks |-> row(t)] /\ run' = [run EXCEPT !.state = "requested"]
      /\ announced' = <<"requested">> /\ run.state = "none"
      /\ dispatch' = [dispatch EXCEPT !.state = "pending"]
      /\ UNCHANGED <<attempts, checkpoints, worker>>
  BY DEF ReserveDispatch
<1>2. \A t \in Tracks : attempts[t] = <<>> /\ LastAttempt(attempts, t) = "none"
  BY <1>1 DEF RequestFits, LastAttempt
<1>3. \A t \in Tracks : /\ row(t) \in WorkRow /\ row(t).state = "requested"
                        /\ row(t).attempt = work[t].attempt /\ row(t).live = work[t].live
  BY DEF WorkRow
<1> HIDE DEF row
<1>4. work' \in [Tracks -> WorkRow] /\ \A t \in Tracks : work'[t] = row(t)
  BY <1>1, <1>3
<1>5. run' \in [state : {"none", "requested", "running", "cancelling"} \cup TerminalRun, cancel : BOOLEAN]
      /\ run'.state = "requested"
  BY <1>1
<1>6. dispatch' \in DispatchRow /\ dispatch'.state = "pending"
  BY <1>1 DEF RunInv, RunTypeOK, DispatchRow
<1>7. announced' \in Seq({"requested", "completed", "failed"})
  BY <1>1
<1>8. RunTypeOK'
  BY <1>1, <1>4, <1>5, <1>6, <1>7 DEF RunInv, RunTypeOK, WorkRow, MaxTries, DispatchRow
<1>9. RunTold'
  <2>1. DerivedState(attempts') = "requested"
    BY <1>1, <1>2, Derived
  <2> QED BY <1>5, <2>1 DEF RunTold, RunState, TerminalRun
<1>10. ASSUME NEW t \in Tracks
       PROVE  Faithful(t)' /\ AttemptsBounded(t)' /\ RequestFits(t)'
  <2>1. work'[t].state = "requested" /\ work'[t].attempt = work[t].attempt
    BY <1>3, <1>4
  <2>2. work[t].attempt = 0
    BY <1>2 DEF Faithful
  <2>3. Faithful(t)'
    BY <1>1, <1>2, <2>1 DEF Faithful, Ended
  <2>4. AttemptsBounded(t)'
    BY <1>1, <2>1, <2>2 DEF AttemptsBounded
  <2>5. RequestFits(t)'
    BY <1>1, <1>2 DEF RequestFits
  <2> QED BY <2>3, <2>4, <2>5
<1>11. AttemptsFaithful'
  BY <1>10 DEF AttemptsFaithful, Faithful
<1> QED BY <1>1, <1>8, <1>9, <1>10, <1>11 DEF RunInv

LEMMA Cancelling ==
  ASSUME RunInv, RequestCancellation, UNCHANGED stops
  PROVE  RunInv'
<1> USE RunTypes, RunConsts
<1> DEFINE to == IF run.state = "running" THEN "cancelling" ELSE run.state
<1>1. /\ run' = [state |-> to, cancel |-> TRUE]
      /\ run.state \in {"requested", "running", "cancelling"} /\ ~run.cancel
      /\ UNCHANGED <<attempts, work, dispatch, checkpoints, announced, worker>>
  BY DEF RequestCancellation
<1>2. run.state = DerivedState(attempts) /\ run.state \in {"requested", "running"}
  BY <1>1, Derived DEF RunInv, RunTold, RunState, TerminalRun
<1>3. run'.state = to /\ run'.cancel /\ to \in {"requested", "cancelling"}
  BY <1>1, <1>2
<1>4. RunTold'
  BY <1>1, <1>2, <1>3 DEF RunTold, RunState, TerminalRun
<1>5. RunTypeOK'
  BY <1>1, <1>3 DEF RunInv, RunTypeOK
<1>6. ASSUME NEW t \in Tracks
      PROVE  Faithful(t)' /\ AttemptsBounded(t)' /\ RequestFits(t)'
  BY <1>1, <1>3, FaithfulStays DEF AttemptsBounded, Active, RequestFits
<1>7. AttemptsFaithful'
  BY <1>6 DEF AttemptsFaithful, Faithful
<1> QED BY <1>1, <1>4, <1>5, <1>6, <1>7 DEF RunInv

LEMMA TrackClaimed ==
  ASSUME RunInv, NEW p \in Processes, NEW t \in Tracks, ClaimTrack(p, t), UNCHANGED stops
  PROVE  RunInv'
<1> USE RunTypes, RunConsts
<1> DEFINE next == IF t = "environment" THEN "evaluation" ELSE "executing"
           n    == work[t].attempt + 1
<1>0. worker[p] \in WorkerState /\ next \in {"evaluation", "executing"}
  OBVIOUS
<1>1. CASE ~Claimable(t)
  <2> DEFINE w == [worker[p] EXCEPT !.step = next]
  <2>1. /\ worker' = [worker EXCEPT ![p] = w] /\ stops' \in 0..MaxStops /\ stops' >= stops
        /\ UNCHANGED <<run, attempts, work, checkpoints, announced>>
    BY <1>1 DEF ClaimTrack
  <2>2. dispatch' \in DispatchRow
    BY DEF ClaimTrack, RunInv, RunTypeOK, DispatchRow
  <2>3. /\ w \in WorkerState /\ w.step \notin {"idle", "claimed", "bound"}
        /\ w.generating = worker[p].generating /\ w.lease = worker[p].lease
    BY <1>0 DEF WorkerState
  <2> HIDE DEF w
  <2> QED BY <2>1, <2>2, <2>3, WorkerMove DEF DispatchRow
<1>2. CASE Claimable(t)
  <2> DEFINE as  == AppendClaimedAttempt(t)
             row == [state |-> "running", attempt |-> n, holder |-> p, live |-> TRUE]
             w   == [worker[p] EXCEPT
                 !.step = next, !.lease = [worker[p].lease EXCEPT ![t] = n],
                 !.generating = @ \cup {t}, !.cancelled = @ \/ run.cancel]
  <2>1. /\ attempts' = as /\ run' = [run EXCEPT !.state = RunState(as)]
        /\ work' = [work EXCEPT ![t] = row] /\ worker' = [worker EXCEPT ![p] = w]
        /\ UNCHANGED <<dispatch, checkpoints, announced>>
    BY <1>2 DEF ClaimTrack
  <2>2. work[t].attempt \in Nat /\ n <= MaxAttempts + stops /\ n \in 0..MaxTries
    <3>1. work[t].attempt \in Nat
      BY DEF WorkRow
    <3>2. work[t].attempt < MaxAttempts + stops
      BY <1>2, <3>1 DEF Claimable, AttemptsBounded
    <3> QED BY <3>1, <3>2 DEF MaxTries
  <2>3. work[t].state = "running" => attempts[t] # <<>>
    BY DEF Faithful, LastAttempt
  <2>4. /\ as \in [Tracks -> Seq(AttemptStates)]
        /\ \A u \in Tracks : u # t => as[u] = attempts[u]
        /\ Len(as[t]) = Len(attempts[t]) + 1 /\ LastAttempt(as, t) = "running"
        /\ \A m \in 1..Len(as[t]) : as[t][m] = "succeeded" =>
             m \in 1..Len(attempts[t]) /\ attempts[t][m] = "succeeded"
    BY <2>3, Claimed
  <2>5. row \in WorkRow
    BY <2>2 DEF WorkRow
  <2>6. /\ w \in WorkerState /\ w.step = next /\ w.generating = worker[p].generating \cup {t}
        /\ w.lease[t] = n /\ \A u \in Tracks : u # t => w.lease[u] = worker[p].lease[u]
    <3>1. [worker[p].lease EXCEPT ![t] = n] \in [Tracks -> 0..MaxTries]
      BY <1>0, <2>2 DEF WorkerState
    <3>2. worker[p].lease \in [Tracks -> 0..MaxTries]
      BY <1>0 DEF WorkerState
    <3> DEFINE l == [worker[p].lease EXCEPT ![t] = n]
    <3>3. l[t] = n /\ \A u \in Tracks : u # t => l[u] = worker[p].lease[u]
      BY <3>2
    <3>4. w = [worker[p] EXCEPT !.step = next, !.lease = l,
                                !.generating = @ \cup {t}, !.cancelled = @ \/ run.cancel]
      OBVIOUS
    <3> HIDE DEF l, next, w
    <3>5. w \in WorkerState
      BY <1>0, <3>1, <3>4 DEF WorkerState, l
    <3>6. w.step = next /\ w.lease = l /\ w.generating = worker[p].generating \cup {t}
      BY <1>0, <3>4 DEF WorkerState
    <3> QED BY <3>3, <3>5, <3>6
  <2> HIDE DEF as, row, w, next
  <2>7. /\ work' \in [Tracks -> WorkRow] /\ work'[t] = row
        /\ \A u \in Tracks : u # t => work'[u] = work[u]
    BY <2>1, <2>5
  <2>8. /\ worker' \in [Processes -> WorkerState] /\ worker'[p] = w
        /\ \A q \in Processes : q # p => worker'[q] = worker[q]
    BY <2>1, <2>6
  <2>9. DerivedState(as) = "running" /\ RunState(as) \in {"running", "cancelling"}
    BY <2>4, Derived DEF RunState
  <2>10. /\ run' \in [state : {"none", "requested", "running", "cancelling"} \cup TerminalRun,
                      cancel : BOOLEAN]
         /\ run'.state = RunState(as) /\ run'.cancel = run.cancel
    BY <2>1, <2>9
  <2>11. RunTypeOK'
    BY <2>1, <2>4, <2>7, <2>8, <2>10 DEF RunInv, RunTypeOK, WorkRow, WorkerState, MaxTries
  <2>12. RunTold'
    BY <2>1, <2>9, <2>10 DEF RunTold, RunState, TerminalRun
  <2>13. ASSUME NEW u \in Tracks
         PROVE  Faithful(u)' /\ AttemptsBounded(u)' /\ RequestFits(u)'
    <3>1. RequestFits(u)'
      <4>1. run'.state # "none"
        BY <2>9, <2>10
      <4>2. u = t => LastAttempt(attempts', u) = "running"
        BY <2>1, <2>4
      <4>3. u # t => LastAttempt(attempts', u) = LastAttempt(attempts, u) /\ work'[u] = work[u]
        BY <2>1, <2>4, <2>7 DEF LastAttempt
      <4> QED BY <4>1, <4>2, <4>3 DEF RequestFits
    <3>2. CASE u = t
      <4>1. work'[u].attempt = n /\ work'[u].state = "running" /\ work'[u].live /\ work'[u].holder = p
        BY <2>7, <3>2 DEF row
      <4>2. Faithful(u)'
        <5>1. Len(attempts'[u]) = n
          BY <2>1, <2>4, <3>2 DEF Faithful
        <5>2. \A m \in 1..Len(attempts'[u]) :
                attempts'[u][m] = "succeeded" => CheckpointSequence(u, m) \in checkpoints'
          BY <2>1, <2>4, <3>2 DEF Faithful
        <5>3. LastAttempt(attempts', u) = "running"
          BY <2>1, <2>4, <3>2
        <5> QED BY <4>1, <5>1, <5>2, <5>3 DEF Faithful, Ended
      <4>3. Active(u)'
        BY <2>6, <2>8, <3>2, <4>1 DEF Active
      <4>4. AttemptsBounded(u)'
        BY <2>2, <4>1, <4>3 DEF AttemptsBounded
      <4> QED BY <3>1, <4>2, <4>4
    <3>3. CASE u # t
      <4>1. work'[u] = work[u] /\ attempts'[u] = attempts[u]
        BY <2>1, <2>4, <2>7, <3>3
      <4>2. Faithful(u)'
        BY <2>1, <4>1, FaithfulStays
      <4>3. Active(u) => Active(u)'
        BY <2>6, <2>8, <3>3, <4>1 DEF Active
      <4>4. AttemptsBounded(u)'
        BY <4>1, <4>3 DEF AttemptsBounded
      <4> QED BY <3>1, <4>2, <4>4
    <3> QED BY <3>2, <3>3
  <2>14. \A q \in Processes :
           worker'[q].step \in {"idle", "claimed", "bound"} => worker'[q].generating = {}
    BY <1>0, <2>6, <2>8 DEF RunInv
  <2>15. AttemptsFaithful'
    BY <2>13 DEF AttemptsFaithful, Faithful
  <2> QED BY <2>11, <2>12, <2>13, <2>14, <2>15 DEF RunInv
<1> QED BY <1>1, <1>2

\* A worker that has lost the lease of a track was not active on it while it lived.
LEMMA Losing ==
  ASSUME RunInv, NEW p \in Processes, NEW t \in Tracks, UNCHANGED stops,
         worker[p].step = "executing", ~TrackFenced(p, t), LoseTrack(p, t),
         UNCHANGED <<run, attempts, work, dispatch, checkpoints, announced>>
  PROVE  RunInv'
<1> USE RunTypes, RunConsts
<1> DEFINE w == [worker[p] EXCEPT !.generating = @ \ {t}, !.lost = TRUE]
<1>1. worker' = [worker EXCEPT ![p] = w]
  BY DEF LoseTrack
<1>2. worker[p] \in WorkerState
  OBVIOUS
<1>3. /\ w \in WorkerState /\ w.step = "executing" /\ w.lease = worker[p].lease
      /\ w.generating = worker[p].generating \ {t}
  BY <1>2 DEF WorkerState
<1> HIDE DEF w
<1>4. worker' \in [Processes -> WorkerState]
  BY <1>1, <1>3
<1>5. RunTypeOK'
  BY <1>4 DEF RunInv, RunTypeOK, WorkerState, MaxTries
<1>6. RunTold'
  BY ToldStays DEF RunInv
<1>7. ASSUME NEW u \in Tracks
      PROVE  Faithful(u)' /\ AttemptsBounded(u)' /\ RequestFits(u)'
  <2>1. work[u].state = "running" /\ work[u].live /\ Active(u) => Active(u)'
    BY <1>1, <1>3 DEF Active, TrackFenced
  <2>2. AttemptsBounded(u)'
    BY <2>1 DEF AttemptsBounded
  <2> QED BY <2>2, FaithfulStays DEF RequestFits
<1>8. \A q \in Processes :
        worker'[q].step \in {"idle", "claimed", "bound"} => worker'[q].generating = {}
  BY <1>1, <1>3 DEF RunInv
<1>9. AttemptsFaithful'
  BY <1>7 DEF AttemptsFaithful, Faithful
<1> QED BY <1>5, <1>6, <1>7, <1>8, <1>9 DEF RunInv

LEMMA Heartbeat ==
  ASSUME RunInv, NEW p \in Processes, NEW t \in Tracks, HeartbeatTrack(p, t), UNCHANGED stops
  PROVE  RunInv'
<1> USE RunTypes, RunConsts
<1>1. /\ UNCHANGED <<run, attempts, work, dispatch, checkpoints, announced>>
      /\ worker[p].step = "executing"
  BY DEF HeartbeatTrack
<1>2. CASE TrackFenced(p, t)
  <2> DEFINE w == [worker[p] EXCEPT !.cancelled = TRUE]
  <2>1. worker' = [worker EXCEPT ![p] = w]
    BY <1>2 DEF HeartbeatTrack
  <2>2. worker[p] \in WorkerState
    OBVIOUS
  <2>3. /\ w \in WorkerState /\ w.step = "executing" /\ w.lease = worker[p].lease
        /\ w.generating = worker[p].generating
    BY <1>1, <2>2 DEF WorkerState
  <2>4. stops' \in 0..MaxStops /\ stops' >= stops /\ dispatch' \in DispatchRow
    BY <1>1 DEF RunInv, RunTypeOK, DispatchRow
  <2> HIDE DEF w
  <2> QED BY <1>1, <2>1, <2>3, <2>4, WorkerMove DEF DispatchRow
<1>3. CASE ~TrackFenced(p, t)
  BY <1>1, <1>3, Losing DEF HeartbeatTrack
<1> QED BY <1>2, <1>3

LEMMA Completing ==
  ASSUME RunInv, NEW p \in Processes, NEW t \in Tracks, NEW o \in Ended,
         CompleteTrack(p, t, o), UNCHANGED stops
  PROVE  RunInv'
<1> USE RunTypes, RunConsts
<1>1. worker[p].step = "executing" /\ t \in worker[p].generating /\ UNCHANGED dispatch
  BY DEF CompleteTrack
<1>2. CASE ~TrackFenced(p, t)
  BY <1>1, <1>2, Losing DEF CompleteTrack
<1>3. CASE TrackFenced(p, t)
  <2> DEFINE as  == ApplyCheckpoint(t, o)
             row == [state |-> o, attempt |-> work[t].attempt, holder |-> NoProcess, live |-> FALSE]
             w   == [worker[p] EXCEPT !.generating = @ \ {t}]
             n   == work[t].attempt
  <2>1. /\ attempts' = as /\ run' = [run EXCEPT !.state = RunState(as)]
        /\ work' = [work EXCEPT ![t] = row] /\ worker' = [worker EXCEPT ![p] = w]
        /\ EnqueueRunEvent(RunState(as)) /\ UNCHANGED dispatch
        /\ checkpoints' = checkpoints \cup {CheckpointSequence(t, n)}
    BY <1>3 DEF CompleteTrack, InsertCheckpoint, TrackFenced
  <2>2. work[t].state = "running" /\ LastAttempt(attempts, t) = "running" /\ attempts[t] # <<>>
    BY <1>3 DEF TrackFenced, Faithful, LastAttempt
  <2>3. o \in AttemptStates /\ o # "running"
    BY DEF Ended, AttemptStates
  <2>4. /\ as \in [Tracks -> Seq(AttemptStates)]
        /\ \A u \in Tracks : u # t => as[u] = attempts[u]
        /\ Len(as[t]) = Len(attempts[t]) /\ LastAttempt(as, t) = o
        /\ \A m \in 1..Len(as[t]) : as[t][m] = "succeeded" =>
             m = Len(as[t]) \/ attempts[t][m] = "succeeded"
    BY <2>2, <2>3, Applied
  <2>5. n \in 1..MaxTries /\ n = Len(attempts[t])
    BY <2>2, LastOf DEF Faithful, WorkRow
  <2>6. row \in WorkRow
    BY DEF WorkRow
  <2>7. /\ w \in WorkerState /\ w.step = "executing" /\ w.lease = worker[p].lease
        /\ w.generating = worker[p].generating \ {t}
    <3>1. worker[p] \in WorkerState
      OBVIOUS
    <3> QED BY <1>1, <3>1 DEF WorkerState
  <2> HIDE DEF as, row, w, n
  <2>8. /\ work' \in [Tracks -> WorkRow] /\ work'[t] = row
        /\ \A u \in Tracks : u # t => work'[u] = work[u]
    BY <2>1, <2>6
  <2>9. /\ worker' \in [Processes -> WorkerState] /\ worker'[p] = w
        /\ \A q \in Processes : q # p => worker'[q] = worker[q]
    BY <2>1, <2>7
  <2>10. RunState(as) \in {"requested", "running", "cancelling"} \cup TerminalRun
    BY Derived DEF RunState
  <2>11. /\ run' \in [state : {"none", "requested", "running", "cancelling"} \cup TerminalRun,
                      cancel : BOOLEAN]
         /\ run'.state = RunState(as) /\ run'.cancel = run.cancel
    BY <2>1, <2>10
  <2>12. checkpoints' \subseteq 1..2 * MaxTries
    <3>1. CheckpointSequence(t, n) \in 1..2 * MaxTries
      BY <2>5 DEF CheckpointSequence
    <3>2. checkpoints \subseteq 1..2 * MaxTries
      BY DEF RunInv, RunTypeOK, MaxTries
    <3> QED BY <2>1, <3>1, <3>2
  <2>13. /\ announced' \in Seq({"requested", "completed", "failed"})
         /\ run'.state \in TerminalRun => announced'[Len(announced')] = TerminalEvent(run'.state)
    <3> DEFINE e == TerminalEvent(RunState(as))
    <3>1. announced \in Seq({"requested", "completed", "failed"})
      BY DEF RunInv, RunTypeOK
    <3>2. e \in {"requested", "completed", "failed"}
      BY DEF TerminalEvent
    <3> HIDE DEF e
    <3>3. CASE RunState(as) \in TerminalRun
      <4>1. announced' = Append(announced, e)
        BY <2>1, <3>3 DEF EnqueueRunEvent, e
      <4>2. Append(announced, e) \in Seq({"requested", "completed", "failed"})
            /\ Append(announced, e)[Len(Append(announced, e))] = e
        BY <3>1, <3>2, AppendFacts
      <4> QED BY <2>11, <4>1, <4>2 DEF e
    <3>4. CASE RunState(as) \notin TerminalRun
      BY <2>1, <2>11, <3>1, <3>4 DEF EnqueueRunEvent
    <3> QED BY <3>3, <3>4
  <2>14. RunTypeOK'
    BY <2>1, <2>4, <2>8, <2>9, <2>11, <2>12, <2>13
       DEF RunInv, RunTypeOK, WorkRow, WorkerState, MaxTries
  <2>15. RunTold'
    BY <2>1, <2>11, <2>13 DEF RunTold, RunState
  <2>16. ASSUME NEW u \in Tracks
         PROVE  Faithful(u)' /\ AttemptsBounded(u)' /\ RequestFits(u)'
    <3>1. RequestFits(u)'
      <4>1. run'.state # "none"
        BY <2>10, <2>11 DEF TerminalRun
      <4>2. u = t => work'[u].state = o
        BY <2>8 DEF row
      <4>3. u # t => LastAttempt(attempts', u) = LastAttempt(attempts, u) /\ work'[u] = work[u]
        BY <2>1, <2>4, <2>8 DEF LastAttempt
      <4> QED BY <4>1, <4>2, <4>3 DEF RequestFits, Ended
    <3>2. CASE u = t
      <4>1. work'[u].attempt = n /\ work'[u].state = o
        BY <2>8, <3>2 DEF row, n
      <4>2. Faithful(u)'
        <5>1. Len(attempts'[u]) = n /\ LastAttempt(attempts', u) = o
          BY <2>1, <2>4, <2>5, <3>2
        <5>2. \A m \in 1..Len(attempts'[u]) :
                attempts'[u][m] = "succeeded" => CheckpointSequence(u, m) \in checkpoints'
          BY <2>1, <2>4, <2>5, <3>2 DEF Faithful
        <5> QED BY <2>3, <4>1, <5>1, <5>2 DEF Faithful
      <4>3. AttemptsBounded(u)'
        BY <2>3, <3>2, <4>1 DEF AttemptsBounded, Ended, n
      <4> QED BY <3>1, <4>2, <4>3
    <3>3. CASE u # t
      <4>1. work'[u] = work[u] /\ attempts'[u] = attempts[u]
        BY <2>1, <2>4, <2>8, <3>3
      <4>2. Faithful(u)'
        BY <2>1, <4>1, FaithfulStays
      <4>3. Active(u) => Active(u)'
        BY <2>7, <2>9, <3>3, <4>1 DEF Active
      <4>4. AttemptsBounded(u)'
        BY <4>1, <4>3 DEF AttemptsBounded
      <4> QED BY <3>1, <4>2, <4>4
    <3> QED BY <3>2, <3>3
  <2>17. \A q \in Processes :
           worker'[q].step \in {"idle", "claimed", "bound"} => worker'[q].generating = {}
    BY <2>7, <2>9 DEF RunInv
  <2>18. AttemptsFaithful'
    BY <2>16 DEF AttemptsFaithful, Faithful
  <2> QED BY <2>14, <2>15, <2>16, <2>17, <2>18 DEF RunInv
<1> QED BY <1>2, <1>3

LEMMA FailingPreparation ==
  ASSUME RunInv, NEW p \in Processes, FailDispatchPreparation(p), UNCHANGED stops
  PROVE  RunInv'
<1> USE RunTypes, RunConsts
<1> DEFINE ending == IF run.cancel THEN "cancelled" ELSE "failed"
           fails  == /\ DispatchFenced(p)
                     /\ \A t \in Tracks : attempts[t] = <<>> /\ work[t].state = "requested"
           row    == [state |-> ending, attempt |-> 1, holder |-> NoProcess, live |-> FALSE]
<1>1. /\ worker[p].step = "claimed" /\ worker[p].generating = {} /\ UNCHANGED checkpoints
      /\ worker' = [worker EXCEPT ![p] = IdleWorker]
  BY DEF FailDispatchPreparation, Exit, RunInv
<1>2. CASE ~fails
  <2>1. UNCHANGED <<run, attempts, work, dispatch, announced>>
    BY <1>2 DEF FailDispatchPreparation
  <2>2. stops' \in 0..MaxStops /\ stops' >= stops /\ dispatch' \in DispatchRow
    BY <2>1 DEF RunInv, RunTypeOK, DispatchRow
  <2> QED BY <1>1, <2>1, <2>2, Exiting
<1>3. CASE fails
  <2>1. /\ attempts' = [t \in Tracks |-> <<ending>>] /\ run' = [run EXCEPT !.state = ending]
        /\ work' = [t \in Tracks |-> row] /\ EnqueueRunEvent(ending)
        /\ dispatch' = [state |-> "failed", holder |-> NoProcess, live |-> FALSE]
    BY <1>3 DEF FailDispatchPreparation
  <2>2. /\ ending \in {"cancelled", "failed"} /\ ending \in AttemptStates
        /\ ending \in Ended /\ ending \in TerminalRun
    BY DEF AttemptStates, Ended, TerminalRun
  <2>3. row \in WorkRow
    BY <2>2 DEF WorkRow, MaxTries
  <2>4. row.state = ending /\ row.attempt = 1
    OBVIOUS
  <2> HIDE DEF ending, row
  <2>5. /\ attempts' \in [Tracks -> Seq(AttemptStates)]
        /\ \A t \in Tracks : attempts'[t] = <<ending>> /\ LastAttempt(attempts', t) = ending
    BY <2>1, <2>2 DEF LastAttempt
  <2>6. /\ work' \in [Tracks -> WorkRow] /\ \A t \in Tracks : work'[t] = row
    BY <2>1, <2>3
  <2>7. worker' \in [Processes -> WorkerState]
    BY <1>1, IdleIsState
  <2>8. /\ run' \in [state : {"none", "requested", "running", "cancelling"} \cup TerminalRun,
                     cancel : BOOLEAN]
        /\ run'.state = ending /\ run'.cancel = run.cancel
    BY <2>1, <2>2
  <2>9. /\ announced' \in Seq({"requested", "completed", "failed"})
        /\ announced'[Len(announced')] = TerminalEvent(ending)
    <3> DEFINE e == TerminalEvent(ending)
    <3>1. announced \in Seq({"requested", "completed", "failed"})
      BY DEF RunInv, RunTypeOK
    <3>2. e \in {"requested", "completed", "failed"}
      BY DEF TerminalEvent
    <3>3. announced' = Append(announced, e)
      BY <2>1, <2>2 DEF EnqueueRunEvent
    <3> HIDE DEF e
    <3>4. Append(announced, e) \in Seq({"requested", "completed", "failed"})
          /\ Append(announced, e)[Len(Append(announced, e))] = e
      BY <3>1, <3>2, AppendFacts
    <3> QED BY <3>3, <3>4 DEF e
  <2>10. dispatch' \in DispatchRow
    BY <2>1 DEF DispatchRow
  <2>11. RunTypeOK'
    BY <1>1, <2>5, <2>6, <2>7, <2>8, <2>9, <2>10
       DEF RunInv, RunTypeOK, WorkRow, WorkerState, MaxTries, DispatchRow
  <2>12. DerivedState(attempts') = ending
    <3> DEFINE latest    == [t \in Tracks |-> LastAttempt(attempts', t)]
               terminal  == {t \in Tracks : latest[t] \in Ended}
               succeeded == {t \in Tracks : latest[t] = "succeeded"}
    <3>1. \A t \in Tracks : latest[t] = ending
      BY <2>5
    <3>2. ending # "none" /\ ending # "succeeded" /\ Tracks # {}
      BY <2>2 DEF Tracks
    <3>3. terminal = Tracks /\ succeeded = {} /\ ~(\A t \in Tracks : latest[t] = "none")
      BY <2>2, <3>1, <3>2
    <3>4. (\A t \in Tracks : latest[t] = "cancelled") <=> ending = "cancelled"
      BY <3>1, <3>2
    <3> HIDE DEF latest
    <3>5. DerivedState(attempts') = IF \A t \in Tracks : latest[t] = "cancelled" THEN "cancelled" ELSE "failed"
      BY <3>2, <3>3 DEF DerivedState, latest
    <3> QED BY <2>2, <3>4, <3>5
  <2>13. RunTold'
    BY <2>2, <2>8, <2>9, <2>12 DEF RunTold, RunState
  <2>14. ASSUME NEW t \in Tracks
         PROVE  Faithful(t)' /\ AttemptsBounded(t)' /\ RequestFits(t)'
    <3>1. work'[t].state = ending /\ work'[t].attempt = 1
      BY <2>4, <2>6
    <3>2. Len(attempts'[t]) = 1 /\ \A n \in 1..Len(attempts'[t]) : attempts'[t][n] = ending
      <4>1. Len(<<ending>>) = 1 /\ <<ending>>[1] = ending
        OBVIOUS
      <4>2. attempts'[t] = <<ending>>
        BY <2>5
      <4>3. \A n \in 1..1 : n = 1
        OBVIOUS
      <4> QED BY <4>1, <4>2, <4>3, Zenon
    <3>3. Faithful(t)'
      BY <2>2, <2>5, <3>1, <3>2 DEF Faithful
    <3>4. AttemptsBounded(t)'
      BY <2>2, <3>1 DEF AttemptsBounded
    <3>5. RequestFits(t)'
      BY <2>2, <2>8, <3>1 DEF RequestFits
    <3> QED BY <3>3, <3>4, <3>5
  <2>15. \A q \in Processes :
           worker'[q].step \in {"idle", "claimed", "bound"} => worker'[q].generating = {}
    BY <1>1, IdleIsState DEF RunInv
  <2>16. AttemptsFaithful'
    BY <2>14 DEF AttemptsFaithful, Faithful
  <2> QED BY <2>11, <2>13, <2>14, <2>15, <2>16 DEF RunInv
<1> QED BY <1>2, <1>3

LEMMA DispatchLapsing ==
  ASSUME RunInv, UNCHANGED <<run, attempts, work, checkpoints, announced, worker, stops>>,
         dispatch' \in DispatchRow
  PROVE  RunInv'
<1> USE RunTypes, RunConsts
<1>1. RunTypeOK'
  BY DEF RunInv, RunTypeOK, DispatchRow
<1>2. RunTold'
  BY ToldStays DEF RunInv
<1>3. \A t \in Tracks : Faithful(t)' /\ AttemptsBounded(t)' /\ RequestFits(t)'
  BY FaithfulStays DEF AttemptsBounded, Active, RequestFits
<1>4. AttemptsFaithful'
  BY <1>3 DEF AttemptsFaithful, Faithful
<1> QED BY <1>1, <1>2, <1>3, <1>4 DEF RunInv

LEMMA RunInitial == Init => RunInv
<1> SUFFICES ASSUME Init PROVE RunInv
  OBVIOUS
<1> USE RunConsts DEF Init, RunInit
<1>1. IdleWorker \in WorkerState
  BY IdleIsState
<1>2. RunTypeOK
  <2>1. worker \in [Processes -> WorkerState]
    BY <1>1
  <2>2. attempts \in [Tracks -> Seq(AttemptStates)] /\ announced \in Seq({"requested", "completed", "failed"})
    OBVIOUS
  <2>3. work \in [Tracks -> WorkRow]
    BY DEF WorkRow
  <2> QED BY <2>1, <2>2, <2>3 DEF RunTypeOK, WorkerState, WorkRow, MaxTries
<1>3. \A t \in Tracks : attempts[t] = <<>> /\ LastAttempt(attempts, t) = "none"
  BY DEF LastAttempt
<1>4. AttemptsFaithful
  BY <1>3 DEF AttemptsFaithful, Ended
<1>5. RunTold
  BY DEF RunTold, TerminalRun
<1>6. \A t \in Tracks : AttemptsBounded(t) /\ RequestFits(t)
  BY <1>3 DEF AttemptsBounded, RequestFits
<1>7. \A p \in Processes : worker[p].generating = {}
  BY IdleIsState
<1> QED BY <1>2, <1>4, <1>5, <1>6, <1>7 DEF RunInv

LEMMA RunStepKeeps ==
  ASSUME RunInv, RunStep, UNCHANGED stops
  PROVE  RunInv'
<1>1. CASE ReserveDispatch
  BY <1>1, Reserving
<1>2. CASE RequestCancellation
  BY <1>2, Cancelling
<1>3. CASE \E t \in Tracks : RetryTrack(t) \/ TrackLeaseLapses(t)
  BY <1>3, Retrying, Lapsing
<1>4. CASE DispatchLeaseLapses
  <2>1. dispatch' \in DispatchRow
    BY <1>4 DEF DispatchLeaseLapses, RunInv, RunTypeOK, DispatchRow
  <2> QED BY <1>4, <2>1, DispatchLapsing DEF DispatchLeaseLapses
<1>5. ASSUME NEW p \in Processes, WorkerStep(p) \/ FailDispatchPreparation(p)
      PROVE  RunInv'
  <2>1. CASE ExecutionEnds(p)
    <3>1. stops' \in 0..MaxStops /\ stops' >= stops /\ dispatch' \in DispatchRow
      BY <2>1, RunTypes, RunConsts DEF ExecutionEnds, RunInv, RunTypeOK, DispatchRow
    <3> QED BY <2>1, <3>1, Exiting DEF ExecutionEnds, Exit
  <2>2. CASE \E t \in Tracks : ClaimTrack(p, t) \/ HeartbeatTrack(p, t)
    BY <2>2, TrackClaimed, Heartbeat
  <2>3. CASE \E t \in Tracks, o \in Ended : CompleteTrack(p, t, o)
    BY <2>3, Completing
  <2>4. CASE ClaimDispatch(p) \/ BindPreparedDispatch(p) \/ ValidateReservedRun(p)
    BY <2>4, Claiming, Binding, Validating
  <2>5. CASE FailDispatchPreparation(p)
    BY <2>5, FailingPreparation
  <2> QED BY <1>5, <2>1, <2>2, <2>3, <2>4, <2>5 DEF WorkerStep
<1> QED BY <1>1, <1>2, <1>3, <1>4, <1>5 DEF RunStep

LEMMA RunNext == RunInv /\ [Next]_vars => RunInv'
<1> SUFFICES ASSUME RunInv, [Next]_vars PROVE RunInv'
  OBVIOUS
<1>0. dispatch \in DispatchRow
  BY DEF RunInv, RunTypeOK, DispatchRow
<1>1. CASE OfRuns(RunStep /\ UNCHANGED stops)
  BY <1>1, RunStepKeeps DEF OfRuns
<1>2. ASSUME NEW p \in Processes, OfRuns(WorkerStops(p))
      PROVE  RunInv'
  <2>1. stops' \in 0..MaxStops /\ stops' > stops /\ stops' >= stops
    BY <1>2, RunTypes, RunConsts DEF OfRuns, WorkerStops
  <2> QED BY <1>0, <1>2, <2>1, Exiting DEF OfRuns, WorkerStops
<1>3. CASE UNCHANGED <<runVars, stops>>
  BY <1>0, <1>3, DispatchLapsing DEF runVars
<1> QED BY <1>1, <1>2, <1>3 DEF Next, vars, OfBuilds, OfGeneration

\* A succeeded attempt is not replaced by any step.
LEMMA SucceededKept ==
  ASSUME RunInv, [Next]_vars, NEW t \in Tracks, LastAttempt(attempts, t) = "succeeded"
  PROVE  attempts'[t] = attempts[t]
<1> USE RunTypes
<1>1. work[t].state \notin {"running", "requested"} /\ attempts[t] # <<>>
  BY DEF Faithful, RequestFits, LastAttempt
<1>2. CASE RunStep
  <2>1. ASSUME NEW p \in Processes, NEW u \in Tracks, ClaimTrack(p, u)
        PROVE  attempts'[t] = attempts[t]
    <3>1. u = t => ~Claimable(u)
      BY <1>1 DEF Claimable
    <3> QED BY <2>1, <3>1 DEF ClaimTrack, AppendClaimedAttempt
  <2>2. ASSUME NEW p \in Processes, NEW u \in Tracks, NEW o \in Ended, CompleteTrack(p, u, o)
        PROVE  attempts'[t] = attempts[t]
    <3>1. u = t => ~TrackFenced(p, u)
      BY <1>1 DEF TrackFenced
    <3> QED BY <2>2, <3>1 DEF CompleteTrack, ApplyCheckpoint
  <2>3. ASSUME NEW p \in Processes, FailDispatchPreparation(p)
        PROVE  attempts' = attempts
    BY <1>1, <2>3 DEF FailDispatchPreparation
  <2>4. ASSUME NEW p \in Processes, NEW u \in Tracks, HeartbeatTrack(p, u)
        PROVE  attempts' = attempts
    BY <2>4 DEF HeartbeatTrack
  <2>5. ASSUME NEW p \in Processes, \/ ClaimDispatch(p) \/ BindPreparedDispatch(p)
                                    \/ ValidateReservedRun(p) \/ ExecutionEnds(p)
        PROVE  attempts' = attempts
    BY <2>5 DEF ClaimDispatch, BindPreparedDispatch, ValidateReservedRun, ExecutionEnds
  <2>6. ASSUME \/ ReserveDispatch \/ RequestCancellation \/ DispatchLeaseLapses
               \/ \E u \in Tracks : RetryTrack(u) \/ TrackLeaseLapses(u)
        PROVE  attempts' = attempts
    BY <2>6 DEF ReserveDispatch, RequestCancellation, DispatchLeaseLapses, RetryTrack, TrackLeaseLapses
  <2> QED BY <1>2, <2>1, <2>2, <2>3, <2>4, <2>5, <2>6 DEF RunStep, WorkerStep
<1>3. CASE UNCHANGED attempts
  BY <1>3
<1> QED BY <1>2, <1>3 DEF Next, vars, runVars, OfRuns, OfBuilds, OfGeneration, WorkerStops

-----------------------------------------------------------------------------
(***************************************************************************)
(* Builds                                                                  *)
(***************************************************************************)

\* Stage s of attempt n has not been asked for yet.
Ahead(b, s) ==
  /\ b.step \in Stages
  /\ StageRank[s] > StageRank[b.step] \/ (s = b.step /\ ~b.sent)

Unsent(n, s) == n > command.attempt \/ Ahead(builder[n], s)

\* No request and no task for stage s of attempt n.
Nothing(n, s) ==
  /\ [attempt |-> n, stage |-> s] \notin requests
  /\ \A t \in tasks : ~(t.attempt = n /\ t.stage = s)

\* A stage is asked for once, and is on its way to the executor or under way there.
AskedOnce ==
  /\ \A n \in Attempts, s \in Stages : Unsent(n, s) => Nothing(n, s)
  /\ \A r \in requests, t \in tasks : ~(r.attempt = t.attempt /\ r.stage = t.stage)
  /\ \A t, u \in tasks : t.attempt = u.attempt /\ t.stage = u.stage => t = u

\* Only the request that the fence is at is under way, but for threads that nothing stops.
TaskFits(t) ==
  /\ t.stage = "build" <=> t.phase # "running"
  /\ t.phase # "orphan" =>
       /\ t.attempt = fence.generation /\ t.stage = fence.stage
       /\ ~fence.answered /\ passed < t.attempt

FenceFits ==
  /\ fence.generation <= command.attempt
  /\ fence.tombstone <=> fence.stage = "cleanup"
  /\ \A t \in tasks : TaskFits(t)

OutcomeFits(b) ==
  /\ b.step \in {"ensure", "build", "publish"} => b.outcome = "none"
  /\ b.outcome = "succeeded" => b.step \in {"cleanup", "record"}

BuilderFits(n) ==
  /\ n > command.attempt => builder[n] = IdleBuilder
  /\ OutcomeFits(builder[n])
  /\ builder[n].step = "publish" \/ builder[n].outcome = "succeeded" => Nothing(n, "build")

\* What the pipeline has achieved, by what its worker knows.
Built(b)   == b.step = "publish" \/ (b.step = "cleanup" /\ b.outcome = "succeeded")
Cleaned(b) == b.step = "record" /\ b.outcome = "succeeded"

\* The attempt n is closed and its candidate gone.
Closed(n) ==
  /\ fence.generation = n /\ fence.tombstone /\ fence.answered
  /\ candidate = "cleaned" /\ tag # n

\* What the attempt that the command is at has achieved.
CommandFits ==
  /\ ~inbox => command.state = "none"
  /\ command.state \in {"none", "requested"} => command.attempt < MaxBuildAttempts
  /\ command.state \in {"running", "succeeded"} => command.attempt > 0
  /\ command.state = "running" /\ command.attempt = MaxBuildAttempts =>
       /\ command.live /\ ~builder[MaxBuildAttempts].lost
       /\ builder[MaxBuildAttempts].step # "idle"
  /\ \A n \in Attempts : n = command.attempt =>
       /\ Built(builder[n]) => fence.generation = n /\ candidate = "built"
       /\ Cleaned(builder[n]) => Closed(n)
       /\ command.state = "succeeded" =>
            Closed(n) /\ Nothing(n, "build") /\ builder[n].step = "idle"

BuildInv ==
  /\ BuildTypeOK
  /\ BuildSettledOnce
  /\ AskedOnce
  /\ FenceFits
  /\ \A n \in Attempts : BuilderFits(n)
  /\ CommandFits

BuilderState ==
  [step : {"idle", "overdue", "record"} \cup Stages, sent : BOOLEAN,
   outcome : {"none", "succeeded"} \cup Failures, cancelled : BOOLEAN, lost : BOOLEAN]

CommandRow ==
  [state : {"none", "requested", "running", "succeeded", "failed", "cancelled"},
   attempt : 0..MaxBuildAttempts, live : BOOLEAN, cancel : BOOLEAN, cleanup_verified : BOOLEAN]

FenceRow ==
  [generation : 0..MaxBuildAttempts, stage : Stages \cup {"none"},
   tombstone : BOOLEAN, answered : BOOLEAN]

TaskState == [attempt : Attempts, stage : Stages, phase : {"running", "solving", "pushed", "orphan"}]

LEMMA BuildConsts == MaxBuildAttempts \in Nat /\ MaxBuildAttempts >= 1
                     /\ \A n : n \in Attempts <=> n \in Nat /\ n >= 1 /\ n <= MaxBuildAttempts
BY BuildConstants DEF Attempts

LEMMA StageRanks ==
  /\ StageRank["ensure"] = 1 /\ StageRank["build"] = 2
  /\ StageRank["publish"] = 3 /\ StageRank["cleanup"] = 4
BY DEF StageRank

LEMMA IdleIsBuilder ==
  /\ IdleBuilder \in BuilderState /\ OutcomeFits(IdleBuilder)
  /\ \A s \in Stages : ~Ahead(IdleBuilder, s)
  /\ ~Built(IdleBuilder) /\ ~Cleaned(IdleBuilder)
  /\ IdleBuilder.step = "idle" /\ IdleBuilder.outcome = "none"
BY DEF IdleBuilder, BuilderState, Stages, Failures, OutcomeFits, Ahead, Built, Cleaned

\* What execute_inner does with an answer: nothing that was asked for is asked for again,
\* and only the answers to the build and to the cleanup bring success nearer.
LEMMA AfterFacts ==
  ASSUME NEW b \in BuilderState, b.step \in Stages, OutcomeFits(b),
         NEW answer \in {"ok"} \cup Failures
  PROVE  LET a == After(b, answer)
         IN  /\ a \in BuilderState /\ OutcomeFits(a)
             /\ a.step \in {"build", "publish", "cleanup", "record"} /\ a.lost = b.lost
             /\ \A s \in Stages : Ahead(a, s) => Ahead(b, s)
             /\ a.step = "publish" => b.step = "build" /\ answer = "ok"
             /\ Built(a) /\ ~Built(b) => b.step = "build" /\ answer = "ok" /\ a.step = "publish"
             /\ Cleaned(a) => b.step = "cleanup" /\ Built(b) /\ answer = "ok"
             /\ a.outcome = "succeeded" => answer = "ok" /\ (b.step = "publish" \/ b.outcome = "succeeded")
             /\ Built(a) => a.step # b.step
<1> DEFINE a == After(b, answer)
           to == IF answer = "ok" THEN NextStage[b.step]
                                  ELSE NextStage[IF b.step = "cleanup" THEN "cleanup" ELSE "publish"]
           oc == IF answer = "ok" THEN (IF b.step = "publish" THEN "succeeded" ELSE b.outcome)
                                  ELSE (IF b.step = "cleanup" THEN "cleanup_failed" ELSE answer)
<1>1. /\ NextStage["ensure"] = "build" /\ NextStage["build"] = "publish"
      /\ NextStage["publish"] = "cleanup" /\ NextStage["cleanup"] = "record"
  BY DEF NextStage
<1>2. b.step \in {"ensure", "build", "publish", "cleanup"}
  BY DEF Stages
<1>3. /\ to \in {"build", "publish", "cleanup", "record"}
      /\ to = "publish" => b.step = "build" /\ answer = "ok"
      /\ to = "record" <=> b.step = "cleanup"
      /\ to = "build" => b.step = "ensure" /\ answer = "ok"
      /\ to \in Stages => StageRank[to] > StageRank[b.step]
  BY <1>1, <1>2, StageRanks DEF Stages
<1>4. /\ oc \in {"none", "succeeded"} \cup Failures
      /\ oc = "succeeded" => answer = "ok" /\ (b.step = "publish" \/ b.outcome = "succeeded")
      /\ answer = "ok" /\ b.step \in {"ensure", "build"} => oc = "none"
      /\ b.step = "cleanup" /\ oc = "succeeded" => b.outcome = "succeeded"
  BY <1>2 DEF BuilderState, OutcomeFits, Failures
<1>5. a = [b EXCEPT !.step = to, !.sent = FALSE, !.outcome = oc]
  BY DEF After
<1> HIDE DEF a, to, oc
<1>6. /\ a \in BuilderState
      /\ a.step = to /\ a.sent = FALSE /\ a.outcome = oc /\ a.lost = b.lost
  BY <1>3, <1>4, <1>5 DEF BuilderState, Stages
<1>7. OutcomeFits(a)
  <2>1. to \in {"build", "publish"} => oc = "none"
    BY <1>2, <1>3, <1>4
  <2>2. oc = "succeeded" => to \in {"cleanup", "record"}
    BY <1>2, <1>3, <1>4, <2>1
  <2> QED BY <1>3, <1>6, <2>1, <2>2 DEF OutcomeFits
<1>8. \A s \in Stages : Ahead(a, s) => Ahead(b, s)
  <2> SUFFICES ASSUME NEW s \in Stages, Ahead(a, s) PROVE Ahead(b, s)
    OBVIOUS
  <2>1. to \in Stages /\ StageRank[to] > StageRank[b.step] /\ (StageRank[s] > StageRank[to] \/ s = to)
    BY <1>3, <1>6 DEF Ahead
  <2>2. StageRank[s] \in Nat /\ StageRank[to] \in Nat /\ StageRank[b.step] \in Nat
    BY <1>2, <2>1, StageRanks DEF Stages
  <2> QED BY <2>1, <2>2 DEF Ahead
<1>9. Built(a) /\ ~Built(b) => b.step = "build" /\ answer = "ok" /\ a.step = "publish"
  BY <1>2, <1>3, <1>4, <1>6 DEF Built, OutcomeFits
<1>10. Cleaned(a) => b.step = "cleanup" /\ Built(b) /\ answer = "ok"
  BY <1>3, <1>4, <1>6 DEF Built, Cleaned
<1>11. Built(a) => a.step # b.step
  BY <1>2, <1>3, <1>6 DEF Built
<1> QED BY <1>3, <1>4, <1>6, <1>7, <1>8, <1>9, <1>10, <1>11 DEF a

LEMMA BuildTypes ==
  ASSUME BuildInv
  PROVE  /\ builder \in [Attempts -> BuilderState] /\ command \in CommandRow /\ fence \in FenceRow
         /\ tasks \subseteq TaskState /\ requests \subseteq [attempt : Attempts, stage : Stages]
         /\ command.attempt \in Nat /\ command.attempt <= MaxBuildAttempts
         /\ fence.generation \in Nat /\ passed \in Nat
         /\ \A n \in Attempts : builder[n] \in BuilderState /\ BuilderFits(n) /\ OutcomeFits(builder[n])
         /\ \A n \in Attempts : builder[n].step # "idle" => n <= command.attempt
<1>1. builder \in [Attempts -> BuilderState] /\ command \in CommandRow /\ fence \in FenceRow
  BY DEF BuildInv, BuildTypeOK, BuilderState, CommandRow, FenceRow
<1>2. tasks \subseteq TaskState /\ requests \subseteq [attempt : Attempts, stage : Stages]
  BY DEF BuildInv, BuildTypeOK, TaskState
<1>3. passed \in Nat
  BY BuildConsts DEF BuildInv, BuildTypeOK
<1>4. /\ command.attempt \in Nat /\ command.attempt <= MaxBuildAttempts /\ fence.generation \in Nat
  BY <1>1, BuildConsts DEF CommandRow, FenceRow
<1>5. \A n \in Attempts : BuilderFits(n)
  BY DEF BuildInv
<1>6. \A n \in Attempts : builder[n].step # "idle" => n <= command.attempt
  BY <1>4, <1>5, BuildConsts, IdleIsBuilder DEF BuilderFits
<1> QED BY <1>1, <1>2, <1>3, <1>4, <1>5, <1>6 DEF BuilderFits

LEMMA NothingStays ==
  ASSUME NEW n, NEW s, Nothing(n, s), requests' \subseteq requests,
         \A u \in tasks' : \E v \in tasks : u.attempt = v.attempt /\ u.stage = v.stage
  PROVE  Nothing(n, s)'
BY DEF Nothing

\* Only one builder changes, without an answer of the executor that brings success nearer.
LEMMA BuilderMove ==
  ASSUME BuildInv, NEW n \in Attempts, builder[n].step # "idle", NEW a \in BuilderState,
         builder' = [builder EXCEPT ![n] = a], requests' \subseteq requests,
         UNCHANGED <<commandVars, passed, executorVars>>,
         OutcomeFits(a), \A s \in Stages : Ahead(a, s) => Ahead(builder[n], s),
         a.step = "publish" => builder[n].step = "publish",
         a.outcome = "succeeded" => builder[n].outcome = "succeeded",
         Built(a) => Built(builder[n]), Cleaned(a) => Cleaned(builder[n]),
         command.state = "running" /\ command.attempt = MaxBuildAttempts /\ n = MaxBuildAttempts =>
           a.step # "idle" /\ ~a.lost
  PROVE  BuildInv'
<1> USE BuildTypes, BuildConsts
<1>0. UNCHANGED <<stream, inbox, reading, command, results, passed, fence, tasks, candidate, tag>>
  BY DEF commandVars, inboxVars, executorVars
<1>1. /\ builder' \in [Attempts -> BuilderState] /\ builder'[n] = a
      /\ \A m \in Attempts : m # n => builder'[m] = builder[m]
  OBVIOUS
<1>2. BuildTypeOK'
  BY <1>0, <1>1 DEF BuildInv, BuildTypeOK, BuilderState
<1>3. BuildSettledOnce'
  BY <1>0 DEF BuildInv, BuildSettledOnce
<1>4. AskedOnce'
  <2>1. \A m \in Attempts, s \in Stages : Unsent(m, s)' => Unsent(m, s)
    BY <1>0, <1>1 DEF Unsent, Ahead
  <2>2. \A m \in Attempts, s \in Stages : Nothing(m, s) => Nothing(m, s)'
    BY <1>0 DEF Nothing
  <2>3. \A m \in Attempts, s \in Stages : Unsent(m, s)' => Nothing(m, s)'
    BY <2>1, <2>2 DEF BuildInv, AskedOnce
  <2> QED BY <1>0, <2>3 DEF BuildInv, AskedOnce
<1>5. FenceFits'
  BY <1>0 DEF BuildInv, FenceFits, TaskFits
<1>6. \A m \in Attempts : BuilderFits(m)'
  <2> TAKE m \in Attempts
  <2>1. Nothing(m, "build") => Nothing(m, "build")'
    BY <1>0 DEF Nothing
  <2>2. BuilderFits(m)
    OBVIOUS
  <2>3. CASE m = n
    BY <1>0, <1>1, <2>1, <2>2, <2>3 DEF BuilderFits
  <2>4. CASE m # n
    BY <1>0, <1>1, <2>1, <2>2, <2>4 DEF BuilderFits
  <2> QED BY <2>3, <2>4
<1>7. CommandFits'
  <2>1. \A m \in Attempts : Nothing(m, "build") => Nothing(m, "build")'
    BY <1>0 DEF Nothing
  <2>2. \A m \in Attempts : Closed(m)' <=> Closed(m)
    BY <1>0 DEF Closed
  <2>3. \A m \in Attempts : (Built(builder'[m]) => Built(builder[m])) /\ (Cleaned(builder'[m]) => Cleaned(builder[m]))
    BY <1>1
  <2>4. command.state = "running" /\ command.attempt = MaxBuildAttempts =>
          ~builder'[MaxBuildAttempts].lost /\ builder'[MaxBuildAttempts].step # "idle"
    BY <1>1 DEF BuildInv, CommandFits
  <2>5. \A m \in Attempts : m = command'.attempt =>
           /\ Built(builder'[m]) => fence'.generation = m /\ candidate' = "built"
           /\ Cleaned(builder'[m]) => Closed(m)'
           /\ command'.state = "succeeded" =>
                Closed(m)' /\ Nothing(m, "build")' /\ builder'[m].step = "idle"
    BY <1>0, <1>1, <2>1, <2>2, <2>3 DEF BuildInv, CommandFits
  <2> QED BY <1>0, <2>4, <2>5 DEF BuildInv, CommandFits, Built, Cleaned
<1> QED BY <1>2, <1>3, <1>4, <1>5, <1>6, <1>7 DEF BuildInv

\* The stage of a worker fails.
LEMMA StageFails ==
  ASSUME BuildInv, NEW n \in Attempts, builder[n].step \in Stages, NEW answer \in Failures,
         builder' = [builder EXCEPT ![n] = After(builder[n], answer)], requests' \subseteq requests,
         UNCHANGED <<commandVars, passed, executorVars>>
  PROVE  BuildInv'
<1> USE BuildTypes, BuildConsts
<1> DEFINE b == builder[n]
           a == After(b, answer)
<1>1. b \in BuilderState /\ OutcomeFits(b) /\ b.step \in Stages /\ b.step # "idle"
  BY DEF Stages
<1>2. answer \in {"ok"} \cup Failures /\ answer # "ok"
  BY DEF Failures
<1>3. /\ a \in BuilderState /\ OutcomeFits(a) /\ a.step # "idle" /\ a.lost = b.lost
      /\ \A s \in Stages : Ahead(a, s) => Ahead(b, s)
      /\ a.step # "publish" /\ a.outcome # "succeeded" /\ ~Cleaned(a) /\ (Built(a) => Built(b))
  <2> HIDE DEF b
  <2> QED BY <1>1, <1>2, AfterFacts
<1>4. n <= command.attempt
  BY <1>1
<1>5. command.state = "running" /\ command.attempt = MaxBuildAttempts /\ n = MaxBuildAttempts => ~a.lost
  BY <1>3 DEF BuildInv, CommandFits
<1>6. builder' = [builder EXCEPT ![n] = a]
  OBVIOUS
<1> HIDE DEF a
<1> QED BY <1>1, <1>3, <1>4, <1>5, <1>6, BuilderMove DEF b

LEMMA Pausing ==
  ASSUME BuildInv, NEW n \in Attempts,
         \/ StageTimesOut(n) \/ StageCancelled(n) \/ OverdueCleanupFails(n)
         \/ BuildHeartbeat(n) \/ BuilderStops(n)
  PROVE  BuildInv'
<1> USE BuildTypes, BuildConsts
<1> DEFINE b == builder[n]
<1>0. UNCHANGED <<commandVars, passed, executorVars>> /\ requests' = requests /\ b.step # "idle"
  BY DEF StageTimesOut, StageCancelled, OverdueCleanupFails, BuildHeartbeat, BuilderStops, Stages
<1>1. b \in BuilderState /\ n <= command.attempt /\ OutcomeFits(b)
  BY <1>0
<1>2. CASE StageTimesOut(n) \/ StageCancelled(n)
  <2>1. PICK answer \in {"timed_out", "cancelled"} :
          builder' = [builder EXCEPT ![n] = After(builder[n], answer)] /\ builder[n].step \in Stages
    BY <1>2 DEF StageTimesOut, StageCancelled
  <2>2. answer \in Failures
    BY DEF Failures
  <2> QED BY <1>0, <2>1, <2>2, StageFails
<1>3. CASE OverdueCleanupFails(n)
  <2> DEFINE a == [b EXCEPT !.step = "record", !.outcome = "cleanup_failed"]
  <2>1. builder' = [builder EXCEPT ![n] = a]
    BY <1>3 DEF OverdueCleanupFails
  <2>2. /\ a \in BuilderState /\ a.step = "record" /\ a.outcome = "cleanup_failed" /\ a.lost = b.lost
    BY <1>1 DEF BuilderState, Failures
  <2> HIDE DEF a
  <2>3. /\ OutcomeFits(a) /\ ~Built(a) /\ ~Cleaned(a) /\ \A s \in Stages : ~Ahead(a, s)
    BY <2>2 DEF OutcomeFits, Built, Cleaned, Ahead, Stages
  <2>4. command.state = "running" /\ command.attempt = MaxBuildAttempts /\ n = MaxBuildAttempts => ~a.lost
    BY <2>2 DEF BuildInv, CommandFits
  <2> QED BY <1>0, <1>1, <2>1, <2>2, <2>3, <2>4, BuilderMove
<1>4. CASE BuildHeartbeat(n)
  <2>1. PICK l \in {b.lost, TRUE} :
          /\ builder' = [builder EXCEPT ![n] = [b EXCEPT !.cancelled = TRUE, !.lost = l]]
          /\ FenceRunning(n) => l = b.lost
    <3>1. CASE FenceRunning(n)
      <4>1. builder' = [builder EXCEPT ![n] = [b EXCEPT !.cancelled = TRUE]]
        BY <1>4, <3>1 DEF BuildHeartbeat
      <4>2. [b EXCEPT !.cancelled = TRUE] = [b EXCEPT !.cancelled = TRUE, !.lost = b.lost]
        BY <1>1 DEF BuilderState
      <4> QED BY <4>1, <4>2
    <3>2. CASE ~FenceRunning(n)
      BY <1>4, <3>2 DEF BuildHeartbeat
    <3> QED BY <3>1, <3>2
  <2> DEFINE a == [b EXCEPT !.cancelled = TRUE, !.lost = l]
  <2>2. /\ a \in BuilderState /\ a.step = b.step /\ a.outcome = b.outcome /\ a.sent = b.sent /\ a.lost = l
    BY <1>1 DEF BuilderState
  <2>3. builder' = [builder EXCEPT ![n] = a]
    BY <2>1
  <2> HIDE DEF a
  <2>4. /\ OutcomeFits(a) /\ (Built(a) => Built(b)) /\ (Cleaned(a) => Cleaned(b))
        /\ \A s \in Stages : Ahead(a, s) => Ahead(b, s)
    BY <1>1, <2>2 DEF OutcomeFits, Built, Cleaned, Ahead
  <2>5. command.state = "running" /\ command.attempt = MaxBuildAttempts /\ n = MaxBuildAttempts => ~a.lost
    BY <2>1, <2>2 DEF BuildInv, CommandFits, FenceRunning
  <2> QED BY <1>0, <1>1, <2>2, <2>3, <2>4, <2>5, BuilderMove
<1>5. CASE BuilderStops(n)
  <2>1. builder' = [builder EXCEPT ![n] = IdleBuilder] /\ n < MaxBuildAttempts
    BY <1>5 DEF BuilderStops, BuilderExits
  <2> DEFINE a == IdleBuilder
  <2>2. /\ a \in BuilderState /\ OutcomeFits(a) /\ ~Built(a) /\ ~Cleaned(a)
        /\ (\A s \in Stages : ~Ahead(a, s)) /\ a.step # "publish" /\ a.outcome # "succeeded"
    BY IdleIsBuilder
  <2>3. builder' = [builder EXCEPT ![n] = a] /\ n # MaxBuildAttempts
    BY <2>1
  <2> HIDE DEF a
  <2> QED BY <1>0, <1>1, <2>2, <2>3, BuilderMove
<1> QED BY <1>2, <1>3, <1>4, <1>5

\* The whole pipeline is out of time: the executor does nothing for the attempt any more, and
\* the cleanup is asked for again.
LEMMA TimingOut ==
  ASSUME BuildInv, NEW n \in Attempts, ExecutionTimesOut(n)
  PROVE  BuildInv'
<1> USE BuildTypes, BuildConsts
<1> DEFINE b == builder[n]
           a == [b EXCEPT !.step = "overdue", !.sent = FALSE, !.outcome = "timed_out"]
           r == [attempt |-> n, stage |-> "cleanup"]
<1>0. /\ UNCHANGED <<stream, inbox, reading, command, results, passed, fence, tasks, candidate, tag>>
      /\ requests' = requests \cup {r} /\ builder' = [builder EXCEPT ![n] = a]
      /\ b.step \in Stages /\ passed >= n
  BY DEF ExecutionTimesOut, commandVars, inboxVars, executorVars
<1>1. b \in BuilderState /\ n <= command.attempt /\ OutcomeFits(b) /\ b.step # "idle"
  BY <1>0 DEF Stages
<1>2. a \in BuilderState /\ a.step = "overdue" /\ a.outcome = "timed_out" /\ a.lost = b.lost
  BY <1>1 DEF BuilderState, Failures
<1>3. r.attempt = n /\ r.stage = "cleanup" /\ r \in [attempt : Attempts, stage : Stages]
  BY DEF Stages
<1> HIDE DEF a, r, b
<1>4. OutcomeFits(a) /\ ~Built(a) /\ ~Cleaned(a) /\ \A s \in Stages : ~Ahead(a, s)
  BY <1>2 DEF OutcomeFits, Built, Cleaned, Ahead, Stages
<1>5. /\ builder' \in [Attempts -> BuilderState] /\ builder'[n] = a /\ b = builder[n]
      /\ \A m \in Attempts : m # n => builder'[m] = builder[m]
  BY <1>0, <1>2 DEF b
<1>6. \A t \in tasks : ~(t.attempt = n /\ t.stage = "cleanup")
  <2> SUFFICES ASSUME NEW t \in tasks, t.attempt = n, t.stage = "cleanup" PROVE FALSE
    OBVIOUS
  <2>1. TaskFits(t) /\ t.phase # "orphan"
    BY DEF BuildInv, FenceFits, TaskFits
  <2>2. passed < n
    BY <2>1 DEF TaskFits
  <2> QED BY <1>0, <2>2
<1>7. BuildTypeOK'
  BY <1>0, <1>3, <1>5 DEF BuildInv, BuildTypeOK, BuilderState
<1>8. BuildSettledOnce' /\ FenceFits'
  BY <1>0 DEF BuildInv, BuildSettledOnce, FenceFits, TaskFits
<1>9. \A m \in Attempts, s \in Stages : Nothing(m, s) /\ (m = n => s # "cleanup") => Nothing(m, s)'
  <2>1. \A m \in Attempts, s \in Stages : [attempt |-> m, stage |-> s] = r => m = n /\ s = "cleanup"
    BY DEF r
  <2> QED BY <1>0, <2>1 DEF Nothing
<1>10. AskedOnce'
  <2>1. \A m \in Attempts, s \in Stages : Unsent(m, s)' => Unsent(m, s) /\ m # n
    BY <1>0, <1>1, <1>4, <1>5 DEF Unsent
  <2>2. \A m \in Attempts, s \in Stages : Unsent(m, s)' => Nothing(m, s)'
    BY <1>9, <2>1 DEF BuildInv, AskedOnce
  <2>4. \A q \in requests', t \in tasks' : ~(q.attempt = t.attempt /\ q.stage = t.stage)
    BY <1>0, <1>3, <1>6 DEF BuildInv, AskedOnce
  <2> QED BY <1>0, <2>2, <2>4 DEF BuildInv, AskedOnce
<1>11. \A m \in Attempts : BuilderFits(m)'
  <2> TAKE m \in Attempts
  <2>1. BuilderFits(m) /\ (Nothing(m, "build") => Nothing(m, "build")')
    BY <1>9 DEF Stages
  <2>2. CASE m = n
    BY <1>0, <1>1, <1>2, <1>4, <1>5, <2>2 DEF BuilderFits
  <2>3. CASE m # n
    BY <1>0, <1>5, <2>1, <2>3 DEF BuilderFits
  <2> QED BY <2>2, <2>3
<1>12. CommandFits'
  <2>1. \A m \in Attempts : (Closed(m)' <=> Closed(m)) /\ (Nothing(m, "build") => Nothing(m, "build")')
    BY <1>0, <1>9 DEF Closed, Stages
  <2>2. \A m \in Attempts : (Built(builder'[m]) => Built(builder[m])) /\ (Cleaned(builder'[m]) => Cleaned(builder[m]))
    BY <1>4, <1>5
  <2>3. command.state = "running" /\ command.attempt = MaxBuildAttempts =>
          ~builder'[MaxBuildAttempts].lost /\ builder'[MaxBuildAttempts].step # "idle"
    BY <1>2, <1>5 DEF BuildInv, CommandFits
  <2>4. ASSUME NEW m \in Attempts, m = command.attempt, command.state = "succeeded"
        PROVE  m # n
    BY <1>1, <1>5, <2>4 DEF BuildInv, CommandFits
  <2>5. \A m \in Attempts : m = command'.attempt =>
           /\ Built(builder'[m]) => fence'.generation = m /\ candidate' = "built"
           /\ Cleaned(builder'[m]) => Closed(m)'
           /\ command'.state = "succeeded" =>
                Closed(m)' /\ Nothing(m, "build")' /\ builder'[m].step = "idle"
    BY <1>0, <1>5, <2>1, <2>2, <2>4 DEF BuildInv, CommandFits
  <2> QED BY <1>0, <2>3, <2>5 DEF BuildInv, CommandFits, Built, Cleaned
<1> QED BY <1>7, <1>8, <1>10, <1>11, <1>12 DEF BuildInv

LEMMA Sending ==
  ASSUME BuildInv, NEW n \in Attempts, SendStage(n)
  PROVE  BuildInv'
<1> USE BuildTypes, BuildConsts
<1> DEFINE b == builder[n]
           a == [b EXCEPT !.sent = TRUE]
           r == [attempt |-> n, stage |-> b.step]
<1>0. /\ UNCHANGED <<stream, inbox, reading, command, results, passed, fence, tasks, candidate, tag>>
      /\ requests' = requests \cup {r} /\ builder' = [builder EXCEPT ![n] = a]
      /\ b.step \in Stages /\ ~b.sent
  BY DEF SendStage, commandVars, inboxVars, executorVars
<1>1. b \in BuilderState /\ n <= command.attempt /\ OutcomeFits(b)
  BY <1>0 DEF Stages
<1>2. /\ a \in BuilderState /\ a.step = b.step /\ a.outcome = b.outcome /\ a.sent /\ a.lost = b.lost
  BY <1>1 DEF BuilderState
<1>3. Ahead(b, b.step) /\ r.attempt = n /\ r.stage = b.step /\ r \in [attempt : Attempts, stage : Stages]
  BY <1>0 DEF Ahead
<1> HIDE DEF a, r, b
<1>4. /\ OutcomeFits(a) /\ (Built(a) => Built(b)) /\ (Cleaned(a) => Cleaned(b))
      /\ \A s \in Stages : Ahead(a, s) => Ahead(b, s) /\ s # b.step
  <2>1. OutcomeFits(a) /\ (Built(a) => Built(b)) /\ (Cleaned(a) => Cleaned(b))
    BY <1>1, <1>2 DEF OutcomeFits, Built, Cleaned
  <2>2. \A s \in Stages : StageRank[s] \in Nat
    BY StageRanks DEF Stages
  <2>3. \A s \in Stages : Ahead(a, s) => Ahead(b, s) /\ s # b.step
    BY <1>0, <1>2, <2>2 DEF Ahead
  <2> QED BY <2>1, <2>3
<1>5. /\ builder' \in [Attempts -> BuilderState] /\ builder'[n] = a /\ b = builder[n]
      /\ \A m \in Attempts : m # n => builder'[m] = builder[m]
  BY <1>0, <1>2 DEF b
<1>6. Nothing(n, b.step) /\ b.step \in Stages
  BY <1>0, <1>3, <1>5 DEF BuildInv, AskedOnce, Unsent
<1>7. BuildTypeOK'
  BY <1>0, <1>3, <1>5 DEF BuildInv, BuildTypeOK, BuilderState
<1>8. BuildSettledOnce' /\ FenceFits'
  BY <1>0 DEF BuildInv, BuildSettledOnce, FenceFits, TaskFits
<1>9. \A m \in Attempts, s \in Stages : Nothing(m, s) /\ (m = n => s # b.step) => Nothing(m, s)'
  <2>1. \A m \in Attempts, s \in Stages : [attempt |-> m, stage |-> s] = r => m = n /\ s = b.step
    BY DEF r
  <2> QED BY <1>0, <2>1 DEF Nothing
<1>10. AskedOnce'
  <2>1. \A m \in Attempts, s \in Stages : Unsent(m, s)' => Unsent(m, s) /\ (m = n => s # b.step)
    BY <1>0, <1>1, <1>4, <1>5 DEF Unsent
  <2>2. \A m \in Attempts, s \in Stages : Unsent(m, s)' => Nothing(m, s)'
    BY <1>9, <2>1 DEF BuildInv, AskedOnce
  <2>3. \A t \in tasks : ~(r.attempt = t.attempt /\ r.stage = t.stage)
    BY <1>3, <1>6 DEF Nothing
  <2>4. \A q \in requests', t \in tasks' : ~(q.attempt = t.attempt /\ q.stage = t.stage)
    BY <1>0, <2>3 DEF BuildInv, AskedOnce
  <2> QED BY <1>0, <2>2, <2>4 DEF BuildInv, AskedOnce
<1>11. \A m \in Attempts : BuilderFits(m)'
  <2> TAKE m \in Attempts
  <2>1. BuilderFits(m)
    OBVIOUS
  <2>2. CASE m = n
    <3>1. a.step = "publish" \/ a.outcome = "succeeded" => Nothing(m, "build") /\ b.step # "build"
      BY <1>1, <1>2, <1>5, <2>1, <2>2 DEF BuilderFits, OutcomeFits
    <3>2. a.step = "publish" \/ a.outcome = "succeeded" => Nothing(m, "build")'
      BY <1>9, <2>2, <3>1 DEF Stages
    <3> QED BY <1>0, <1>1, <1>4, <1>5, <2>2, <3>2 DEF BuilderFits
  <2>3. CASE m # n
    <3>1. Nothing(m, "build") => Nothing(m, "build")'
      BY <1>9, <2>3 DEF Stages
    <3> QED BY <1>0, <1>5, <2>1, <2>3, <3>1 DEF BuilderFits
  <2> QED BY <2>2, <2>3
<1>12. CommandFits'
  <2>1. \A m \in Attempts : Closed(m)' <=> Closed(m)
    BY <1>0 DEF Closed
  <2>2. \A m \in Attempts : (Built(builder'[m]) => Built(builder[m])) /\ (Cleaned(builder'[m]) => Cleaned(builder[m]))
    BY <1>4, <1>5
  <2>3. command.state = "running" /\ command.attempt = MaxBuildAttempts =>
          ~builder'[MaxBuildAttempts].lost /\ builder'[MaxBuildAttempts].step # "idle"
    BY <1>2, <1>5 DEF BuildInv, CommandFits
  <2>4. ASSUME NEW m \in Attempts, m = command.attempt, command.state = "succeeded"
        PROVE  Nothing(m, "build")' /\ m # n
    <3>1. Nothing(m, "build") /\ builder[m].step = "idle"
      BY <2>4 DEF BuildInv, CommandFits
    <3>2. m # n
      BY <1>5, <1>6, <3>1 DEF Stages
    <3> QED BY <1>9, <3>1, <3>2 DEF Stages
  <2>5. \A m \in Attempts : m = command'.attempt =>
           /\ Built(builder'[m]) => fence'.generation = m /\ candidate' = "built"
           /\ Cleaned(builder'[m]) => Closed(m)'
           /\ command'.state = "succeeded" =>
                Closed(m)' /\ Nothing(m, "build")' /\ builder'[m].step = "idle"
    BY <1>0, <1>5, <2>1, <2>2, <2>4 DEF BuildInv, CommandFits, Stages
  <2> QED BY <1>0, <2>3, <2>5 DEF BuildInv, CommandFits, Built, Cleaned
<1> QED BY <1>7, <1>8, <1>10, <1>11, <1>12 DEF BuildInv

\* The row of the command changes but not the attempt, and a builder may be idle again.
LEMMA CommandMove ==
  ASSUME BuildInv, command' \in CommandRow, command'.attempt = command.attempt,
         builder' \in [Attempts -> BuilderState],
         \A m \in Attempts : builder'[m] = builder[m] \/ builder'[m] = IdleBuilder,
         UNCHANGED <<passed, requests, executorVars>>, stream' \in {"absent", "published"},
         inbox' \in BOOLEAN, reading' \in Nat,
         results' \in Seq({"completed", "failed"}), BuildSettledOnce',
         ~inbox' => command'.state = "none",
         command'.state \in {"none", "requested"} => command'.attempt < MaxBuildAttempts,
         command'.state \in {"running", "succeeded"} => command'.attempt > 0,
         command'.state = "running" /\ command'.attempt = MaxBuildAttempts =>
           /\ command'.live /\ ~builder'[MaxBuildAttempts].lost
           /\ builder'[MaxBuildAttempts].step # "idle",
         \A n \in Attempts : n = command.attempt /\ command'.state = "succeeded" =>
           Closed(n) /\ Nothing(n, "build") /\ builder'[n].step = "idle"
  PROVE  BuildInv'
<1> USE BuildTypes, BuildConsts, IdleIsBuilder
<1>0. UNCHANGED <<passed, requests, fence, tasks, candidate, tag>>
  BY DEF executorVars
<1>1. BuildTypeOK'
  BY <1>0 DEF BuildInv, BuildTypeOK, BuilderState, CommandRow
<1>2. \A m \in Attempts, s \in Stages : Nothing(m, s)' <=> Nothing(m, s)
  BY <1>0 DEF Nothing
<1>3. AskedOnce'
  <2>1. \A m \in Attempts, s \in Stages : Unsent(m, s)' => Unsent(m, s)
    BY DEF Unsent
  <2> QED BY <1>0, <1>2, <2>1 DEF BuildInv, AskedOnce
<1>4. FenceFits'
  BY <1>0 DEF BuildInv, FenceFits, TaskFits
<1>5. \A m \in Attempts : BuilderFits(m)'
  <2> TAKE m \in Attempts
  <2>1. BuilderFits(m) /\ "build" \in Stages
    BY DEF Stages
  <2> QED BY <1>2, <2>1 DEF BuilderFits
<1>6. CommandFits'
  <2>1. \A m \in Attempts : Closed(m)' <=> Closed(m)
    BY <1>0 DEF Closed
  <2>2. "build" \in Stages
    BY DEF Stages
  <2>3. \A m \in Attempts : m = command'.attempt =>
           /\ Built(builder'[m]) => fence'.generation = m /\ candidate' = "built"
           /\ Cleaned(builder'[m]) => Closed(m)'
           /\ command'.state = "succeeded" =>
                Closed(m)' /\ Nothing(m, "build")' /\ builder'[m].step = "idle"
    BY <1>0, <1>2, <2>1, <2>2 DEF BuildInv, CommandFits
  <2> QED BY <2>3 DEF CommandFits, Built, Cleaned
<1> QED BY <1>1, <1>3, <1>4, <1>5, <1>6 DEF BuildInv

LEMMA Commanding ==
  ASSUME BuildInv,
         \/ BuildRequested \/ FindNoDuplicate \/ AcceptCommand \/ AcceptFails
         \/ RequestBuildCancellation \/ BuildLeaseLapses
  PROVE  BuildInv'
<1> USE BuildTypes, BuildConsts
<1>0. UNCHANGED <<results, builder, passed, requests, executorVars>> /\ builder' \in [Attempts -> BuilderState]
  BY DEF BuildRequested, FindNoDuplicate, AcceptCommand, AcceptFails, RequestBuildCancellation,
         BuildLeaseLapses
<1>1. results' \in Seq({"completed", "failed"}) /\ stream \in {"absent", "published"} /\ inbox \in BOOLEAN /\ reading \in Nat
  BY <1>0 DEF BuildInv, BuildTypeOK
<1>2. \A n \in Attempts : n = command.attempt /\ command.state = "succeeded" =>
        Closed(n) /\ Nothing(n, "build") /\ builder[n].step = "idle"
  BY DEF BuildInv, CommandFits
<1>3. /\ ~inbox => command.state = "none"
      /\ command.state \in {"none", "requested"} => command.attempt < MaxBuildAttempts
      /\ command.state \in {"running", "succeeded"} => command.attempt > 0
      /\ command.state = "running" /\ command.attempt = MaxBuildAttempts =>
           /\ command.live /\ ~builder[MaxBuildAttempts].lost
           /\ builder[MaxBuildAttempts].step # "idle"
  BY DEF BuildInv, CommandFits
<1>4. Len(results) = IF command.state \in TerminalBuild THEN 1 ELSE 0
  BY DEF BuildInv, BuildSettledOnce
<1>5. CASE BuildRequested
  <2>1. stream = "absent" /\ stream' = "published" /\ UNCHANGED <<inbox, reading, command>>
    BY <1>5 DEF BuildRequested
  <2>2. BuildSettledOnce'
    BY <1>0, <1>4, <2>1 DEF BuildSettledOnce
  <2> QED BY <1>0, <1>1, <1>2, <1>3, <2>1, <2>2, CommandMove
<1>6. CASE AcceptCommand
  <2>1. /\ UNCHANGED stream /\ inbox' = TRUE /\ reading' \in Nat
        /\ command' = IF inbox THEN command ELSE [command EXCEPT !.state = "requested"]
    BY <1>1, <1>6 DEF AcceptCommand
  <2>2. CASE inbox
    <3>1. command' = command
      BY <2>1, <2>2
    <3>2. BuildSettledOnce'
      BY <1>0, <1>4, <3>1 DEF BuildSettledOnce
    <3> QED BY <1>0, <1>1, <1>2, <1>3, <2>1, <2>2, <3>1, <3>2, CommandMove
  <2>3. CASE ~inbox
    <3>1. /\ command' \in CommandRow /\ command'.state = "requested"
          /\ command'.attempt = command.attempt /\ command.state = "none"
      BY <1>3, <2>1, <2>3 DEF CommandRow
    <3>2. BuildSettledOnce'
      BY <1>0, <1>4, <3>1 DEF BuildSettledOnce, TerminalBuild
    <3> QED BY <1>0, <1>1, <1>3, <2>1, <3>1, <3>2, CommandMove
  <2> QED BY <2>2, <2>3
<1>9. CASE FindNoDuplicate \/ AcceptFails
  <2>1. UNCHANGED <<stream, inbox, command>> /\ reading' \in Nat
    BY <1>1, <1>9 DEF FindNoDuplicate, AcceptFails
  <2>2. BuildSettledOnce'
    BY <1>0, <1>4, <2>1 DEF BuildSettledOnce
  <2> QED BY <1>0, <1>1, <1>2, <1>3, <2>1, <2>2, CommandMove
<1>7. CASE RequestBuildCancellation
  <2>1. UNCHANGED <<stream, inbox, reading>> /\ command' = [command EXCEPT !.cancel = TRUE]
    BY <1>7 DEF RequestBuildCancellation, inboxVars
  <2>2. /\ command' \in CommandRow /\ command'.state = command.state
        /\ command'.attempt = command.attempt /\ command'.live = command.live
    BY <2>1 DEF CommandRow
  <2>3. BuildSettledOnce'
    BY <1>0, <1>4, <2>2 DEF BuildSettledOnce
  <2> QED BY <1>0, <1>1, <1>2, <1>3, <2>1, <2>2, <2>3, CommandMove
<1>8. CASE BuildLeaseLapses
  <2>1. /\ UNCHANGED <<stream, inbox, reading>> /\ command' = [command EXCEPT !.live = FALSE] /\ command.state = "running"
        /\ command.attempt < MaxBuildAttempts \/ builder[command.attempt].step = "idle"
    BY <1>8 DEF BuildLeaseLapses, inboxVars
  <2>2. /\ command' \in CommandRow /\ command'.state = command.state
        /\ command'.attempt = command.attempt
    BY <2>1 DEF CommandRow
  <2>3. command.attempt # MaxBuildAttempts
    BY <1>3, <2>1
  <2>4. BuildSettledOnce'
    BY <1>0, <1>4, <2>2 DEF BuildSettledOnce
  <2> QED BY <1>0, <1>1, <1>2, <1>3, <2>1, <2>2, <2>3, <2>4, CommandMove
<1> QED BY <1>5, <1>6, <1>7, <1>8, <1>9

\* What is recorded of a pipeline under its lease is what the executor has been left with.
LEMMA Recording ==
  ASSUME BuildInv, NEW n \in Attempts, RecordOutcome(n)
  PROVE  BuildInv'
<1> USE BuildTypes, BuildConsts, IdleIsBuilder
<1>0. /\ UNCHANGED <<stream, inbox, reading, passed, requests, executorVars>> /\ builder[n].step = "record"
      /\ builder' = [builder EXCEPT ![n] = IdleBuilder]
  BY DEF RecordOutcome, BuilderExits, inboxVars
<1>1. /\ builder' \in [Attempts -> BuilderState] /\ builder'[n] = IdleBuilder
      /\ \A m \in Attempts : m # n => builder'[m] = builder[m]
  BY <1>0
<1>2. /\ ~inbox => command.state = "none"
      /\ command.state \in {"none", "requested"} => command.attempt < MaxBuildAttempts
      /\ command.state \in {"running", "succeeded"} => command.attempt > 0
      /\ command.state = "running" /\ command.attempt = MaxBuildAttempts =>
           /\ command.live /\ ~builder[MaxBuildAttempts].lost
           /\ builder[MaxBuildAttempts].step # "idle"
      /\ \A m \in Attempts : m = command.attempt /\ command.state = "succeeded" =>
           Closed(m) /\ Nothing(m, "build") /\ builder[m].step = "idle"
  BY DEF BuildInv, CommandFits
<1>3. /\ Len(results) = (IF command.state \in TerminalBuild THEN 1 ELSE 0)
      /\ results \in Seq({"completed", "failed"}) /\ stream \in {"absent", "published"} /\ inbox \in BOOLEAN /\ reading \in Nat
  BY DEF BuildInv, BuildSettledOnce, BuildTypeOK
<1>4. CASE builder[n].lost \/ ~FenceRunning(n)
  <2>1. UNCHANGED <<command, results>>
    BY <1>4 DEF RecordOutcome
  <2>2. BuildSettledOnce'
    BY <1>3, <2>1 DEF BuildSettledOnce
  <2>3. command.state = "running" /\ command.attempt = MaxBuildAttempts => n # MaxBuildAttempts
    BY <1>2, <1>4 DEF FenceRunning
  <2> QED BY <1>0, <1>1, <1>2, <1>3, <2>1, <2>2, <2>3, CommandMove
<1>5. CASE ~builder[n].lost /\ FenceRunning(n)
  <2>1. command.state = "running" /\ command.attempt = n /\ Len(results) = 0 /\ n > 0 /\ inbox
    BY <1>2, <1>3, <1>5 DEF FenceRunning, TerminalBuild
  <2>2. PICK st \in {"succeeded", "failed", "cancelled", "requested"}, v \in BOOLEAN,
             e \in {"completed", "failed"} :
          /\ command' = [command EXCEPT !.state = st, !.live = FALSE, !.cleanup_verified = v]
          /\ results' = IF st = "requested" THEN results ELSE Append(results, e)
          /\ st = "succeeded" => builder[n].outcome = "succeeded"
          /\ st = "requested" => n < MaxBuildAttempts
    <3>1. CASE CompleteBuild(n)
      BY <3>1 DEF CompleteBuild, TerminalUpdate
    <3>2. CASE ScheduleRetry(n)
      <4>1. [command EXCEPT !.state = "requested", !.live = FALSE] =
              [command EXCEPT !.state = "requested", !.live = FALSE,
                              !.cleanup_verified = command.cleanup_verified]
            /\ command.cleanup_verified \in BOOLEAN
        BY DEF CommandRow
      <4> QED BY <3>2, <4>1 DEF ScheduleRetry
    <3>3. CASE FailBuild(n)
      <4> DEFINE o == builder[n].outcome
      <4>1. /\ command' = [command EXCEPT !.state = IF o = "cancelled" THEN "cancelled" ELSE "failed",
                                          !.live = FALSE, !.cleanup_verified = (o # "cleanup_failed")]
            /\ results' = Append(results, "failed")
        BY <3>3 DEF FailBuild, TerminalUpdate
      <4>2. (IF o = "cancelled" THEN "cancelled" ELSE "failed") \in {"failed", "cancelled"}
        OBVIOUS
      <4> HIDE DEF o
      <4> QED BY <4>1, <4>2
    <3> QED BY <1>5, <3>1, <3>2, <3>3 DEF RecordOutcome
  <2>3. /\ command' \in CommandRow /\ command'.state = st /\ command'.attempt = command.attempt
    BY <2>2 DEF CommandRow
  <2>4. results' \in Seq({"completed", "failed"}) /\ BuildSettledOnce'
    <3>1. CASE st = "requested"
      BY <1>3, <2>1, <2>2, <2>3, <3>1 DEF BuildSettledOnce, TerminalBuild
    <3>2. CASE st # "requested"
      <4>1. results' = Append(results, e)
        BY <2>2, <3>2
      <4>2. Append(results, e) \in Seq({"completed", "failed"}) /\ Len(Append(results, e)) = 1
        BY <1>3, <2>1, AppendFacts
      <4> QED BY <2>3, <3>2, <4>1, <4>2 DEF BuildSettledOnce, TerminalBuild
    <3> QED BY <3>1, <3>2
  <2>5. st = "succeeded" => Closed(n) /\ Nothing(n, "build")
    BY <1>0, <2>1, <2>2 DEF BuildInv, CommandFits, BuilderFits, Cleaned
  <2> QED BY <1>0, <1>1, <1>3, <2>1, <2>2, <2>3, <2>4, <2>5, CommandMove
<1> QED BY <1>4, <1>5

LEMMA ClaimingBuild ==
  ASSUME BuildInv, ClaimDue
  PROVE  BuildInv'
<1> USE BuildTypes, BuildConsts
<1> DEFINE n == command.attempt + 1
           b == [IdleBuilder EXCEPT !.step = "ensure", !.cancelled = command.cancel]
<1>0. /\ UNCHANGED <<stream, inbox, reading, results, passed, requests, fence, tasks, candidate, tag>>
      /\ command' = [command EXCEPT !.state = "running", !.attempt = n, !.live = TRUE]
      /\ builder' = [builder EXCEPT ![n] = b]
      /\ command.state = "requested" \/ (command.state = "running" /\ ~command.live)
  BY DEF ClaimDue, executorVars, inboxVars
<1>1. command.attempt < MaxBuildAttempts /\ inbox
  BY <1>0 DEF BuildInv, CommandFits
<1>2. n \in Attempts /\ n > 0 /\ n > command.attempt /\ n \in 0..MaxBuildAttempts
  BY <1>1
<1>3. /\ b \in BuilderState /\ b.step = "ensure" /\ b.outcome = "none" /\ ~b.lost
  BY DEF IdleBuilder, BuilderState, CommandRow, Stages
<1> HIDE DEF n, b
<1>4. command' \in CommandRow /\ command'.state = "running" /\ command'.attempt = n /\ command'.live
  BY <1>0, <1>2 DEF CommandRow
<1>5. /\ builder' \in [Attempts -> BuilderState] /\ builder'[n] = b
      /\ \A m \in Attempts : m # n => builder'[m] = builder[m]
  BY <1>0, <1>2, <1>3
<1>6. BuildTypeOK'
  BY <1>0, <1>4, <1>5 DEF BuildInv, BuildTypeOK, BuilderState, CommandRow
<1>7. BuildSettledOnce'
  BY <1>0, <1>4 DEF BuildInv, BuildSettledOnce, TerminalBuild
<1>8. \A m \in Attempts, s \in Stages : Nothing(m, s)' <=> Nothing(m, s)
  BY <1>0 DEF Nothing
<1>9. \A m \in Attempts : m > n => m > command.attempt
  BY <1>2 DEF n
<1>10. AskedOnce'
  <2>1. \A m \in Attempts, s \in Stages : Unsent(m, s)' => Unsent(m, s)
    BY <1>2, <1>4, <1>5, <1>9 DEF Unsent
  <2> QED BY <1>0, <1>8, <2>1 DEF BuildInv, AskedOnce
<1>11. FenceFits'
  <2>1. fence.generation <= n
    BY DEF BuildInv, FenceFits, n
  <2> QED BY <1>0, <1>4, <2>1 DEF BuildInv, FenceFits, TaskFits
<1>12. \A m \in Attempts : BuilderFits(m)'
  <2> TAKE m \in Attempts
  <2>1. BuilderFits(m) /\ "build" \in Stages
    BY DEF Stages
  <2>2. CASE m = n
    BY <1>3, <1>4, <1>5, <2>2 DEF BuilderFits, OutcomeFits
  <2>3. CASE m # n
    BY <1>4, <1>5, <1>8, <1>9, <2>1, <2>3 DEF BuilderFits
  <2> QED BY <2>2, <2>3
<1>13. CommandFits'
  <2>1. ~Built(b) /\ ~Cleaned(b)
    BY <1>3 DEF Built, Cleaned
  <2>2. \A m \in Attempts : m = command'.attempt => ~Built(builder'[m]) /\ ~Cleaned(builder'[m])
    BY <1>4, <1>5, <2>1
  <2> QED BY <1>0, <1>1, <1>2, <1>3, <1>4, <1>5, <2>2 DEF CommandFits, Built, Cleaned
<1> QED BY <1>6, <1>7, <1>10, <1>11, <1>12, <1>13 DEF BuildInv

\* A task that no deadline has cut off is the request that the fence is at.
LEMMA TaskKnown ==
  ASSUME BuildInv, NEW t \in tasks
  PROVE  /\ t \in TaskState /\ t.attempt \in Attempts /\ t.stage \in Stages /\ TaskFits(t)
         /\ \A u \in tasks : u.attempt = t.attempt /\ u.stage = t.stage => u = t
         /\ t.phase # "orphan" => \A u \in tasks : u # t => u.phase = "orphan"
<1>1. t \in TaskState /\ TaskFits(t)
  BY BuildTypes DEF BuildInv, FenceFits
<1>2. \A u \in tasks : u.attempt = t.attempt /\ u.stage = t.stage => u = t
  BY DEF BuildInv, AskedOnce
<1>3. ASSUME t.phase # "orphan", NEW u \in tasks, u # t
      PROVE  u.phase = "orphan"
  <2>1. TaskFits(u)
    BY DEF BuildInv, FenceFits
  <2> QED BY <1>1, <1>2, <1>3, <2>1 DEF TaskFits
<1> QED BY <1>1, <1>2, <1>3 DEF TaskState

\* The executor is done with a request: what it answers is kept and sent.
LEMMA Completed ==
  ASSUME BuildInv, NEW t \in tasks, t.phase # "orphan", NEW answer \in {"ok", "unavailable", "rejected"},
         Complete(t, answer), UNCHANGED <<commandVars, passed, requests>>,
         candidate' \in {"none", "built", "cleaned"}, tag' \in 0..MaxBuildAttempts,
         t.stage # "cleanup" => UNCHANGED tag,
         t.stage # "cleanup" => candidate' \in {candidate, "built"},
         t.stage = "build" /\ answer = "ok" => candidate' = "built",
         t.stage = "cleanup" /\ answer = "ok" /\ candidate = "built" => candidate' = "cleaned" /\ tag' = 0
  PROVE  BuildInv'
<1> USE BuildTypes, BuildConsts
<1> DEFINE k == t.attempt
           b == builder[k]
           a == After(b, answer)
<1>1. /\ t \in TaskState /\ k \in Attempts /\ t.stage \in Stages
      /\ t.stage = "build" <=> t.phase # "running"
      /\ k = fence.generation /\ t.stage = fence.stage /\ ~fence.answered /\ passed < k
      /\ \A u \in tasks : u.attempt = t.attempt /\ u.stage = t.stage => u = t
      /\ \A u \in tasks : u # t => u.phase = "orphan"
  BY TaskKnown DEF TaskFits
<1>2. /\ tasks' = tasks \ {t} /\ fence' = [fence EXCEPT !.answered = TRUE]
      /\ builder' = Answered(t, answer)
      /\ UNCHANGED <<stream, inbox, reading, command, results, passed, requests>>
  BY <1>1 DEF Complete, commandVars, inboxVars
<1>3. /\ fence' \in FenceRow /\ fence'.generation = k /\ fence'.answered
      /\ fence'.stage = fence.stage /\ fence'.tombstone = fence.tombstone
  BY <1>1, <1>2 DEF FenceRow
<1>4. /\ b \in BuilderState /\ OutcomeFits(b)
  BY <1>1
<1>5. /\ ~(b.sent /\ b.step = t.stage) => builder' = builder
      /\ b.sent /\ b.step = t.stage => builder' = [builder EXCEPT ![k] = a]
  BY <1>2 DEF Answered
<1>6. b.step = t.stage =>
        /\ a \in BuilderState /\ OutcomeFits(a)
        /\ a.step # "idle" /\ a.lost = b.lost
        /\ \A s \in Stages : Ahead(a, s) => Ahead(b, s)
        /\ a.step = "publish" => b.step = "build" /\ answer = "ok"
        /\ Built(a) /\ ~Built(b) => b.step = "build" /\ answer = "ok" /\ a.step = "publish"
        /\ Cleaned(a) => b.step = "cleanup" /\ Built(b) /\ answer = "ok"
        /\ a.outcome = "succeeded" => answer = "ok" /\ (b.step = "publish" \/ b.outcome = "succeeded")
        /\ Built(a) => a.step # b.step
  <2>1. answer \in {"ok"} \cup Failures
    BY DEF Failures
  <2> HIDE DEF b
  <2> QED BY <1>1, <1>4, <2>1, AfterFacts
<1> HIDE DEF a
<1>7. /\ builder' \in [Attempts -> BuilderState]
      /\ \A m \in Attempts : m # k => builder'[m] = builder[m]
      /\ builder'[k] = b \/ (b.sent /\ b.step = t.stage /\ builder'[k] = a)
      /\ b.sent /\ b.step = t.stage => builder'[k] = a
  BY <1>1, <1>5, <1>6
<1>8. k <= command.attempt
  BY <1>1 DEF BuildInv, FenceFits
<1>9. BuildTypeOK'
  <2>1. tasks' \subseteq TaskState
    BY <1>2
  <2> QED BY <1>2, <1>3, <1>7, <2>1 DEF BuildInv, BuildTypeOK, BuilderState, FenceRow, TaskState
<1>10. BuildSettledOnce'
  BY <1>2 DEF BuildInv, BuildSettledOnce
<1>11. \A m \in Attempts, s \in Stages : Nothing(m, s) => Nothing(m, s)'
  BY <1>2 DEF Nothing
<1>12. AskedOnce'
  <2>1. \A m \in Attempts, s \in Stages : Unsent(m, s)' => Unsent(m, s)
    BY <1>1, <1>2, <1>6, <1>7 DEF Unsent
  <2>2. \A m \in Attempts, s \in Stages : Unsent(m, s)' => Nothing(m, s)'
    BY <1>11, <2>1 DEF BuildInv, AskedOnce
  <2> QED BY <1>2, <2>2 DEF BuildInv, AskedOnce
<1>13. FenceFits'
  <2>1. \A u \in tasks' : TaskFits(u)'
    <3> TAKE u \in tasks'
    <3>1. u \in tasks /\ u.phase = "orphan"
      BY <1>1, <1>2
    <3>2. TaskFits(u)
      BY <3>1 DEF BuildInv, FenceFits
    <3> QED BY <3>1, <3>2 DEF TaskFits
  <2> QED BY <1>1, <1>2, <1>3, <2>1 DEF BuildInv, FenceFits
<1>14. ASSUME NEW m \in Attempts
       PROVE  BuilderFits(m)'
  <2>1. BuilderFits(m) /\ "build" \in Stages
    BY DEF Stages
  <2>2. CASE builder'[m] = builder[m]
    BY <1>2, <1>11, <2>1, <2>2 DEF BuilderFits
  <2>3. CASE m = k /\ b.sent /\ b.step = t.stage /\ builder'[k] = a
    <3>1. a.step = "publish" \/ a.outcome = "succeeded" => Nothing(m, "build")'
      <4>1. CASE b.step = "build"
        <5>1. \A u \in tasks' : ~(u.attempt = k /\ u.stage = "build")
          BY <1>1, <1>2, <2>3, <4>1
        <5>2. [attempt |-> k, stage |-> "build"] \notin requests
          <6>1. \A r \in requests : ~(r.attempt = k /\ r.stage = "build")
            BY <2>3, <4>1 DEF BuildInv, AskedOnce
          <6> QED BY <6>1
        <5> QED BY <1>2, <2>3, <5>1, <5>2 DEF Nothing
      <4>2. CASE b.step # "build"
        BY <1>6, <1>11, <2>1, <2>3, <4>2 DEF BuilderFits
      <4> QED BY <4>1, <4>2
    <3>2. ~(m > command'.attempt)
      BY <1>2, <1>8, <2>3
    <3> QED BY <1>6, <2>3, <3>1, <3>2 DEF BuilderFits
  <2> QED BY <1>7, <2>2, <2>3
<1>15. ASSUME NEW n \in Attempts, n = command.attempt
       PROVE  /\ Built(builder'[n]) => fence'.generation = n /\ candidate' = "built"
              /\ Cleaned(builder'[n]) => Closed(n)'
              /\ command.state # "succeeded"
  <2>1. /\ Built(builder[n]) => fence.generation = n /\ candidate = "built"
        /\ Cleaned(builder[n]) => Closed(n)
        /\ command.state = "succeeded" => Closed(n)
    BY <1>15 DEF BuildInv, CommandFits
  <2>2. ~Closed(n)
    BY <1>1 DEF Closed
  <2>3. CASE builder'[n] = builder[n]
    <3>1. ASSUME Built(builder[n]), t.stage = "cleanup"
          PROVE  FALSE
      <4>1. n = k /\ builder[n] = b
        BY <1>1, <2>1, <3>1
      <4>2. ~(b.sent /\ b.step = "cleanup")
        BY <1>6, <1>7, <2>3, <3>1, <4>1
      <4>3. Ahead(b, "cleanup")
        BY <3>1, <4>1, <4>2, StageRanks DEF Built, Ahead, Stages
      <4>4. Nothing(n, "cleanup")
        BY <4>1, <4>3 DEF BuildInv, AskedOnce, Unsent, Stages
      <4> QED BY <3>1, <4>1, <4>4 DEF Nothing
    <3>2. Built(builder[n]) => candidate' = "built"
      BY <2>1, <3>1
    <3> QED BY <1>1, <1>3, <2>1, <2>2, <2>3, <3>2
  <2>4. CASE n = k /\ b.sent /\ b.step = t.stage /\ builder'[k] = a
    <3>1. Built(a) => candidate' = "built"
      <4>1. CASE Built(b) /\ Built(a)
        <5>1. t.stage # "cleanup"
          BY <1>6, <2>4, <4>1 DEF Built
        <5> QED BY <2>1, <2>4, <4>1, <5>1
      <4>2. CASE ~Built(b)
        BY <1>6, <2>4, <4>2
      <4> QED BY <4>1, <4>2
    <3>2. Cleaned(a) => Closed(n)'
      <4> SUFFICES ASSUME Cleaned(a) PROVE Closed(n)'
        OBVIOUS
      <4>1. t.stage = "cleanup" /\ Built(b) /\ answer = "ok"
        BY <1>6, <2>4
      <4>2. candidate' = "cleaned" /\ tag' = 0
        BY <2>1, <2>4, <4>1
      <4>3. fence.tombstone
        BY <1>1, <4>1 DEF BuildInv, FenceFits
      <4> QED BY <1>3, <2>4, <4>2, <4>3 DEF Closed
    <3> QED BY <1>3, <2>1, <2>2, <2>4, <3>1, <3>2
  <2> QED BY <1>7, <2>3, <2>4
<1>16. CommandFits'
  <2>1. command.state = "running" /\ command.attempt = MaxBuildAttempts =>
          ~builder'[MaxBuildAttempts].lost /\ builder'[MaxBuildAttempts].step # "idle"
    <3>1. command.state = "running" /\ command.attempt = MaxBuildAttempts =>
            ~builder[MaxBuildAttempts].lost /\ builder[MaxBuildAttempts].step # "idle"
      BY DEF BuildInv, CommandFits
    <3> QED BY <1>6, <1>7, <3>1
  <2> QED BY <1>2, <1>15, <2>1 DEF BuildInv, CommandFits, Built, Cleaned
<1> QED BY <1>9, <1>10, <1>12, <1>13, <1>14, <1>16 DEF BuildInv

\* Tasks change their phase or are dropped, requests are dropped, and time passes.
LEMMA TasksMove ==
  ASSUME BuildInv, tasks' \subseteq TaskState, requests' \subseteq requests,
         UNCHANGED <<commandVars, builder, fence, candidate>>,
         passed' \in 0..MaxBuildAttempts, tag' \in 0..MaxBuildAttempts,
         \A u \in tasks' : \E v \in tasks : u.attempt = v.attempt /\ u.stage = v.stage,
         \A u, w \in tasks' : u.attempt = w.attempt /\ u.stage = w.stage => u = w,
         \A u \in tasks' : /\ u.stage = "build" <=> u.phase # "running"
                           /\ u.phase # "orphan" =>
                                /\ u.attempt = fence.generation /\ u.stage = fence.stage
                                /\ ~fence.answered /\ passed' < u.attempt,
         tag' = tag \/ \E t \in tasks : t.stage = "build" /\ tag' = t.attempt
  PROVE  BuildInv'
<1> USE BuildTypes, BuildConsts
<1>0. UNCHANGED <<stream, inbox, reading, command, results, builder, fence, candidate>>
  BY DEF commandVars, inboxVars
<1>1. BuildTypeOK'
  BY <1>0 DEF BuildInv, BuildTypeOK, TaskState
<1>2. BuildSettledOnce'
  BY <1>0 DEF BuildInv, BuildSettledOnce
<1>3. \A m \in Attempts, s \in Stages : Nothing(m, s) => Nothing(m, s)'
  BY NothingStays
<1>4. AskedOnce'
  <2>1. \A m \in Attempts, s \in Stages : Unsent(m, s)' => Unsent(m, s)
    BY <1>0 DEF Unsent
  <2>2. \A m \in Attempts, s \in Stages : Unsent(m, s)' => Nothing(m, s)'
    BY <1>3, <2>1 DEF BuildInv, AskedOnce
  <2>3. \A r \in requests', u \in tasks' : ~(r.attempt = u.attempt /\ r.stage = u.stage)
    BY DEF BuildInv, AskedOnce
  <2> QED BY <2>2, <2>3 DEF AskedOnce
<1>5. FenceFits'
  BY <1>0 DEF BuildInv, FenceFits, TaskFits
<1>6. \A m \in Attempts : BuilderFits(m)'
  <2> TAKE m \in Attempts
  <2>1. BuilderFits(m) /\ "build" \in Stages
    BY DEF Stages
  <2> QED BY <1>0, <1>3, <2>1 DEF BuilderFits
<1>7. CommandFits'
  <2>1. "build" \in Stages
    BY DEF Stages
  <2>2. \A m \in Attempts : Closed(m) /\ Nothing(m, "build") => Closed(m)'
    BY <1>0 DEF Closed, Nothing
  <2>3. \A m \in Attempts : Cleaned(builder[m]) => Nothing(m, "build")
    BY DEF Cleaned, BuilderFits
  <2>4. \A m \in Attempts : m = command.attempt =>
           /\ Built(builder'[m]) => fence'.generation = m /\ candidate' = "built"
           /\ Cleaned(builder'[m]) => Closed(m)'
           /\ command'.state = "succeeded" =>
                Closed(m)' /\ Nothing(m, "build")' /\ builder'[m].step = "idle"
    BY <1>0, <1>3, <2>1, <2>2, <2>3 DEF BuildInv, CommandFits
  <2> QED BY <1>0, <2>4 DEF BuildInv, CommandFits, Built, Cleaned
<1> QED BY <1>1, <1>2, <1>4, <1>5, <1>6, <1>7 DEF BuildInv

LEMMA Relabelled ==
  ASSUME NEW t \in TaskState, NEW ph \in {"running", "solving", "pushed", "orphan"}
  PROVE  LET u == [t EXCEPT !.phase = ph]
         IN  u \in TaskState /\ u.attempt = t.attempt /\ u.stage = t.stage /\ u.phase = ph
BY DEF TaskState

LEMMA Solving ==
  ASSUME BuildInv, NEW t \in tasks, SolvePushes(t)
  PROVE  BuildInv'
<1> USE BuildTypes, BuildConsts
<1> DEFINE u == [t EXCEPT !.phase = "pushed"]
<1>1. /\ t \in TaskState /\ t.attempt \in Attempts /\ TaskFits(t)
      /\ \A v \in tasks : v.attempt = t.attempt /\ v.stage = t.stage => v = t
  BY TaskKnown
<1>2. u \in TaskState /\ u.attempt = t.attempt /\ u.stage = t.stage /\ u.phase = "pushed"
  BY <1>1, Relabelled
<1> HIDE DEF u
<1>3. /\ t.phase \in {"solving", "orphan"} /\ tag' = t.attempt
      /\ tasks' = (tasks \ {t}) \cup (IF t.phase = "solving" THEN {u} ELSE {})
      /\ UNCHANGED <<commandVars, builder, passed, requests, fence, candidate>>
  BY DEF SolvePushes, u
<1>4. \A v \in tasks' : (v \in tasks /\ v # t) \/ (v = u /\ t.phase = "solving")
  BY <1>3
<1>5. t.stage = "build" /\ tag' \in 0..MaxBuildAttempts /\ passed' \in 0..MaxBuildAttempts
  BY <1>1, <1>3 DEF TaskFits, BuildInv, BuildTypeOK
<1>6. tasks' \subseteq TaskState
  BY <1>2, <1>4
<1>7. \A v \in tasks' : \E w \in tasks : v.attempt = w.attempt /\ v.stage = w.stage
  BY <1>2, <1>4
<1>8. \A v, w \in tasks' : v.attempt = w.attempt /\ v.stage = w.stage => v = w
  <2>1. \A v, w \in tasks : v.attempt = w.attempt /\ v.stage = w.stage => v = w
    BY DEF BuildInv, AskedOnce
  <2> QED BY <1>1, <1>2, <1>4, <2>1
<1>9. \A v \in tasks' : /\ v.stage = "build" <=> v.phase # "running"
                        /\ v.phase # "orphan" =>
                             /\ v.attempt = fence.generation /\ v.stage = fence.stage
                             /\ ~fence.answered /\ passed' < v.attempt
  <2> TAKE v \in tasks'
  <2>1. CASE v \in tasks
    BY <1>3, <2>1 DEF BuildInv, FenceFits, TaskFits
  <2>2. CASE v = u /\ t.phase = "solving"
    BY <1>1, <1>2, <1>3, <2>2 DEF TaskFits
  <2> QED BY <1>4, <2>1, <2>2
<1> QED BY <1>3, <1>5, <1>6, <1>7, <1>8, <1>9, TasksMove

LEMMA PassingDeadline ==
  ASSUME BuildInv, DeadlinePasses
  PROVE  BuildInv'
<1> USE BuildTypes, BuildConsts
<1> DEFINE late == {t \in tasks : t.attempt = passed + 1}
           solved == {l \in late : l.phase = "solving"}
           orphans == {[t EXCEPT !.phase = "orphan"] : t \in solved}
<1>1. /\ passed < command.attempt /\ passed' = passed + 1 /\ tasks' = (tasks \ late) \cup orphans
      /\ requests' \subseteq requests /\ UNCHANGED <<commandVars, builder, fence, candidate, tag>>
  BY DEF DeadlinePasses
<1>2. \A u \in orphans : \E t \in solved :
        u \in TaskState /\ u.attempt = t.attempt /\ u.stage = t.stage /\ u.phase = "orphan"
        /\ u = [t EXCEPT !.phase = "orphan"]
  <2> TAKE u \in orphans
  <2>1. PICK t \in solved : u = [t EXCEPT !.phase = "orphan"]
    OBVIOUS
  <2>2. t \in TaskState
    OBVIOUS
  <2> QED BY <2>1, <2>2, Relabelled
<1>3. \A t \in solved : t \in tasks /\ t.attempt = passed + 1 /\ t.stage = "build"
  <2> TAKE t \in solved
  <2> QED BY TaskKnown DEF TaskFits
<1> HIDE DEF solved, orphans
<1>4. passed' \in 0..MaxBuildAttempts /\ tag' \in 0..MaxBuildAttempts
  BY <1>1 DEF BuildInv, BuildTypeOK
<1>5. tasks' \subseteq TaskState /\ \A u \in tasks' : (u \in tasks /\ u \notin late) \/ u \in orphans
  BY <1>1, <1>2
<1>6. \A u \in tasks' : \E v \in tasks : u.attempt = v.attempt /\ u.stage = v.stage
  BY <1>2, <1>3, <1>5
<1>7. \A u, w \in tasks' : u.attempt = w.attempt /\ u.stage = w.stage => u = w
  <2> SUFFICES ASSUME NEW u \in tasks', NEW w \in tasks', u.attempt = w.attempt, u.stage = w.stage
               PROVE  u = w
    OBVIOUS
  <2>0. \A v, x \in tasks : v.attempt = x.attempt /\ v.stage = x.stage => v = x
    BY DEF BuildInv, AskedOnce
  <2>1. \A v \in orphans : v.attempt = passed + 1
    BY <1>2, <1>3
  <2>2. CASE u \in orphans /\ w \in orphans
    <3>1. PICK x \in solved : u.attempt = x.attempt /\ u.stage = x.stage /\ u = [x EXCEPT !.phase = "orphan"]
      BY <1>2, <2>2
    <3>2. PICK y \in solved : w.attempt = y.attempt /\ w.stage = y.stage /\ w = [y EXCEPT !.phase = "orphan"]
      BY <1>2, <2>2
    <3>3. x = y
      BY <1>3, <2>0, <3>1, <3>2
    <3> QED BY <3>1, <3>2, <3>3
  <2>3. CASE u \in tasks /\ u \notin late /\ w \in tasks /\ w \notin late
    BY <2>0, <2>3
  <2>4. CASE u \in tasks /\ u \notin late /\ w \in orphans
    BY <2>1, <2>4
  <2>5. CASE u \in orphans /\ w \in tasks /\ w \notin late
    BY <2>1, <2>5
  <2> QED BY <1>5, <2>2, <2>3, <2>4, <2>5
<1>8. \A u \in tasks' : /\ u.stage = "build" <=> u.phase # "running"
                        /\ u.phase # "orphan" =>
                             /\ u.attempt = fence.generation /\ u.stage = fence.stage
                             /\ ~fence.answered /\ passed' < u.attempt
  <2> TAKE u \in tasks'
  <2>1. CASE u \in orphans
    BY <1>2, <1>3, <2>1
  <2>2. CASE u \in tasks /\ u \notin late
    <3>1. TaskFits(u) /\ u.attempt \in Nat /\ u.attempt # passed + 1
      BY <2>2, TaskKnown
    <3> QED BY <1>1, <3>1 DEF TaskFits
  <2> QED BY <1>5, <2>1, <2>2
<1> QED BY <1>1, <1>4, <1>5, <1>6, <1>7, <1>8, TasksMove

LEMMA ExecutorStopping ==
  ASSUME BuildInv, ExecutorStops
  PROVE  BuildInv'
<1>1. /\ tasks' = {} /\ requests' = requests /\ passed' = passed /\ tag' = tag
      /\ UNCHANGED <<commandVars, builder, fence, candidate>>
  BY DEF ExecutorStops
<1>2. passed' \in 0..MaxBuildAttempts /\ tag' \in 0..MaxBuildAttempts
  BY <1>1 DEF BuildInv, BuildTypeOK
<1> QED BY <1>1, <1>2, TasksMove

LEMMA Admitting ==
  ASSUME BuildInv, NEW r \in requests, Admit(r)
  PROVE  BuildInv'
<1> USE BuildTypes, BuildConsts
<1> DEFINE k  == r.attempt
           ph == IF r.stage = "build" THEN "solving" ELSE "running"
           t  == [attempt |-> r.attempt, stage |-> r.stage, phase |-> ph]
           f  == [generation |-> r.attempt, stage |-> r.stage,
                  tombstone |-> r.stage = "cleanup", answered |-> FALSE]
<1>1. /\ r \in [attempt : Attempts, stage : Stages] /\ k \in Attempts /\ r.stage \in Stages
      /\ r = [attempt |-> k, stage |-> r.stage]
  OBVIOUS
<1>2. requests' = requests \ {r} /\ UNCHANGED <<commandVars, passed, candidate, tag>>
  BY DEF Admit
<1>3. k <= command.attempt
  <2>1. ~Unsent(k, r.stage)
    BY <1>1 DEF BuildInv, AskedOnce, Nothing
  <2> QED BY <1>1, <2>1 DEF Unsent
<1>4. CASE Refusal(r) # "none"
  <2>1. /\ builder' = Answered(r, Refusal(r)) /\ UNCHANGED executorVars
        /\ Refusal(r) \in Failures
    BY <1>2, <1>4 DEF Admit, executorVars, Refusal, Failures
  <2>2. CASE builder[k].sent /\ builder[k].step = r.stage
    <3>1. builder' = [builder EXCEPT ![k] = After(builder[k], Refusal(r))]
      BY <2>1, <2>2 DEF Answered
    <3>2. UNCHANGED <<commandVars, passed, executorVars>> /\ requests' \subseteq requests
          /\ builder[k].step \in Stages
      BY <1>1, <1>2, <2>1, <2>2
    <3> QED BY <1>1, <2>1, <3>1, <3>2, StageFails
  <2>3. CASE ~(builder[k].sent /\ builder[k].step = r.stage)
    <3>1. UNCHANGED <<builder, fence, tasks, tag, candidate>> /\ passed' = passed /\ UNCHANGED commandVars
      BY <1>2, <2>1, <2>3 DEF Answered, executorVars
    <3>2. passed' \in 0..MaxBuildAttempts /\ tag' \in 0..MaxBuildAttempts
      BY <3>1 DEF BuildInv, BuildTypeOK
    <3>3. /\ \A u \in tasks : TaskFits(u)
          /\ \A u, w \in tasks : u.attempt = w.attempt /\ u.stage = w.stage => u = w
      BY DEF BuildInv, FenceFits, AskedOnce
    <3> QED BY <1>2, <3>1, <3>2, <3>3, TasksMove DEF TaskFits
  <2> QED BY <2>2, <2>3
<1>5. CASE Refusal(r) = "none"
  <2>1. /\ fence' = f /\ tasks' = tasks \cup {t}
        /\ UNCHANGED <<stream, inbox, reading, command, results, builder, passed, candidate, tag>>
    BY <1>2, <1>5 DEF Admit, commandVars, inboxVars
  <2>2. /\ passed < k /\ fence.generation <= k
        /\ fence.answered \/ passed >= fence.generation
        /\ k = fence.generation => ~fence.tombstone
    BY <1>1, <1>5 DEF Refusal
  <2>3. /\ f \in FenceRow /\ f.generation = k /\ f.stage = r.stage
        /\ f.tombstone <=> r.stage = "cleanup"
        /\ ~f.answered
    <3> DEFINE c == r.stage = "cleanup"
    <3>1. c \in BOOLEAN /\ (c <=> r.stage = "cleanup")
      OBVIOUS
    <3>2. f = [generation |-> k, stage |-> r.stage, tombstone |-> c, answered |-> FALSE]
      OBVIOUS
    <3>3. k \in 0..MaxBuildAttempts /\ r.stage \in Stages
      BY <1>1
    <3> HIDE DEF c, f, k
    <3>4. f \in FenceRow
      BY <3>1, <3>2, <3>3 DEF FenceRow
    <3>5. f.generation = k /\ f.stage = r.stage /\ f.tombstone = c /\ f.answered = FALSE
      BY <3>2
    <3> QED BY <3>1, <3>4, <3>5
  <2>4. /\ t \in TaskState /\ t.attempt = k /\ t.stage = r.stage /\ t.phase # "orphan"
        /\ t.stage = "build" <=> t.phase # "running"
    BY <1>1 DEF TaskState
  <2> HIDE DEF f, t
  <2>5. \A u \in tasks : u.phase = "orphan" /\ TaskFits(u)
    <3> TAKE u \in tasks
    <3>1. TaskFits(u) /\ u.attempt \in Nat
      BY TaskKnown
    <3> QED BY <2>2, <3>1 DEF TaskFits
  <2>6. BuildTypeOK'
    BY <1>2, <2>1, <2>3, <2>4 DEF BuildInv, BuildTypeOK, FenceRow, TaskState
  <2>7. BuildSettledOnce'
    BY <2>1 DEF BuildInv, BuildSettledOnce
  <2>8. \A m \in Attempts, s \in Stages : Nothing(m, s) => Nothing(m, s)'
    <3> SUFFICES ASSUME NEW m \in Attempts, NEW s \in Stages, Nothing(m, s)
                 PROVE  Nothing(m, s)'
      OBVIOUS
    <3>1. ~(k = m /\ r.stage = s)
      BY <1>1 DEF Nothing
    <3> QED BY <1>2, <2>1, <2>4, <3>1 DEF Nothing
  <2>9. AskedOnce'
    <3>1. \A m \in Attempts, s \in Stages : Unsent(m, s)' => Nothing(m, s)'
      BY <2>1, <2>8 DEF BuildInv, AskedOnce, Unsent
    <3>2. \A u \in tasks : ~(k = u.attempt /\ r.stage = u.stage)
      BY DEF BuildInv, AskedOnce
    <3>3. \A u, w \in tasks' : u.attempt = w.attempt /\ u.stage = w.stage => u = w
      BY <2>1, <2>4, <3>2 DEF BuildInv, AskedOnce
    <3>4. \A q \in requests' : ~(q.attempt = k /\ q.stage = r.stage)
      <4> TAKE q \in requests'
      <4>1. q \in [attempt : Attempts, stage : Stages] /\ q # r
        BY <1>2
      <4> QED BY <1>1, <4>1
    <3>5. \A q \in requests', u \in tasks' : ~(q.attempt = u.attempt /\ q.stage = u.stage)
      BY <1>2, <2>1, <2>4, <3>4 DEF BuildInv, AskedOnce
    <3> QED BY <3>1, <3>3, <3>5 DEF AskedOnce
  <2>10. FenceFits'
    <3>1. \A u \in tasks' : TaskFits(u)'
      BY <2>1, <2>2, <2>3, <2>4, <2>5 DEF TaskFits
    <3> QED BY <1>3, <2>1, <2>3, <3>1 DEF FenceFits
  <2>11. \A m \in Attempts : BuilderFits(m)'
    <3> TAKE m \in Attempts
    <3>1. BuilderFits(m) /\ "build" \in Stages
      BY DEF Stages
    <3> QED BY <2>1, <2>8, <3>1 DEF BuilderFits
  <2>12. ASSUME NEW n \in Attempts, n = command.attempt
         PROVE  /\ Built(builder[n]) => k = n /\ candidate = "built"
                /\ ~Closed(n)
    <3>1. fence.generation = n => k = n
      BY <1>1, <1>3, <2>2, <2>12
    <3> QED BY <2>2, <2>12, <3>1 DEF BuildInv, CommandFits, Closed
  <2>13. CommandFits'
    <3>1. \A n \in Attempts : n = command.attempt =>
            ~Cleaned(builder[n]) /\ command.state # "succeeded"
      BY <2>12 DEF BuildInv, CommandFits
    <3> QED BY <2>1, <2>3, <2>12, <3>1 DEF BuildInv, CommandFits, Built, Cleaned
  <2> QED BY <2>6, <2>7, <2>9, <2>10, <2>11, <2>13 DEF BuildInv
<1> QED BY <1>4, <1>5

LEMMA Executing ==
  ASSUME BuildInv, ExecutorStep
  PROVE  BuildInv'
<1> USE BuildTypes, BuildConsts
<1>0. candidate \in {"none", "built", "cleaned"} /\ tag \in 0..MaxBuildAttempts
  BY DEF BuildInv, BuildTypeOK
<1>1. CASE \E r \in requests : Admit(r)
  BY <1>1, Admitting
<1>2. ASSUME NEW t \in tasks, SolvePushes(t)
      PROVE  BuildInv'
  BY <1>2, Solving
<1>3. ASSUME NEW t \in tasks, NEW a \in {"ok", "unavailable", "rejected"},
             EnsurePrivateProject(t, a) \/ Publish(t, a)
      PROVE  BuildInv'
  <2>1. /\ Complete(t, a) /\ UNCHANGED <<commandVars, passed, requests>> /\ UNCHANGED <<candidate, tag>>
        /\ t.stage \in {"ensure", "publish"}
    BY <1>3 DEF EnsurePrivateProject, Publish
  <2>2. t.phase # "orphan"
    BY <2>1, TaskKnown DEF TaskFits
  <2> QED BY <1>0, <1>3, <2>1, <2>2, Completed
<1>4. ASSUME NEW t \in tasks, NEW a \in {"unavailable", "rejected"},
             BuildFails(t, a) \/ BuiltCandidateLost(t, a)
      PROVE  BuildInv'
  <2>1. /\ Complete(t, a) /\ UNCHANGED <<commandVars, passed, requests>> /\ UNCHANGED <<candidate, tag>>
        /\ t.phase \in {"solving", "pushed"} /\ a \in {"ok", "unavailable", "rejected"} /\ a # "ok"
    BY <1>4 DEF BuildFails, BuiltCandidateLost
  <2>2. t.phase # "orphan" /\ t.stage = "build"
    BY <2>1, TaskKnown DEF TaskFits
  <2> QED BY <1>0, <2>1, <2>2, Completed
<1>5. ASSUME NEW t \in tasks, PersistBuiltCandidate(t)
      PROVE  BuildInv'
  <2>1. /\ Complete(t, "ok") /\ UNCHANGED <<commandVars, passed, requests>> /\ UNCHANGED tag
        /\ t.phase = "pushed" /\ candidate' = "built"
    BY <1>5 DEF PersistBuiltCandidate
  <2>2. t.phase # "orphan" /\ t.stage = "build"
    BY <2>1, TaskKnown DEF TaskFits
  <2> QED BY <1>0, <2>1, <2>2, Completed
<1>6. ASSUME NEW t \in tasks, CleanupCandidate(t)
      PROVE  BuildInv'
  <2>1. /\ Complete(t, "ok") /\ UNCHANGED <<commandVars, passed, requests>> /\ t.stage = "cleanup"
        /\ candidate' = IF candidate = "built" THEN "cleaned" ELSE candidate
        /\ tag' = IF candidate = "built" THEN 0 ELSE tag
    BY <1>6 DEF CleanupCandidate
  <2>2. t.phase # "orphan"
    BY <2>1, TaskKnown DEF TaskFits
  <2>3. candidate' \in {"none", "built", "cleaned"} /\ tag' \in 0..MaxBuildAttempts
    BY <1>0, <2>1
  <2> QED BY <2>1, <2>2, <2>3, Completed
<1>7. ASSUME NEW t \in tasks, CleanupFails(t)
      PROVE  BuildInv'
  <2>1. /\ Complete(t, "unavailable") /\ UNCHANGED <<commandVars, passed, requests>>
        /\ t.stage = "cleanup" /\ UNCHANGED candidate /\ tag' \in {tag, 0}
    BY <1>7 DEF CleanupFails
  <2>2. t.phase # "orphan"
    BY <2>1, TaskKnown DEF TaskFits
  <2>3. tag' \in 0..MaxBuildAttempts /\ "unavailable" # "ok"
    BY <1>0, <2>1
  <2> QED BY <1>0, <2>1, <2>2, <2>3, Completed
<1> QED BY <1>1, <1>2, <1>3, <1>4, <1>5, <1>6, <1>7 DEF ExecutorStep

LEMMA BuildInitial == Init => BuildInv
<1> SUFFICES ASSUME Init PROVE BuildInv
  OBVIOUS
<1> USE BuildConsts, IdleIsBuilder DEF Init, BuildInit
<1>1. BuildTypeOK
  <2>1. builder \in [Attempts -> BuilderState] /\ results \in Seq({"completed", "failed"})
    OBVIOUS
  <2>2. command \in CommandRow /\ fence \in FenceRow
    BY DEF CommandRow, FenceRow
  <2> QED BY <2>1, <2>2 DEF BuildTypeOK, BuilderState, CommandRow, FenceRow
<1>2. BuildSettledOnce
  BY DEF BuildSettledOnce, TerminalBuild
<1>3. AskedOnce
  BY DEF AskedOnce, Nothing
<1>4. FenceFits
  BY DEF FenceFits
<1>5. \A n \in Attempts : BuilderFits(n)
  BY DEF BuilderFits, Built
<1>6. CommandFits
  BY DEF CommandFits
<1> QED BY <1>1, <1>2, <1>3, <1>4, <1>5, <1>6 DEF BuildInv

LEMMA BuildStays == ASSUME BuildInv, UNCHANGED buildVars PROVE BuildInv'
<1>1. /\ tasks' = tasks /\ requests' = requests /\ passed' = passed /\ tag' = tag
      /\ UNCHANGED <<commandVars, builder, fence, candidate>>
  BY DEF buildVars, commandVars, inboxVars
<1>2. passed' \in 0..MaxBuildAttempts /\ tag' \in 0..MaxBuildAttempts /\ tasks' \subseteq TaskState
  BY <1>1, BuildTypes DEF BuildInv, BuildTypeOK
<1>3. /\ \A u \in tasks : TaskFits(u)
      /\ \A u, w \in tasks : u.attempt = w.attempt /\ u.stage = w.stage => u = w
  BY DEF BuildInv, FenceFits, AskedOnce
<1> QED BY <1>1, <1>2, <1>3, TasksMove DEF TaskFits

LEMMA BuildNext == BuildInv /\ [Next]_vars => BuildInv'
<1> SUFFICES ASSUME BuildInv, [Next]_vars PROVE BuildInv'
  OBVIOUS
<1>1. CASE BuildStep
  <2>1. CASE \/ BuildRequested \/ FindNoDuplicate \/ AcceptCommand \/ AcceptFails
             \/ RequestBuildCancellation \/ BuildLeaseLapses
    BY <2>1, Commanding
  <2>2. CASE DeadlinePasses
    BY <2>2, PassingDeadline
  <2>3. CASE ClaimDue
    BY <2>3, ClaimingBuild
  <2>4. CASE ExecutorStep \/ ExecutorStops
    BY <2>4, Executing, ExecutorStopping
  <2>5. ASSUME NEW n \in Attempts, BuilderStep(n) \/ BuilderStops(n)
        PROVE  BuildInv'
    BY <2>5, Sending, TimingOut, Pausing, Recording DEF BuilderStep
  <2> QED BY <1>1, <2>1, <2>2, <2>3, <2>4, <2>5 DEF BuildStep
<1>2. CASE UNCHANGED buildVars
  BY <1>2, BuildStays
<1> QED BY <1>1, <1>2 DEF Next, vars, OfRuns, OfBuilds, OfGeneration

LEMMA BuildSucceeds == ASSUME BuildInv PROVE SucceededGeneration
<1> SUFFICES ASSUME command.state = "succeeded"
             PROVE  /\ fence.generation = command.attempt /\ fence.tombstone
                    /\ candidate = "cleaned" /\ tag # command.attempt
  BY DEF SucceededGeneration
<1>1. command.attempt \in Attempts
  BY BuildTypes, BuildConsts DEF BuildInv, CommandFits
<1> QED BY <1>1 DEF BuildInv, CommandFits, Closed

\* A closed generation is not opened by any step.
LEMMA ClosedKept ==
  ASSUME BuildInv, [Next]_vars, fence.tombstone, fence'.generation = fence.generation
  PROVE  fence'.tombstone /\ \A t \in tasks' \ tasks : t.phase \in {"pushed", "orphan"}
<1> USE BuildTypes
<1>1. ASSUME NEW r \in requests, Admit(r)
      PROVE  UNCHANGED <<fence, tasks>>
  <2>1. CASE Refusal(r) # "none"
    BY <1>1, <2>1 DEF Admit
  <2>2. CASE Refusal(r) = "none"
    <3>1. fence'.generation = r.attempt
      BY <1>1, <2>2 DEF Admit
    <3> QED BY <2>2, <3>1 DEF Refusal
  <2> QED BY <2>1, <2>2
<1>2. ASSUME NEW t \in tasks, NEW a, Complete(t, a)
      PROVE  tasks' \subseteq tasks /\ fence'.tombstone
  <2>1. fence' = fence \/ fence' = [fence EXCEPT !.answered = TRUE]
    BY <1>2 DEF Complete
  <2>2. fence'.tombstone = fence.tombstone
    BY <2>1 DEF FenceRow
  <2> QED BY <1>2, <2>2 DEF Complete
<1>3. ASSUME NEW t \in tasks, SolvePushes(t)
      PROVE  UNCHANGED fence /\ \A u \in tasks' \ tasks : u.phase \in {"pushed", "orphan"}
  <2>1. [t EXCEPT !.phase = "pushed"].phase = "pushed"
    BY Relabelled
  <2> QED BY <1>3, <2>1 DEF SolvePushes
<1>4. ASSUME DeadlinePasses
      PROVE  UNCHANGED fence /\ \A u \in tasks' \ tasks : u.phase \in {"pushed", "orphan"}
  <2>1. \A t \in tasks : [t EXCEPT !.phase = "orphan"].phase = "orphan"
    BY Relabelled
  <2>2. UNCHANGED fence /\ \A u \in tasks' \ tasks : \E t \in tasks : u = [t EXCEPT !.phase = "orphan"]
    BY <1>4 DEF DeadlinePasses
  <2> QED BY <2>1, <2>2
<1>5. CASE ExecutorStep
  <2>1. \/ \E r \in requests : Admit(r)
        \/ \E t \in tasks : SolvePushes(t)
        \/ \E t \in tasks, a \in {"ok", "unavailable", "rejected"} : Complete(t, a)
    BY <1>5 DEF ExecutorStep, EnsurePrivateProject, Publish, BuildFails, BuiltCandidateLost,
                PersistBuiltCandidate, CleanupCandidate, CleanupFails
  <2> QED BY <1>1, <1>2, <1>3, <2>1
<1>6. CASE ExecutorStops
  BY <1>6 DEF ExecutorStops
<1>7. CASE UNCHANGED <<fence, tasks>>
  BY <1>7
<1>8. CASE \E n \in Attempts : BuilderStep(n) \/ BuilderStops(n)
  BY <1>7, <1>8 DEF BuilderStep, BuilderStops, SendStage, StageTimesOut, StageCancelled,
     ExecutionTimesOut, OverdueCleanupFails, BuildHeartbeat, RecordOutcome, executorVars
<1>9. CASE \/ BuildRequested \/ FindNoDuplicate \/ AcceptCommand \/ AcceptFails
           \/ RequestBuildCancellation \/ BuildLeaseLapses
           \/ ClaimDue
  BY <1>7, <1>9 DEF BuildRequested, FindNoDuplicate, AcceptCommand, AcceptFails,
     RequestBuildCancellation, BuildLeaseLapses, ClaimDue, executorVars
<1> QED BY <1>4, <1>5, <1>6, <1>7, <1>8, <1>9
           DEF Next, vars, buildVars, OfRuns, OfBuilds, OfGeneration, BuildStep

-----------------------------------------------------------------------------
(***************************************************************************)
(* Generations                                                             *)
(***************************************************************************)

LEMMA Least ==
  ASSUME NEW S, S \subseteq Nat, S # {}
  PROVE  Min(S) \in S /\ \A y \in S : Min(S) <= y
<1> DEFINE R == OpToRel(<, Nat)
<1>1. IsWellFoundedOn(R, Nat)
  BY NatLessThanWellFounded
<1>2. PICK x \in S : \A y \in S : ~(<<y, x>> \in R)
  <2> HIDE DEF R
  <2> QED BY <1>1, WFMin
<1>3. \A y \in S : ~(y < x)
  BY <1>2 DEF OpToRel
<1>4. \A y \in S : x <= y
  BY <1>3
<1> QED BY <1>4 DEF Min

Verdicts == {"unavailable", "mismatch", "failed", "denied", "unsupported"}

\* prepare lets a package through only if it finds nothing wrong with any of its files.
LEMMA PrepareFacts ==
  ASSUME NEW fs \in Seq(PackageFiles)
  PROVE  /\ Prepare(fs) \in {"prepared", "limit"} \cup Verdicts
         /\ Prepare(fs) = "prepared" => \A i \in 1..Len(fs) : FileVerdict(fs[i]) = "ok"
<1> DEFINE I   == {i \in 1..Len(fs) : FileVerdict(fs[i]) # "ok"}
           bad == IF I # {} THEN Min(I) ELSE 0
<1>1. SelectInSeq(fs, LAMBDA f : FileVerdict(f) # "ok") = bad
  BY DEF SelectInSeq
<1>2. \/ Prepare(fs) = "limit"
      \/ bad = 0 /\ Prepare(fs) = "prepared"
      \/ bad # 0 /\ Prepare(fs) = FileVerdict(fs[bad])
  BY <1>1 DEF Prepare
<1>3. I \subseteq Nat /\ 0 \notin I
  OBVIOUS
<1>4. I # {} => bad \in I
  BY <1>3, Least
<1>5. bad # 0 => FileVerdict(fs[bad]) # "ok"
  BY <1>4
<1>6. bad = 0 => I = {}
  BY <1>3, <1>4
<1>7. \A i \in 1..Len(fs) : FileVerdict(fs[i]) \in {"ok"} \cup Verdicts
  BY DEF FileVerdict, Verdicts
<1>8. bad # 0 => FileVerdict(fs[bad]) \in Verdicts
  BY <1>4, <1>7
<1>9. bad = 0 => \A i \in 1..Len(fs) : FileVerdict(fs[i]) = "ok"
  BY <1>6
<1> HIDE DEF bad, I
<1> QED BY <1>2, <1>8, <1>9 DEF Verdicts

\* decimal_to_microusd rounds up: what is within the budget after it was within it before.
LEMMA BudgetKept ==
  ASSUME NEW c \in Costs, DecimalToMicrousd(c) <= MaxCost
  PROVE  c.digits * 10 <= MaxCost * 10^(c.places - c.exponent - 6 + 1)
<1>0. MaxCost \in Nat
  BY GenerationConstants
<1>1. \/ c \in [digits : {0, 12}, places : {0, 1}, exponent : {-7, -6}]
      \/ c = [digits |-> 1, places |-> 0, exponent |-> -5]
  BY DEF Costs
<1>2. CASE c = [digits |-> 1, places |-> 0, exponent |-> -5]
  BY <1>0, <1>2 DEF DecimalToMicrousd
<1>3. CASE c \in [digits : {0, 12}, places : {0, 1}, exponent : {-7, -6}]
  <2>1. c.digits \in {0, 12} /\ c.places \in {0, 1} /\ c.exponent \in {-7, -6}
    BY <1>3
  <2>2. CASE c.places = 0 /\ c.exponent = -6
    BY <1>0, <2>1, <2>2 DEF DecimalToMicrousd
  <2>3. CASE c.places = 0 /\ c.exponent = -7
    BY <1>0, <2>1, <2>3 DEF DecimalToMicrousd
  <2>4. CASE c.places = 1 /\ c.exponent = -6
    BY <1>0, <2>1, <2>4 DEF DecimalToMicrousd
  <2>5. CASE c.places = 1 /\ c.exponent = -7
    BY <1>0, <2>1, <2>5 DEF DecimalToMicrousd
  <2> QED BY <2>1, <2>2, <2>3, <2>4, <2>5
<1> QED BY <1>1, <1>2, <1>3

\* parse_stream_output accepts no stream that read_stream_until_result can hand it but the
\* whole answer of one session that used no tool.
LEMMA StreamOrderly ==
  ASSUME NEW lines \in Streams, ParseStreamOutput(lines) = "parsed"
  PROVE  lines \in Orderly
<1>0. PICK n \in 0..MaxLines : \E ls \in [1..n -> LineKinds] : lines = ReadStreamUntilResult(ls)
  BY DEF Streams
<1>1. PICK ls \in [1..n -> LineKinds] : lines = ReadStreamUntilResult(ls)
  BY <1>0
<1>2. n \in Nat /\ ls \in Seq(LineKinds) /\ Len(ls) = n
  BY <1>1, GenerationConstants
<1> DEFINE I     == {i \in 1..Len(ls) : ls[i] = "result"}
           first == IF I # {} THEN Min(I) ELSE 0
<1>3. lines = IF first = 0 THEN ls ELSE SubSeq(ls, 1, first)
  <2>1. SelectInSeq(ls, LAMBDA l : l = "result") = first
    BY DEF SelectInSeq
  <2> QED BY <1>1, <2>1 DEF ReadStreamUntilResult
<1>4. I \subseteq Nat /\ 0 \notin I
  BY <1>2
<1>5. /\ first = 0 => \A i \in 1..n : ls[i] # "result"
      /\ first # 0 => /\ first \in 1..n /\ ls[first] = "result"
                      /\ \A i \in 1..n : i < first => ls[i] # "result"
  <2>1. CASE I = {}
    BY <1>2, <2>1
  <2>2. CASE I # {}
    <3>1. Min(I) \in I /\ \A y \in I : Min(I) <= y
      BY <1>4, <2>2, Least
    <3>2. first = Min(I) /\ first # 0
      BY <1>4, <2>2, <3>1
    <3>3. first \in 1..n /\ ls[first] = "result"
      BY <1>2, <3>1, <3>2
    <3>4. \A i \in 1..n : i < first => ls[i] # "result"
      <4> SUFFICES ASSUME NEW i \in 1..n, i < first, ls[i] = "result"
                   PROVE  FALSE
        OBVIOUS
      <4>1. i \in I
        BY <1>2
      <4>2. first <= i
        BY <3>1, <3>2, <4>1
      <4> HIDE DEF first
      <4> QED BY <3>3, <4>2
    <3> HIDE DEF first
    <3> QED BY <3>2, <3>3, <3>4
  <2> QED BY <2>1, <2>2
<1> HIDE DEF first, I
<1> DEFINE k == IF first = 0 THEN n ELSE first
<1>6. /\ lines \in Seq(LineKinds) /\ Len(lines) = k /\ k \in Nat /\ k <= n
      /\ \A i \in 1..k : lines[i] = ls[i] /\ lines[i] \in LineKinds
  <2>1. CASE first = 0
    BY <1>1, <1>2, <1>3, <2>1
  <2>2. CASE first # 0
    <3>1. lines = SubSeq(ls, 1, first) /\ first \in 1..n
      BY <1>3, <1>5, <2>2
    <3>2. lines \in Seq(LineKinds) /\ Len(lines) = first /\ \A i \in 1..first : lines[i] = ls[i]
      BY <1>2, <3>1
    <3> QED BY <1>1, <1>2, <2>2, <3>1, <3>2
  <2> QED BY <2>1, <2>2
<1> HIDE DEF k
<1> DEFINE rest == Tail(lines)
           J    == {j \in 1..Len(rest) : rest[j] \in {"init", "tool", "foreign"}}
<1>7. /\ lines # <<>> /\ lines[1] = "init"
      /\ SelectInSeq(rest, LAMBDA l : l \in {"init", "tool", "foreign"}) = 0
      /\ Contains(rest, "result")
  BY DEF ParseStreamOutput
<1>8. k >= 1 /\ Len(rest) = k - 1 /\ \A j \in 1..k - 1 : rest[j] = lines[j + 1]
  BY <1>6, <1>7, NonEmpty
<1> HIDE DEF rest
<1>9. J = {}
  <2>1. SelectInSeq(rest, LAMBDA l : l \in {"init", "tool", "foreign"}) = IF J # {} THEN Min(J) ELSE 0
    BY DEF SelectInSeq
  <2>2. J \subseteq Nat /\ 0 \notin J
    BY <1>6, <1>8
  <2>3. J # {} => Min(J) \in J
    BY <2>2, Least
  <2> QED BY <1>7, <2>1, <2>2, <2>3
<1>10. PICK j \in 1..k - 1 : lines[j + 1] = "result"
  BY <1>7, <1>8 DEF Contains
<1>11. first # 0 /\ k = first /\ k > 1 /\ lines[k] = "result"
  <2>1. j + 1 \in 1..k /\ ls[j + 1] = "result" /\ j + 1 \in 1..n
    BY <1>2, <1>6, <1>10
  <2>2. first # 0
    BY <1>5, <2>1
  <2>3. k = first /\ k > 1
    BY <2>1, <2>2, <1>6 DEF k
  <2> QED BY <1>5, <1>6, <2>2, <2>3
<1>12. \A i \in 2..k - 1 : lines[i] \in {"ambient", "text"}
  <2> TAKE i \in 2..k - 1
  <2>1. i - 1 \in 1..k - 1 /\ i \in 1..k /\ i \in 1..n /\ i < k
    BY <1>2, <1>6
  <2>2. rest[i - 1] = lines[i]
    BY <1>6, <1>8, <2>1
  <2>3. lines[i] \notin {"init", "tool", "foreign"}
    BY <1>8, <1>9, <2>1, <2>2
  <2>4. lines[i] # "result"
    BY <1>5, <1>6, <1>11, <2>1
  <2>5. lines[i] \in LineKinds
    BY <1>6, <2>1
  <2> QED BY <2>3, <2>4, <2>5 DEF LineKinds
<1> QED BY <1>6, <1>7, <1>11, <1>12 DEF Orderly

LEMMA OutputFacts ==
  ASSUME NEW o \in Outputs
  PROVE  /\ o.lines \in Streams /\ o.stderr \in {"none", "rate_limited"}
         /\ o.envelope.cost \in Costs /\ o.document \in Documents
         /\ o.envelope.turns \in Nat /\ o.envelope.usage \in {"counted", "overflow", "no_cost"}
<1>0. MaxRequests \in Nat
  BY GenerationConstants
<1>1. \A x \in Exits : x[2] \in {"none", "rate_limited"}
  BY DEF Exits
<1>2. Free \in Costs
  BY DEF Free, Costs
<1>3. \A e \in Envelopes :
         e.cost \in Costs /\ e.turns \in Nat /\ e.usage \in {"counted", "overflow", "no_cost"}
  <2> SUFFICES ASSUME NEW e \in Envelopes
               PROVE  e.cost \in Costs /\ e.turns \in Nat /\ e.usage \in {"counted", "overflow", "no_cost"}
    OBVIOUS
  <2> DEFINE Fits(x) == x.cost \in Costs /\ x.turns \in Nat /\ x.usage \in {"counted", "overflow", "no_cost"}
  <2>1. ASSUME NEW c \in Costs, e = [Plain EXCEPT !.cost = c] PROVE Fits(e)
    BY <2>1 DEF Plain
  <2>2. ASSUME NEW k \in {"no", "budget", "upstream", "unknown"}, NEW d \in BOOLEAN,
               e = ErrorEnvelope(k, d)
        PROVE  Fits(e)
    BY <1>2, <2>2 DEF Plain, ErrorEnvelope
  <2>3. ASSUME NEW u \in {"overflow", "no_cost"}, NEW k \in {"no", "upstream"},
               e = UsageEnvelope(u, k)
        PROVE  Fits(e)
    BY <1>2, <2>3 DEF Plain, UsageEnvelope
  <2>4. ASSUME e = [Plain EXCEPT !.success = FALSE] PROVE Fits(e)
    BY <1>2, <2>4 DEF Plain
  <2>5. ASSUME e = [Plain EXCEPT !.input = MaxTokens, !.output = MaxTokens, !.turns = MaxRequests]
        PROVE  Fits(e)
    BY <1>0, <1>2, <2>5 DEF Plain
  <2>6. ASSUME e = [Plain EXCEPT !.input = MaxTokens + 1] PROVE Fits(e)
    BY <1>2, <2>6 DEF Plain
  <2>7. ASSUME e = [Plain EXCEPT !.output = MaxTokens + 1] PROVE Fits(e)
    BY <1>2, <2>7 DEF Plain
  <2>8. ASSUME e = [Plain EXCEPT !.turns = MaxRequests + 1] PROVE Fits(e)
    BY <1>0, <1>2, <2>8 DEF Plain
  <2> HIDE DEF Fits
  <2>a. ASSUME e \in CostEnvelopes PROVE Fits(e)
    BY <2>a, <2>1 DEF CostEnvelopes
  <2>b. ASSUME e \in ErrorEnvelopes PROVE Fits(e)
    <3>1. PICK k \in {"no", "budget", "upstream", "unknown"}, d \in BOOLEAN :
             e = ErrorEnvelope(k, d)
      BY <2>b DEF ErrorEnvelopes
    <3> QED BY <3>1, <2>2, Zenon
  <2>c. ASSUME e \in UsageEnvelopes PROVE Fits(e)
    <3>1. PICK u \in {"overflow", "no_cost"}, k \in {"no", "upstream"} :
             e = UsageEnvelope(u, k)
      BY <2>c DEF UsageEnvelopes
    <3> QED BY <3>1, <2>3, Zenon
  <2>d. ASSUME e \in LimitEnvelopes PROVE Fits(e)
    BY <2>d, <2>4, <2>5, <2>6, <2>7, <2>8 DEF LimitEnvelopes
  <2>10. Fits(e)
    BY <2>a, <2>b, <2>c, <2>d DEF Envelopes
  <2> QED BY <2>10 DEF Fits
<1>4. ASSUME NEW ls \in Orderly, NEW x \in Exits, NEW d \in Documents, NEW env \in Envelopes,
             o = Answer(ls, x, d, env)
      PROVE  /\ o.lines \in Streams /\ o.stderr \in {"none", "rate_limited"}
             /\ o.envelope = env /\ o.document \in Documents
  BY <1>1, <1>4 DEF Orderly, Answer
<1>5. ASSUME NEW ls \in Streams, NEW x \in Exits, o = Answer(ls, x, NoOutput.document, NoOutput.envelope)
      PROVE  /\ o.lines \in Streams /\ o.stderr \in {"none", "rate_limited"}
             /\ o.envelope = Plain /\ o.document \in Documents
  <2>1. NoOutput.document = "valid" /\ NoOutput.envelope = Plain
    BY DEF NoOutput
  <2> QED BY <1>1, <1>5, <2>1 DEF Answer, Documents
<1>7. Plain.cost \in Costs /\ Plain.turns \in Nat /\ Plain.usage = "counted"
  BY <1>2 DEF Plain
<1>6. \/ o \in {Answer(ls, x, d, env) : ls \in Orderly, x \in Exits, d \in Documents, env \in Envelopes}
      \/ o \in {Answer(ls, x, NoOutput.document, NoOutput.envelope) : ls \in Streams, x \in Exits}
  BY DEF Outputs
<1> QED BY <1>3, <1>4, <1>5, <1>6, <1>7

\* What parse_result calls a success.
LEMMA SuccessSound ==
  ASSUME NEW o \in Outputs, ParseResult(o) = "succeeded"
  PROVE  /\ o.lines \in Orderly /\ Contains(o.lines, "text")
         /\ o.exit = "success" /\ o.document = "valid" /\ ~o.envelope.denials
         /\ o.envelope.success /\ o.envelope.input <= MaxTokens /\ o.envelope.output <= MaxTokens
         /\ o.envelope.turns <= MaxRequests
         /\ o.envelope.cost.digits * 10 <=
              MaxCost * 10^(o.envelope.cost.places - o.envelope.cost.exponent - 6 + 1)
<1>1. o.lines \in Streams /\ o.stderr \in {"none", "rate_limited"} /\ o.envelope.cost \in Costs
  BY OutputFacts
<1>2. ParseStreamOutput(o.lines) = "parsed"
  <2>1. ParseStreamOutput(o.lines) \in {"parsed", "protocol", "tool_denied"}
    BY DEF ParseStreamOutput
  <2> QED BY <1>1, <2>1 DEF ParseResult
<1>9. o.envelope.usage = "counted"
  BY <1>2 DEF ParseResult
<1>3. o.exit = "success" /\ o.envelope.is_error = "no"
  BY <1>1, <1>2, <1>9 DEF ParseResult, ClassifiedError
<1>4. ~o.envelope.denials /\ o.envelope.success /\ EnforceBudget(o.envelope) /\ Contains(o.lines, "text")
      /\ o.document \notin {"malformed", "protected", "other_class"}
  BY <1>2, <1>3, <1>9 DEF ParseResult
<1>5. o.document \in Documents
  BY OutputFacts
<1>6. o.document = "valid"
  BY <1>4, <1>5 DEF Documents
<1>7. o.lines \in Orderly
  BY <1>1, <1>2, StreamOrderly
<1>8. /\ DecimalToMicrousd(o.envelope.cost) <= MaxCost
      /\ o.envelope.input <= MaxTokens /\ o.envelope.output <= MaxTokens
  BY <1>4 DEF EnforceBudget
<1>10. o.envelope.turns <= MaxRequests
  BY <1>4, OutputFacts, GenerationConstants DEF EnforceBudget, UsedRequests
<1> QED BY <1>1, <1>3, <1>4, <1>6, <1>7, <1>8, <1>10, BudgetKept

GenerationRow ==
  [step : {"idle", "queued", "identity", "invoking", "ended"}, repairs : 0..MaxRepairs,
   outcome : {"none", "succeeded", "failed", "cancelled"}]

\* What CandidateSound says of one output.
Sound(o) ==
  /\ o.lines \in Orderly /\ Contains(o.lines, "text")
  /\ o.exit = "success" /\ o.document = "valid" /\ ~o.envelope.denials
  /\ o.envelope.success /\ o.envelope.input <= MaxTokens /\ o.envelope.output <= MaxTokens
  /\ o.envelope.turns <= MaxRequests
  /\ o.envelope.cost.digits * 10 <=
       MaxCost * 10^(o.envelope.cost.places - o.envelope.cost.exponent - 6 + 1)

GenInv ==
  /\ GenerationTypeOK
  /\ accepted \in [TrackKinds -> Outputs \cup {NoOutput}]
  /\ \A t \in TrackKinds : generation[t].outcome = "succeeded" => Sound(accepted[t])

LEMMA CandidatesSound == ASSUME GenInv PROVE CandidateSound
BY DEF GenInv, CandidateSound, Sound

LEMMA GenerationTypes ==
  ASSUME GenInv
  PROVE  /\ generation \in [TrackKinds -> GenerationRow] /\ files \in Seq(PackageFiles)
         /\ \A t \in TrackKinds : generation[t] \in GenerationRow
         /\ MaxRepairs \in Nat
BY GenerationConstants DEF GenInv, GenerationTypeOK, GenerationRow

\* No candidate is accepted.
LEMMA NoneAccepted ==
  ASSUME GenInv, UNCHANGED accepted, generation' \in [TrackKinds -> GenerationRow],
         \A t \in TrackKinds : generation'[t].outcome = "succeeded" => generation[t].outcome = "succeeded",
         files' \in Seq(PackageFiles), stopped' \in BOOLEAN,
         gate' \in {"open", "prepared", "limit"} \cup Verdicts,
         identity' \in {"unknown", "verified", "timed_out", "other_version"}
  PROVE  GenInv'
<1>1. GenerationTypeOK'
  BY DEF GenerationTypeOK, GenerationRow, Verdicts
<1>2. \A t \in TrackKinds : generation'[t].outcome = "succeeded" => Sound(accepted'[t])
  BY DEF GenInv
<1>3. accepted' \in [TrackKinds -> Outputs \cup {NoOutput}]
  BY DEF GenInv
<1> QED BY <1>1, <1>2, <1>3 DEF GenInv, Sound

\* One track moves on.
LEMMA TrackMoves ==
  ASSUME GenInv, NEW t \in TrackKinds, NEW g \in GenerationRow,
         generation' = [generation EXCEPT ![t] = g],
         g.outcome = "succeeded" => generation[t].outcome = "succeeded",
         UNCHANGED <<files, gate, stopped, accepted>>,
         identity' \in {"unknown", "verified", "timed_out", "other_version"}
  PROVE  GenInv'
<1>1. generation' \in [TrackKinds -> GenerationRow]
  BY GenerationTypes
<1>2. \A u \in TrackKinds : generation'[u].outcome = "succeeded" => generation[u].outcome = "succeeded"
  BY GenerationTypes
<1>3. /\ files' \in Seq(PackageFiles) /\ stopped' \in BOOLEAN
      /\ gate' \in {"open", "prepared", "limit"} \cup Verdicts
  BY DEF GenInv, GenerationTypeOK, Verdicts
<1> QED BY <1>1, <1>2, <1>3, NoneAccepted

\* End as one row of the track.
LEMMA Ending ==
  ASSUME GenInv, NEW t \in TrackKinds, NEW outcome \in {"succeeded", "failed", "cancelled"},
         End(t, outcome)
  PROVE  \E g \in GenerationRow :
           generation' = [generation EXCEPT ![t] = g] /\ g.outcome = outcome
<1> DEFINE g == [generation[t] EXCEPT !.step = "ended", !.outcome = outcome]
<1>1. generation[t] \in GenerationRow
  BY GenerationTypes
<1>2. g \in GenerationRow /\ g.outcome = outcome
  BY <1>1 DEF GenerationRow
<1>3. generation' = [generation EXCEPT ![t] = g]
  BY DEF End
<1> QED BY <1>2, <1>3

LEMMA GenInitial == Init => GenInv
<1> SUFFICES ASSUME Init PROVE GenInv
  OBVIOUS
<1> USE GenerationConstants DEF Init, GenerationInit
<1>1. generation \in [TrackKinds -> GenerationRow]
  BY DEF GenerationRow
<1>2. GenerationTypeOK
  <2>1. files \in Seq(PackageFiles)
    BY EmptySeq
  <2> QED BY <1>1, <2>1 DEF GenerationTypeOK, GenerationRow
<1>3. accepted \in [TrackKinds -> Outputs \cup {NoOutput}]
  OBVIOUS
<1>4. \A t \in TrackKinds : generation[t].outcome # "succeeded"
  OBVIOUS
<1> QED BY <1>2, <1>3, <1>4 DEF GenInv

LEMMA Packaging ==
  ASSUME GenInv, NEW fs \in Packages, PackageClaimed(fs)
  PROVE  GenInv'
<1>1. [declared |-> 1, read |-> 1, content |-> "text"] \in PackageFiles
  BY DEF PackageFiles
<1>2. fs \in Seq(PackageFiles)
  <2>1. \E f \in PackageFiles : \E e \in PackageFiles : fs = <<f>> \/ fs = <<e, f>>
    BY <1>1 DEF Packages
  <2>2. ASSUME NEW e \in PackageFiles, NEW f \in PackageFiles
        PROVE  <<f>> \in Seq(PackageFiles) /\ <<e, f>> \in Seq(PackageFiles)
    OBVIOUS
  <2> QED BY <2>1, <2>2
<1>3. /\ stopped' \in BOOLEAN /\ gate' \in {"open", "prepared", "limit"} \cup Verdicts
      /\ identity' \in {"unknown", "verified", "timed_out", "other_version"}
  BY DEF PackageClaimed, GenInv, GenerationTypeOK, Verdicts
<1> QED BY <1>2, <1>3, GenerationTypes, NoneAccepted DEF PackageClaimed

LEMMA Gating ==
  ASSUME GenInv, GatePrepare
  PROVE  GenInv'
<1> USE GenerationTypes
<1>1. gate' \in {"open", "prepared", "limit"} \cup Verdicts
  BY PrepareFacts DEF GatePrepare
<1>2. \A t \in TrackKinds :
        generation'[t] \in GenerationRow /\ generation'[t].outcome \in {"none", "failed"}
  BY DEF GatePrepare, GenerationRow
<1>3. generation' \in [TrackKinds -> GenerationRow]
  BY <1>2 DEF GatePrepare
<1>4. /\ stopped' \in BOOLEAN /\ files' \in Seq(PackageFiles)
      /\ identity' \in {"unknown", "verified", "timed_out", "other_version"}
  BY EmptySeq DEF GatePrepare, GenInv, GenerationTypeOK
<1> QED BY <1>1, <1>2, <1>3, <1>4, NoneAccepted DEF GatePrepare

LEMMA Tracking ==
  ASSUME GenInv, NEW t \in TrackKinds,
         AcquirePermit(t) \/ VerifyRuntimeIdentity(t) \/ InvocationFails(t)
  PROVE  GenInv'
<1> USE GenerationTypes
<1>0. identity \in {"unknown", "verified", "timed_out", "other_version"}
  BY DEF GenInv, GenerationTypeOK
<1>1. ASSUME NEW s \in {"identity", "invoking"}, generation' = [generation EXCEPT ![t].step = s]
      PROVE  \E g \in GenerationRow :
               /\ generation' = [generation EXCEPT ![t] = g]
               /\ g.outcome = generation[t].outcome
  <2> DEFINE g == [generation[t] EXCEPT !.step = s]
  <2>1. g \in GenerationRow /\ g.outcome = generation[t].outcome
    BY DEF GenerationRow
  <2>2. generation' = [generation EXCEPT ![t] = g]
    BY <1>1
  <2> QED BY <2>1, <2>2
<1>2. ASSUME NEW o \in {"failed", "cancelled"}, End(t, o)
      PROVE  \E g \in GenerationRow :
               generation' = [generation EXCEPT ![t] = g] /\ g.outcome # "succeeded"
  BY <1>2, Ending
<1>3. \E g \in GenerationRow :
        /\ generation' = [generation EXCEPT ![t] = g]
        /\ g.outcome = "succeeded" => generation[t].outcome = "succeeded"
  <2>1. \/ \E s \in {"identity", "invoking"} : generation' = [generation EXCEPT ![t].step = s]
        \/ \E o \in {"failed", "cancelled"} : End(t, o)
    BY DEF AcquirePermit, VerifyRuntimeIdentity, InvocationFails
  <2>2. CASE \E s \in {"identity", "invoking"} : generation' = [generation EXCEPT ![t].step = s]
    BY <1>1, <2>2
  <2>3. CASE \E o \in {"failed", "cancelled"} : End(t, o)
    BY <1>2, <2>3
  <2> QED BY <2>1, <2>2, <2>3
<1>4. /\ UNCHANGED <<files, gate, stopped, accepted>>
      /\ identity' \in {"unknown", "verified", "timed_out", "other_version"}
  BY <1>0 DEF AcquirePermit, VerifyRuntimeIdentity, InvocationFails
<1> QED BY <1>3, <1>4, TrackMoves

LEMMA Invoking ==
  ASSUME GenInv, NEW t \in TrackKinds, NEW o \in Outputs, Invoke(t, o)
  PROVE  GenInv'
<1> USE GenerationTypes
<1>0. UNCHANGED <<files, gate, identity, stopped>>
  BY DEF Invoke
<1>1. identity' \in {"unknown", "verified", "timed_out", "other_version"}
  BY <1>0 DEF GenInv, GenerationTypeOK
<1>2. CASE /\ ParseResult(o) = "succeeded" /\ accepted' = [accepted EXCEPT ![t] = o]
           /\ End(t, "succeeded")
  <2>1. Sound(o)
    BY <1>2, SuccessSound DEF Sound
  <2>2. PICK g \in GenerationRow : generation' = [generation EXCEPT ![t] = g]
    BY <1>2, Ending
  <2>3. GenerationTypeOK'
    <3>1. generation' \in [TrackKinds -> GenerationRow]
      BY <2>2
    <3> QED BY <1>0, <3>1 DEF GenInv, GenerationTypeOK, GenerationRow
  <2>4. accepted \in [TrackKinds -> Outputs \cup {NoOutput}]
    BY DEF GenInv
  <2>5. accepted' \in [TrackKinds -> Outputs \cup {NoOutput}]
    BY <1>2, <2>4
  <2>6. ASSUME NEW u \in TrackKinds, generation'[u].outcome = "succeeded"
        PROVE  Sound(accepted'[u])
    <3>1. CASE u = t
      BY <1>2, <2>1, <2>4, <3>1
    <3>2. CASE u # t
      BY <1>2, <2>2, <2>4, <2>6, <3>2 DEF GenInv
    <3> QED BY <3>1, <3>2
  <2> QED BY <2>3, <2>5, <2>6 DEF GenInv, Sound
<1>3. CASE /\ generation[t].repairs < MaxRepairs /\ UNCHANGED accepted
           /\ generation' = [generation EXCEPT ![t].repairs = @ + 1]
  <2> DEFINE g == [generation[t] EXCEPT !.repairs = generation[t].repairs + 1]
  <2>1. generation[t].repairs + 1 \in 0..MaxRepairs
    BY <1>3 DEF GenerationRow
  <2>2. g \in GenerationRow /\ g.outcome = generation[t].outcome
    BY <2>1 DEF GenerationRow
  <2>3. generation' = [generation EXCEPT ![t] = g]
    BY <1>3
  <2> HIDE DEF g
  <2> QED BY <1>0, <1>1, <1>3, <2>2, <2>3, TrackMoves
<1>4. CASE End(t, "failed") /\ UNCHANGED accepted
  <2>1. PICK g \in GenerationRow : generation' = [generation EXCEPT ![t] = g] /\ g.outcome = "failed"
    BY <1>4, Ending
  <2> QED BY <1>0, <1>1, <1>4, <2>1, TrackMoves
<1> QED BY <1>2, <1>3, <1>4 DEF Invoke

LEMMA GenNext == GenInv /\ [Next]_vars => GenInv'
<1> SUFFICES ASSUME GenInv, [Next]_vars PROVE GenInv'
  OBVIOUS
<1>1. CASE GenerationStep
  <2>1. CASE Stop
    <3>1. /\ stopped' \in BOOLEAN /\ gate' \in {"open", "prepared", "limit"} \cup Verdicts
          /\ identity' \in {"unknown", "verified", "timed_out", "other_version"}
      BY <2>1 DEF Stop, GenInv, GenerationTypeOK, Verdicts
    <3> QED BY <2>1, <3>1, GenerationTypes, NoneAccepted DEF Stop
  <2>2. CASE \E t \in TrackKinds : TrackStep(t)
    BY <2>2, Tracking, Invoking DEF TrackStep
  <2> QED BY <1>1, <2>1, <2>2, Packaging, Gating DEF GenerationStep
<1>2. CASE UNCHANGED generationVars
  <2>1. /\ stopped' \in BOOLEAN /\ gate' \in {"open", "prepared", "limit"} \cup Verdicts
        /\ identity' \in {"unknown", "verified", "timed_out", "other_version"}
    BY <1>2 DEF generationVars, GenInv, GenerationTypeOK, Verdicts
  <2> QED BY <1>2, <2>1, GenerationTypes, NoneAccepted DEF generationVars
<1> QED BY <1>1, <1>2 DEF Next, vars, OfRuns, OfBuilds, OfGeneration

\* What the gate lets through holds nothing that it must hold back.
LEMMA EgressKept ==
  ASSUME GenInv, [Next]_vars, gate = "open", gate' = "prepared", NEW i \in 1..Len(files)
  PROVE  files[i].content \in {"text", "context", "context_denied"}
<1>1. GatePrepare
  <2>1. ~UNCHANGED gate
    OBVIOUS
  <2>2. GenerationStep
    BY <2>1 DEF Next, vars, OfRuns, OfBuilds, OfGeneration, generationVars
  <2> QED BY <2>1, <2>2 DEF GenerationStep, PackageClaimed, Stop, TrackStep, AcquirePermit,
                            VerifyRuntimeIdentity, InvocationFails, Invoke
<1>2. files \in Seq(PackageFiles)
  BY GenerationTypes
<1>3. FileVerdict(files[i]) = "ok"
  BY <1>1, <1>2, PrepareFacts DEF GatePrepare
<1>4. files[i] \in PackageFiles
  BY <1>2
<1> QED BY <1>3, <1>4 DEF FileVerdict, IsBuildContext, PackageFiles

-----------------------------------------------------------------------------
(***************************************************************************)
(* The service                                                             *)
(***************************************************************************)

PartTypeOK == part \in {"runs", "builds", "generation"}

LEMMA ServiceInvariant == Spec => [](RunInv /\ BuildInv /\ GenInv /\ PartTypeOK)
<1>1. Init => PartTypeOK
  BY DEF Init, PartTypeOK
<1>2. PartTypeOK /\ [Next]_vars => PartTypeOK'
  BY DEF PartTypeOK, Next, vars, OfRuns, OfBuilds, OfGeneration
<1> QED BY <1>1, <1>2, RunInitial, RunNext, BuildInitial, BuildNext, GenInitial, GenNext, PTL DEF Spec

(* The row of a track, its attempts, the state of the run and its events    *)
(* agree in every reachable state: claims, heartbeats, completions, retries *)
(* and cancellations of store.rs, by any number of processes that may stop, *)
(* keep a run that AgentRun::validate accepts.                              *)
THEOREM RunsAlwaysFaithful == Spec => []RunsFaithful
<1>1. RunInv /\ BuildInv /\ GenInv /\ PartTypeOK => RunsFaithful
  BY DEF RunsFaithful, TypeOK, RunInv, BuildInv, GenInv, PartTypeOK
<1> QED BY <1>1, ServiceInvariant, PTL

(* A build has one result, recorded when it ends and only for the           *)
(* generation that the executor's fence has closed; a candidate is accepted *)
(* from an answer that parse_result has found whole, unaided by tools and   *)
(* within the budget.                                                       *)
THEOREM ResultsAlwaysSound == Spec => []ResultsSound
<1>1. RunInv /\ BuildInv /\ GenInv /\ PartTypeOK => ResultsSound
  BY BuildSucceeds, CandidatesSound DEF ResultsSound, BuildInv
<1> QED BY <1>1, ServiceInvariant, PTL

(* No step replaces an attempt that has succeeded, opens a generation that  *)
(* its cleanup has closed, or lets the egress gate pass a file that is      *)
(* denied or could not be classified.                                       *)
THEOREM SettledAlwaysStays == Spec => SettledStays
<1>1. RunInv /\ BuildInv /\ GenInv /\ PartTypeOK /\ [Next]_vars =>
        [\A t \in Tracks : LastAttempt(attempts, t) = "succeeded" => attempts'[t] = attempts[t]]_vars
  BY SucceededKept
<1>2. RunInv /\ BuildInv /\ GenInv /\ PartTypeOK /\ [Next]_vars =>
        [fence.tombstone /\ fence'.generation = fence.generation =>
           /\ fence'.tombstone
           /\ \A t \in tasks' \ tasks : t.phase \in {"pushed", "orphan"}]_vars
  BY ClosedKept
<1>3. RunInv /\ BuildInv /\ GenInv /\ PartTypeOK /\ [Next]_vars =>
        [gate' = "prepared" /\ gate = "open" =>
           \A i \in 1..Len(files) : files[i].content \in {"text", "context", "context_denied"}]_vars
  BY EgressKept
<1> QED BY <1>1, <1>2, <1>3, ServiceInvariant, PTL
        DEF Spec, SettledStays, SucceededTrackStays, ClosedGenerationStays, EgressSound
=============================================================================
