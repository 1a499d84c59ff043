------------------------ MODULE AccessServiceProofs -------------------------
(***************************************************************************)
(* Proofs about the Access Service, for any number of grants, processes,   *)
(* SSH connections and consoles, and for every value of the bounds.        *)
(***************************************************************************)
EXTENDS AccessService, FiniteSetTheorems, TLAPS

(***************************************************************************)
(* Grants.  What holds of the three rows kept about one grant holds of     *)
(* each grant by itself; the workers only remember which one they took.    *)
(***************************************************************************)
GrantRow == [state : {"none"} \cup LiveStates \cup TerminalStates,
             revision : 0..MaxRevision + 2, lapsed : BOOLEAN]

JobRow == [state : {"none", "pending", "retry", "leased", "completed", "failed"},
           holder : Processes \cup {NoProcess}, live : BOOLEAN, attempts : 0..MaxAttempts]

WorkerRow == [step : {"idle", "claimed", "answered"},
              grant : Grants \cup {NoGrant}, answer : Answers \cup {"none"}]

Announcements == Seq(LiveStates \cup TerminalStates)

\* Jobs that an activation worker may still take or settle.
OpenJobs == {"pending", "retry", "leased"}

\* The grant gr, its job jb and the events an announced for it fit together.
RowsFit(gr, jb, an) ==
  /\ gr.state = "none" => jb.state = "none" /\ jb.attempts = 0
  /\ gr.state = "requested" =>
       /\ gr.revision = 1
       /\ jb.state \in OpenJobs \/ (jb.state = "failed" /\ jb.attempts = MaxAttempts)
  /\ gr.state = "active" => gr.revision <= MaxRevision + 1
  /\ jb.state \in OpenJobs => jb.attempts < MaxAttempts
  /\ gr.state # "none" => an # <<>> /\ an[Len(an)] = gr.state

GrantInv ==
  /\ grant \in [Grants -> GrantRow]
  /\ job \in [Grants -> JobRow]
  /\ announced \in [Grants -> Announcements]
  /\ worker \in [Processes -> WorkerRow]
  /\ membership \in BOOLEAN
  /\ \A p \in Processes : worker[p].step # "idle" => worker[p].grant \in Grants
  /\ \A g \in Grants : RowsFit(grant[g], job[g], announced[g])

\* What a step may do to the rows about grants.
GrantChange ==
  \/ GrantStep \/ ActivationStep
  \/ \E g \in Grants : RevokeGrantRow(g) \/ ExpireGrantRow(g)
  \/ RevokeEnvironmentRows
  \/ \E p \in Processes : /\ worker' = [worker EXCEPT ![p] = IdleWorker]
                          /\ UNCHANGED <<grant, job, membership, announced>>

\* An ended grant keeps its state.
EndedKept == \A g \in Grants : grant[g].state \in TerminalStates =>
                                 grant'[g].state = grant[g].state

\* The workers are typed and have taken a grant when they are busy.
WorkersOK ==
  /\ worker \in [Processes -> WorkerRow]
  /\ \A p \in Processes : worker[p].step # "idle" => worker[p].grant \in Grants

\* The rows of one grant change, to rows that fit together, and an ended grant keeps its
\* state: then the invariant is kept.
LEMMA OneGrantKeeps ==
  ASSUME GrantInv, NEW g \in Grants, NEW gr \in GrantRow, NEW jb \in JobRow,
         NEW an \in Announcements, RowsFit(gr, jb, an),
         grant[g].state \in TerminalStates => gr.state = grant[g].state,
         grant' = [grant EXCEPT ![g] = gr],
         job' = [job EXCEPT ![g] = jb],
         announced' = [announced EXCEPT ![g] = an],
         WorkersOK', membership' \in BOOLEAN
  PROVE  GrantInv' /\ EndedKept
<1>1. grant' \in [Grants -> GrantRow] /\ job' \in [Grants -> JobRow]
      /\ announced' \in [Grants -> Announcements]
  BY DEF GrantInv
<1>2. \A h \in Grants : RowsFit(grant'[h], job'[h], announced'[h])
  <2> TAKE h \in Grants
  <2>1. CASE h = g
    <3>1. grant'[h] = gr /\ job'[h] = jb /\ announced'[h] = an
      BY <2>1 DEF GrantInv
    <3> QED BY <3>1
  <2>2. CASE h # g
    <3>1. grant'[h] = grant[h] /\ job'[h] = job[h] /\ announced'[h] = announced[h]
      BY <2>2 DEF GrantInv
    <3> QED BY <3>1 DEF GrantInv
  <2> QED BY <2>1, <2>2
<1>3. EndedKept
  BY DEF GrantInv, EndedKept
<1> QED BY <1>1, <1>2, <1>3 DEF GrantInv, WorkersOK

LEMMA InitGrants == Init => GrantInv
<1> USE GrantConstants DEF LiveStates, TerminalStates, Answers, IdleWorker
<1>1. ASSUME GrantInit PROVE GrantInv
  <2>1. /\ grant \in [Grants -> GrantRow] /\ job \in [Grants -> JobRow]
        /\ worker \in [Processes -> WorkerRow] /\ membership \in BOOLEAN
    BY <1>1 DEF GrantInit, GrantRow, JobRow, WorkerRow
  <2>2. announced \in [Grants -> Announcements]
    BY <1>1 DEF GrantInit, Announcements
  <2> QED BY <1>1, <2>1, <2>2 DEF GrantInit, GrantInv, RowsFit, OpenJobs
<1>2. ASSUME NEW g, ActivatedInit(g) PROVE GrantInv
  <2>1. /\ grant \in [Grants -> GrantRow] /\ job \in [Grants -> JobRow]
        /\ worker \in [Processes -> WorkerRow] /\ membership \in BOOLEAN
    BY <1>2 DEF ActivatedInit, GrantRow, JobRow, WorkerRow
  <2>2. announced \in [Grants -> Announcements]
    <3>1. <<"requested", "active">> \in Announcements /\ <<>> \in Announcements
      BY DEF Announcements
    <3> QED BY <1>2, <3>1 DEF ActivatedInit
  <2>3. ASSUME NEW h \in Grants PROVE RowsFit(grant[h], job[h], announced[h])
    <3>1. grant[h].state # "none" =>
            announced[h] # <<>> /\ announced[h][Len(announced[h])] = grant[h].state
      BY <1>2, <2>3 DEF ActivatedInit
    <3> QED BY <1>2, <2>3, <3>1 DEF ActivatedInit, RowsFit, OpenJobs
  <2> QED BY <1>2, <2>1, <2>2, <2>3 DEF ActivatedInit, GrantInv
<1> QED BY <1>1, <1>2 DEF Init

-----------------------------------------------------------------------------
(* The rows a grant's operations write *)

\* The three rows about a grant, and their types.
LEMMA GrantRows ==
  ASSUME GrantInv, NEW g \in Grants
  PROVE  /\ grant[g] \in GrantRow /\ job[g] \in JobRow /\ announced[g] \in Announcements
         /\ RowsFit(grant[g], job[g], announced[g])
         /\ grant = [grant EXCEPT ![g] = grant[g]]
         /\ job = [job EXCEPT ![g] = job[g]]
         /\ announced = [announced EXCEPT ![g] = announced[g]]
BY DEF GrantInv

\* An announced event is the last one.
LEMMA AppendedLast ==
  ASSUME NEW an \in Announcements, NEW s \in LiveStates \cup TerminalStates
  PROVE  /\ Append(an, s) \in Announcements
         /\ Append(an, s) # <<>> /\ Append(an, s)[Len(Append(an, s))] = s
<1>1. an \in Seq(LiveStates \cup TerminalStates)
  BY DEF Announcements
<1>2. Append(an, s) \in Seq(LiveStates \cup TerminalStates) /\ Len(Append(an, s)) = Len(an) + 1
      /\ Append(an, s)[Len(an) + 1] = s
  BY <1>1
<1>3. Append(an, s) # <<>>
  BY <1>1, <1>2
<1> QED BY <1>2, <1>3 DEF Announcements

\* A worker takes a step of its own: it goes back to idle, or keeps a grant.
LEMMA WorkerMoves ==
  ASSUME GrantInv, NEW p \in Processes, NEW w \in WorkerRow,
         w.step # "idle" => w.grant \in Grants,
         worker' = [worker EXCEPT ![p] = w]
  PROVE  WorkersOK'
BY DEF GrantInv, WorkersOK

LEMMA IdleMoves ==
  ASSUME GrantInv, NEW p \in Processes, worker' = [worker EXCEPT ![p] = IdleWorker]
  PROVE  WorkersOK'
<1>1. IdleWorker \in WorkerRow /\ IdleWorker.step = "idle"
  BY DEF IdleWorker, WorkerRow
<1> QED BY <1>1, WorkerMoves

LEMMA SameWorkers == ASSUME GrantInv, UNCHANGED worker PROVE WorkersOK'
BY DEF GrantInv, WorkersOK

\* A live grant ends, with its event; its job is left alone or settled.
LEMMA EndGrantKeeps ==
  ASSUME GrantInv, NEW g \in Grants, grant[g].state \in LiveStates,
         NEW s \in TerminalStates, NEW jb \in JobRow,
         jb.state \in OpenJobs => jb.attempts < MaxAttempts,
         grant' = Moved(g, s), job' = [job EXCEPT ![g] = jb], EnqueueGrantEvent(g, s),
         WorkersOK', membership' \in BOOLEAN
  PROVE  GrantInv' /\ EndedKept
<1> DEFINE gr == [state |-> s, revision |-> grant[g].revision + 1, lapsed |-> FALSE]
           an == Append(announced[g], s)
<1>1. /\ grant[g] \in GrantRow /\ announced[g] \in Announcements
      /\ RowsFit(grant[g], job[g], announced[g])
  BY GrantRows
<1>2. grant[g].revision + 1 \in 0..MaxRevision + 2
  BY <1>1, GrantConstants DEF GrantRow, RowsFit, LiveStates
<1>3. gr \in GrantRow
  BY <1>2 DEF GrantRow
<1>4. an \in Announcements /\ an # <<>> /\ an[Len(an)] = s
  BY <1>1, AppendedLast
<1>5. gr.state = s /\ gr.state \notin {"none", "requested", "active"}
  BY DEF TerminalStates
<1>6. RowsFit(gr, jb, an)
  <2> HIDE DEF gr, an
  <2> QED BY <1>4, <1>5 DEF RowsFit
<1>7. grant' = [grant EXCEPT ![g] = gr] /\ announced' = [announced EXCEPT ![g] = an]
  BY DEF Moved, EnqueueGrantEvent, GrantInv
<1>8. grant[g].state \notin TerminalStates
  BY DEF LiveStates, TerminalStates
<1> HIDE DEF gr, an
<1> QED BY <1>3, <1>4, <1>6, <1>7, <1>8, OneGrantKeeps

\* Only the job of a grant changes.
LEMMA JobKeeps ==
  ASSUME GrantInv, NEW g \in Grants, NEW jb \in JobRow,
         RowsFit(grant[g], jb, announced[g]),
         job' = [job EXCEPT ![g] = jb], UNCHANGED <<grant, announced>>,
         WorkersOK', membership' \in BOOLEAN
  PROVE  GrantInv' /\ EndedKept
<1>1. /\ grant[g] \in GrantRow /\ announced[g] \in Announcements
      /\ grant' = [grant EXCEPT ![g] = grant[g]]
      /\ announced' = [announced EXCEPT ![g] = announced[g]]
  BY GrantRows
<1> QED BY <1>1, OneGrantKeeps

\* No row changes.
LEMMA NoRowKeeps ==
  ASSUME GrantInv, UNCHANGED <<grant, job, announced>>, WorkersOK', membership' \in BOOLEAN
  PROVE  GrantInv' /\ EndedKept
BY DEF GrantInv, WorkersOK, EndedKept


-----------------------------------------------------------------------------
(* One lemma per operation on the grants *)

\* A job settles and its lease is given up.
LEMMA SettledRow ==
  ASSUME GrantInv, NEW g \in Grants, NEW s \in {"completed", "failed"}
  PROVE  \E jb \in JobRow : /\ jb.state = s /\ jb.attempts = job[g].attempts
                            /\ Settled(g, s) = [job EXCEPT ![g] = jb]
<1> DEFINE jb == [state |-> s, holder |-> NoProcess, live |-> FALSE, attempts |-> job[g].attempts]
<1>1. job[g] \in JobRow
  BY GrantRows
<1>2. jb \in JobRow
  BY <1>1 DEF JobRow
<1> QED BY <1>2 DEF Settled

LEMMA CreateKeeps ==
  ASSUME GrantInv, NEW g \in Grants, CreateAccessGrant(g)
  PROVE  GrantInv' /\ EndedKept
<1> DEFINE gr == [state |-> "requested", revision |-> 1, lapsed |-> FALSE]
           jb == [job[g] EXCEPT !.state = "pending"]
           an == Append(announced[g], "requested")
<1>1. /\ grant[g] \in GrantRow /\ job[g] \in JobRow /\ announced[g] \in Announcements
      /\ RowsFit(grant[g], job[g], announced[g])
  BY GrantRows
<1>2. grant[g].state = "none" /\ job[g].attempts = 0
  BY <1>1 DEF CreateAccessGrant, RowsFit
<1>3. gr \in GrantRow
  BY GrantConstants DEF GrantRow, LiveStates
<1>4. jb \in JobRow /\ jb.state = "pending" /\ jb.attempts = 0
  BY <1>1, <1>2 DEF JobRow
<1>5. an \in Announcements /\ an # <<>> /\ an[Len(an)] = "requested"
  BY <1>1, AppendedLast DEF LiveStates
<1>6. RowsFit(gr, jb, an)
  <2>1. gr.state = "requested" /\ gr.revision = 1
    OBVIOUS
  <2> HIDE DEF gr, jb, an
  <2> QED BY <1>4, <1>5, <2>1, GrantConstants DEF RowsFit, OpenJobs
<1>7. /\ grant' = [grant EXCEPT ![g] = gr] /\ job' = [job EXCEPT ![g] = jb]
      /\ announced' = [announced EXCEPT ![g] = an]
  BY DEF CreateAccessGrant, EnqueueGrantEvent
<1>8. WorkersOK' /\ membership' \in BOOLEAN
  BY SameWorkers DEF CreateAccessGrant, GrantInv
<1>9. grant[g].state \notin TerminalStates
  BY <1>2 DEF TerminalStates
<1> HIDE DEF gr, jb, an
<1> QED BY <1>3, <1>4, <1>5, <1>6, <1>7, <1>8, <1>9, OneGrantKeeps

\* renew_access_grant and the passing of the expiry: the state stays.
LEMMA RenewKeeps ==
  ASSUME GrantInv, NEW g \in Grants, RenewAccessGrant(g) \/ GrantLapses(g)
  PROVE  GrantInv' /\ EndedKept
<1>1. /\ grant[g] \in GrantRow /\ job[g] \in JobRow /\ announced[g] \in Announcements
      /\ RowsFit(grant[g], job[g], announced[g])
  BY GrantRows
<1>2. WorkersOK' /\ membership' \in BOOLEAN
  BY SameWorkers DEF RenewAccessGrant, GrantLapses, GrantInv
<1>3. PICK gr \in GrantRow : /\ grant' = [grant EXCEPT ![g] = gr]
                             /\ gr.state = grant[g].state
                             /\ RowsFit(gr, job[g], announced[g])
  <2>1. CASE RenewAccessGrant(g)
    <3> DEFINE gr == [state |-> "active", revision |-> grant[g].revision + 1, lapsed |-> FALSE]
    <3>1. grant[g].state = "active" /\ grant[g].revision + 1 \in 0..MaxRevision + 2
          /\ grant[g].revision + 1 <= MaxRevision + 1
      BY <1>1, <2>1, GrantConstants DEF RenewAccessGrant, GrantRow
    <3>2. gr \in GrantRow
      BY <3>1 DEF GrantRow, LiveStates
    <3>3. RowsFit(gr, job[g], announced[g])
      BY <1>1, <3>1 DEF RowsFit
    <3> QED BY <2>1, <3>1, <3>2, <3>3 DEF RenewAccessGrant
  <2>2. CASE GrantLapses(g)
    <3> DEFINE gr == [grant[g] EXCEPT !.lapsed = TRUE]
    <3>1. gr \in GrantRow /\ gr.state = grant[g].state /\ gr.revision = grant[g].revision
      BY <1>1 DEF GrantRow
    <3>2. grant' = [grant EXCEPT ![g] = gr]
      BY <2>2 DEF GrantLapses
    <3> HIDE DEF gr
    <3>3. RowsFit(gr, job[g], announced[g])
      BY <1>1, <3>1 DEF RowsFit
    <3> QED BY <3>1, <3>2, <3>3
  <2> QED BY <2>1, <2>2
<1>4. job' = [job EXCEPT ![g] = job[g]] /\ announced' = [announced EXCEPT ![g] = announced[g]]
  BY GrantRows DEF RenewAccessGrant, GrantLapses
<1> QED BY <1>1, <1>2, <1>3, <1>4, OneGrantKeeps

LEMMA EndRowKeeps ==
  ASSUME GrantInv, NEW g \in Grants, RevokeGrantRow(g) \/ ExpireGrantRow(g)
  PROVE  GrantInv' /\ EndedKept
<1>1. /\ job[g] \in JobRow /\ RowsFit(grant[g], job[g], announced[g])
      /\ job' = [job EXCEPT ![g] = job[g]]
  BY GrantRows DEF RevokeGrantRow, ExpireGrantRow
<1>2. PICK s \in TerminalStates : grant' = Moved(g, s) /\ EnqueueGrantEvent(g, s)
  BY DEF RevokeGrantRow, ExpireGrantRow, TerminalStates
<1>3. grant[g].state \in LiveStates
  BY DEF RevokeGrantRow, ExpireGrantRow, LiveStates
<1>4. WorkersOK' /\ membership' \in BOOLEAN
  BY SameWorkers DEF RevokeGrantRow, ExpireGrantRow, GrantInv
<1>5. job[g].state \in OpenJobs => job[g].attempts < MaxAttempts
  BY <1>1 DEF RowsFit
<1> QED BY <1>1, <1>2, <1>3, <1>4, <1>5, EndGrantKeeps

\* revoke_environment_grants ends every live grant at once.
LEMMA RevokeAllKeeps ==
  ASSUME GrantInv, RevokeEnvironmentRows
  PROVE  GrantInv' /\ EndedKept
<1> DEFINE live == {g \in Grants : grant[g].state \in LiveStates}
           row(g) == [state |-> "revoked", revision |-> grant[g].revision + 1, lapsed |-> FALSE]
<1>1. ASSUME NEW g \in Grants
      PROVE  /\ grant'[g] = IF g \in live THEN row(g) ELSE grant[g]
             /\ announced'[g] = IF g \in live THEN Append(announced[g], "revoked") ELSE announced[g]
  BY DEF RevokeEnvironmentRows, Moved, GrantInv
<1>2. ASSUME NEW g \in Grants
      PROVE  /\ grant'[g] \in GrantRow /\ announced'[g] \in Announcements
             /\ RowsFit(grant'[g], job[g], announced'[g])
             /\ grant[g].state \in TerminalStates => grant'[g].state = grant[g].state
  <2>1. /\ grant[g] \in GrantRow /\ job[g] \in JobRow /\ announced[g] \in Announcements
        /\ RowsFit(grant[g], job[g], announced[g])
    BY GrantRows
  <2>2. CASE g \notin live
    BY <1>1, <2>1, <2>2
  <2>3. CASE g \in live
    <3>1. grant'[g] = row(g) /\ announced'[g] = Append(announced[g], "revoked")
      BY <1>1, <2>3
    <3>2. grant[g].state \in LiveStates /\ grant[g].state \notin TerminalStates
      BY <2>3 DEF LiveStates, TerminalStates
    <3>3. grant[g].revision + 1 \in 0..MaxRevision + 2
      BY <2>1, <3>2, GrantConstants DEF GrantRow, RowsFit, LiveStates
    <3>4. grant'[g] \in GrantRow /\ grant'[g].state = "revoked"
      BY <3>1, <3>3 DEF GrantRow, TerminalStates
    <3>5. /\ announced'[g] \in Announcements
          /\ announced'[g] # <<>> /\ announced'[g][Len(announced'[g])] = "revoked"
      BY <2>1, <3>1, AppendedLast DEF TerminalStates
    <3>6. RowsFit(grant'[g], job[g], announced'[g])
      BY <2>1, <3>4, <3>5 DEF RowsFit
    <3> QED BY <3>2, <3>4, <3>5, <3>6
  <2> QED BY <2>2, <2>3
<1>3. grant' \in [Grants -> GrantRow] /\ announced' \in [Grants -> Announcements]
  <2>1. grant' = [g \in Grants |-> grant'[g]] /\ announced' = [g \in Grants |-> announced'[g]]
    BY DEF RevokeEnvironmentRows
  <2> QED BY <1>2, <2>1
<1>4. job' = job /\ worker' = worker /\ membership' = membership
  BY DEF RevokeEnvironmentRows
<1>5. EndedKept
  BY <1>2 DEF EndedKept
<1> HIDE DEF live, row
<1> QED BY <1>2, <1>3, <1>4, <1>5 DEF GrantInv

LEMMA ClaimKeeps ==
  ASSUME GrantInv, NEW p \in Processes, NEW g \in Grants, ClaimActivation(p, g)
  PROVE  GrantInv' /\ EndedKept
<1> DEFINE jb == [state |-> "leased", holder |-> p, live |-> TRUE, attempts |-> job[g].attempts]
           w == [step |-> "claimed", grant |-> g, answer |-> "none"]
<1>1. job[g] \in JobRow /\ RowsFit(grant[g], job[g], announced[g])
  BY GrantRows
<1>2. w \in WorkerRow /\ w.grant \in Grants /\ worker' = [worker EXCEPT ![p] = w]
  BY DEF WorkerRow, ClaimActivation
<1>3. WorkersOK'
  <2> HIDE DEF w
  <2> QED BY <1>2, WorkerMoves
<1>4. jb \in JobRow /\ job' = [job EXCEPT ![g] = jb]
  BY <1>1 DEF JobRow, ClaimActivation
<1>5. RowsFit(grant[g], jb, announced[g])
  BY <1>1 DEF RowsFit, OpenJobs, ClaimActivation
<1>6. membership' \in BOOLEAN /\ UNCHANGED <<grant, announced>>
  BY DEF ClaimActivation, GrantInv
<1> HIDE DEF jb, w
<1> QED BY <1>3, <1>4, <1>5, <1>6, JobKeeps

LEMMA LeaseLapsesKeeps ==
  ASSUME GrantInv, NEW g \in Grants, LeaseLapses(g)
  PROVE  GrantInv' /\ EndedKept
<1> DEFINE jb == [job[g] EXCEPT !.live = FALSE]
<1>1. job[g] \in JobRow /\ RowsFit(grant[g], job[g], announced[g])
  BY GrantRows
<1>2. jb \in JobRow /\ jb.state = job[g].state /\ jb.attempts = job[g].attempts
  BY <1>1 DEF JobRow
<1>3. job' = [job EXCEPT ![g] = jb]
  BY DEF LeaseLapses
<1>4. WorkersOK' /\ membership' \in BOOLEAN /\ UNCHANGED <<grant, announced>>
  BY SameWorkers DEF LeaseLapses, GrantInv
<1> HIDE DEF jb
<1>5. RowsFit(grant[g], jb, announced[g])
  BY <1>1, <1>2 DEF RowsFit
<1> QED BY <1>2, <1>3, <1>4, <1>5, JobKeeps

\* A leased job settles, of a grant that is not requested any more.
LEMMA CompleteKeeps ==
  ASSUME GrantInv, NEW g \in Grants, grant[g].state # "requested", job[g].state = "leased",
         CompleteActivationJob(g), UNCHANGED <<grant, announced>>,
         WorkersOK', membership' \in BOOLEAN
  PROVE  GrantInv' /\ EndedKept
<1>1. PICK jb \in JobRow : /\ jb.state = "completed" /\ jb.attempts = job[g].attempts
                           /\ job' = [job EXCEPT ![g] = jb]
  BY SettledRow DEF CompleteActivationJob
<1>2. RowsFit(grant[g], job[g], announced[g])
  BY GrantRows
<1>3. RowsFit(grant[g], jb, announced[g])
  BY <1>1, <1>2 DEF RowsFit, OpenJobs
<1> QED BY <1>1, <1>3, JobKeeps

\* deny_grant_tx.
LEMMA DenyKeeps ==
  ASSUME GrantInv, NEW g \in Grants, grant[g].state = "requested", DenyGrantTx(g),
         WorkersOK', membership' \in BOOLEAN
  PROVE  GrantInv' /\ EndedKept
<1>1. PICK jb \in JobRow : /\ jb.state = "failed" /\ jb.attempts = job[g].attempts
                           /\ job' = [job EXCEPT ![g] = jb]
  BY SettledRow DEF DenyGrantTx
<1>2. grant[g].state \in LiveStates /\ "denied" \in TerminalStates
  BY DEF LiveStates, TerminalStates
<1>3. jb.state \notin OpenJobs
  BY <1>1 DEF OpenJobs
<1>4. grant' = Moved(g, "denied") /\ EnqueueGrantEvent(g, "denied")
  BY DEF DenyGrantTx
<1> QED BY <1>1, <1>2, <1>3, <1>4, EndGrantKeeps

\* The grant becomes active, under the lease.
LEMMA ActivatedKeeps ==
  ASSUME GrantInv, NEW g \in Grants, grant[g].state = "requested",
         grant' = Moved(g, "active"), CompleteActivationJob(g), EnqueueGrantEvent(g, "active"),
         WorkersOK', membership' \in BOOLEAN
  PROVE  GrantInv' /\ EndedKept
<1> DEFINE gr == [state |-> "active", revision |-> 2, lapsed |-> FALSE]
           an == Append(announced[g], "active")
<1>1. PICK jb \in JobRow : /\ jb.state = "completed" /\ jb.attempts = job[g].attempts
                           /\ job' = [job EXCEPT ![g] = jb]
  BY SettledRow DEF CompleteActivationJob
<1>2. announced[g] \in Announcements /\ RowsFit(grant[g], job[g], announced[g])
  BY GrantRows
<1>3. grant[g].revision + 1 = 2
  BY <1>2 DEF RowsFit
<1>4. grant' = [grant EXCEPT ![g] = gr] /\ announced' = [announced EXCEPT ![g] = an]
  BY <1>3 DEF Moved, EnqueueGrantEvent
<1>5. gr \in GrantRow
  BY GrantConstants DEF GrantRow, LiveStates
<1>6. an \in Announcements /\ an # <<>> /\ an[Len(an)] = "active"
  BY <1>2, AppendedLast DEF LiveStates
<1>7. gr.state = "active" /\ gr.revision <= MaxRevision + 1
  BY GrantConstants
<1> HIDE DEF gr, an
<1>8. RowsFit(gr, jb, an)
  BY <1>1, <1>6, <1>7 DEF RowsFit, OpenJobs
<1>9. grant[g].state \notin TerminalStates
  BY DEF TerminalStates
<1> QED BY <1>1, <1>4, <1>5, <1>6, <1>8, <1>9, OneGrantKeeps

\* retry_activation.
LEMMA RetryKeeps ==
  ASSUME GrantInv, NEW p \in Processes, RetryActivation(p)
  PROVE  GrantInv' /\ EndedKept
<1> DEFINE g == worker[p].grant
           jb == [state |-> IF job[g].attempts + 1 >= MaxAttempts THEN "failed" ELSE "retry",
                  holder |-> NoProcess, live |-> FALSE, attempts |-> job[g].attempts + 1]
<1>1. g \in Grants
  BY DEF GrantInv, RetryActivation
<1>2. WorkersOK' /\ membership' \in BOOLEAN /\ UNCHANGED <<grant, announced>>
  BY IdleMoves DEF RetryActivation, GrantInv
<1>3. CASE UNCHANGED job
  BY <1>2, <1>3, NoRowKeeps
<1>4. CASE /\ LockActivationLease(p, g) /\ grant[g].state = "requested"
           /\ job' = [job EXCEPT ![g] = jb]
  <2>1. job[g] \in JobRow /\ RowsFit(grant[g], job[g], announced[g])
    BY <1>1, GrantRows
  <2>2. job[g].attempts < MaxAttempts /\ job[g].attempts \in Nat
    BY <1>4, <2>1 DEF RowsFit, OpenJobs, LockActivationLease, JobRow
  <2>3. job[g].attempts + 1 \in 0..MaxAttempts
    BY <2>2, GrantConstants
  <2>4. jb \in JobRow
    BY <2>3 DEF JobRow
  <2>5. RowsFit(grant[g], jb, announced[g])
    BY <1>4, <2>1, <2>2, GrantConstants DEF RowsFit, OpenJobs
  <2> HIDE DEF jb
  <2> QED BY <1>1, <1>2, <1>4, <2>4, <2>5, JobKeeps
<1> QED BY <1>3, <1>4 DEF RetryActivation

\* Every step of a worker that has taken a job.
LEMMA WorkerStepKeeps ==
  ASSUME GrantInv, NEW p \in Processes, WorkerStep(p)
  PROVE  GrantInv' /\ EndedKept
<1>1. CASE RetryActivation(p)
  BY <1>1, RetryKeeps
<1>2. CASE \E a \in Answers : ResolveEligibility(p, a)
  <2>1. PICK a \in Answers : ResolveEligibility(p, a)
    BY <1>2
  <2> DEFINE w == [step |-> "answered", grant |-> worker[p].grant, answer |-> a]
  <2>2. worker[p].grant \in Grants
    BY <2>1 DEF ResolveEligibility, GrantInv
  <2>3. w \in WorkerRow /\ w.grant \in Grants /\ worker' = [worker EXCEPT ![p] = w]
    BY <2>1, <2>2 DEF WorkerRow, ResolveEligibility
  <2>4. WorkersOK'
    <3> HIDE DEF w
    <3> QED BY <2>3, WorkerMoves
  <2>5. membership' \in BOOLEAN /\ UNCHANGED <<grant, job, announced>>
    BY <2>1 DEF ResolveEligibility, GrantInv
  <2> QED BY <2>4, <2>5, NoRowKeeps
<1>3. CASE CompleteInactiveGrant(p) \/ ActivateGrant(p) \/ DenyGrant(p)
  <2>1. PICK g \in Grants : g = worker[p].grant
    BY <1>3 DEF CompleteInactiveGrant, ActivateGrant, DenyGrant, GrantInv
  <2>2. WorkersOK' /\ membership' \in BOOLEAN
    BY <1>3, IdleMoves DEF CompleteInactiveGrant, ActivateGrant, DenyGrant, GrantInv
  <2>3. \/ UNCHANGED <<grant, job, announced>>
        \/ /\ job[g].state = "leased" /\ grant[g].state # "requested"
           /\ CompleteActivationJob(g) /\ UNCHANGED <<grant, announced>>
        \/ grant[g].state = "requested" /\ DenyGrantTx(g)
        \/ /\ grant[g].state = "requested" /\ grant' = Moved(g, "active")
           /\ CompleteActivationJob(g) /\ EnqueueGrantEvent(g, "active")
    <3>1. CASE CompleteInactiveGrant(p)
      BY <2>1, <3>1 DEF CompleteInactiveGrant, LockActivationLease
    <3>2. CASE ActivateGrant(p)
      BY <2>1, <3>2 DEF ActivateGrant, LockActivationLease
    <3>3. CASE DenyGrant(p)
      BY <2>1, <3>3 DEF DenyGrant
    <3> QED BY <1>3, <3>1, <3>2, <3>3
  <2> QED BY <2>1, <2>2, <2>3, NoRowKeeps, CompleteKeeps, DenyKeeps, ActivatedKeeps
<1> QED BY <1>1, <1>2, <1>3 DEF WorkerStep

LEMMA GrantChangeKeeps ==
  ASSUME GrantInv, GrantChange
  PROVE  GrantInv' /\ EndedKept
<1>1. CASE GrantStep
  <2>1. CASE MembershipEnds
    <3>1. WorkersOK' /\ membership' \in BOOLEAN
      BY <2>1, SameWorkers DEF MembershipEnds
    <3> QED BY <2>1, <3>1, NoRowKeeps DEF MembershipEnds
  <2> QED BY <1>1, <2>1, RenewKeeps DEF GrantStep
<1>2. CASE ActivationStep
  BY <1>2, CreateKeeps, LeaseLapsesKeeps, ClaimKeeps, WorkerStepKeeps DEF ActivationStep
<1>3. CASE \E p \in Processes : /\ worker' = [worker EXCEPT ![p] = IdleWorker]
                                /\ UNCHANGED <<grant, job, membership, announced>>
  <2>1. WorkersOK' /\ membership' \in BOOLEAN
    BY <1>3, IdleMoves DEF GrantInv
  <2> QED BY <1>3, <2>1, NoRowKeeps
<1> QED BY <1>1, <1>2, <1>3, EndRowKeeps, RevokeAllKeeps DEF GrantChange


-----------------------------------------------------------------------------
(***************************************************************************)
(* SSH sessions.  The revisions a row may reach grow with its state, and   *)
(* an active one is opened under an active grant and a registered key.     *)
(***************************************************************************)
SessionRow == [state : {"none", "active", "terminating", "termination_overdue", "closed"},
               revision : 0..MaxSessionRevision + 3, grant : Grants \cup {NoGrant}]

ProcessRow == [phase : {"idle", "authorized", "running", "closing", "ended"},
               known : 0..MaxSessionRevision + 3]

RevisionFits(s) ==
  /\ s.state = "active" => s.revision <= MaxSessionRevision
  /\ s.state = "terminating" => s.revision <= MaxSessionRevision + 1
  /\ s.state = "termination_overdue" => s.revision <= MaxSessionRevision + 2

\* The session s is authorized by the rows of the grants and by the key.
Authorized(s) == s.state = "active" => /\ s.grant \in Grants
                                       /\ grant[s.grant].state = "active"
                                       /\ key = "registered"

GatewayInv ==
  /\ key \in {"absent", "registered", "revoked"}
  /\ authorization \in [Connections -> {"none", "issued", "consumed", "expired"}]
  /\ session \in [Connections -> SessionRow]
  /\ gateway \in [Connections -> ProcessRow]
  /\ \A c \in Connections : gateway[c].known <= MaxSessionRevision
  /\ \A c \in Connections : RevisionFits(session[c])
  /\ \A c \in Connections : Authorized(session[c])

\* The grants that are active stay so.
ActiveKept == \A g \in Grants : grant[g].state = "active" => grant'[g].state = "active"

LEMMA InitGateway == Init => GatewayInv
BY GatewayConstants, GrantConstants
   DEF Init, GatewayInit, GatewayInv, SessionRow, ProcessRow, NoSession, RevisionFits, Authorized

\* Neither an owner's renewal nor the decision of a request ends an active grant.
LEMMA PartKeepsActive ==
  ASSUME GrantInv, GrantStep \/ ActivationStep
  PROVE  ActiveKept
<1> SUFFICES ASSUME NEW h \in Grants, grant[h].state = "active"
             PROVE  grant'[h].state = "active"
  BY DEF ActiveKept
<1> USE DEF GrantInv
<1>1. ASSUME NEW g \in Grants, CreateAccessGrant(g) PROVE grant'[h].state = "active"
  BY <1>1 DEF CreateAccessGrant
<1>2. ASSUME NEW g \in Grants, RenewAccessGrant(g) PROVE grant'[h].state = "active"
  BY <1>2 DEF RenewAccessGrant
<1>3. ASSUME NEW g \in Grants, GrantLapses(g) PROVE grant'[h].state = "active"
  <2>1. grant[g] \in GrantRow /\ grant' = [grant EXCEPT ![g] = [grant[g] EXCEPT !.lapsed = TRUE]]
    BY <1>3 DEF GrantLapses
  <2> QED BY <2>1 DEF GrantRow
<1>4. ASSUME NEW p \in Processes, ActivateGrant(p) PROVE grant'[h].state = "active"
  <2>1. PICK g : g = worker[p].grant
    OBVIOUS
  <2>2. UNCHANGED grant \/ (grant[g].state = "requested" /\ \E s : grant' = Moved(g, s))
    BY <1>4, <2>1 DEF ActivateGrant, DenyGrantTx
  <2> QED BY <2>2 DEF Moved
<1>5. ASSUME NEW p \in Processes, DenyGrant(p) PROVE grant'[h].state = "active"
  <2>1. PICK g : g = worker[p].grant
    OBVIOUS
  <2>2. UNCHANGED grant \/ (grant[g].state = "requested" /\ \E s : grant' = Moved(g, s))
    BY <1>5, <2>1 DEF DenyGrant, DenyGrantTx
  <2> QED BY <2>2 DEF Moved
<1>6. ASSUME NEW p \in Processes, WorkerStep(p) PROVE grant'[h].state = "active"
  BY <1>4, <1>5, <1>6
     DEF WorkerStep, CompleteInactiveGrant, ResolveEligibility, RetryActivation
<1> QED BY <1>1, <1>2, <1>3, <1>6
        DEF GrantStep, ActivationStep, MembershipEnds, LeaseLapses, ClaimActivation

\* The grants change and no session does.
LEMMA SessionsLeft ==
  ASSUME GatewayInv, ActiveKept, UNCHANGED gatewayVars
  PROVE  GatewayInv'
BY DEF GatewayInv, ActiveKept, gatewayVars, Authorized

\* Sessions of one connection: its row is replaced by one that fits.
LEMMA OneSession ==
  ASSUME GatewayInv, NEW c \in Connections, NEW s \in SessionRow, RevisionFits(s),
         Authorized(s), session' = [session EXCEPT ![c] = s],
         NEW w \in ProcessRow, w.known <= MaxSessionRevision,
         gateway' = [gateway EXCEPT ![c] = w],
         authorization' \in [Connections -> {"none", "issued", "consumed", "expired"}],
         UNCHANGED <<key, grant>>
  PROVE  GatewayInv'
<1>1. session' \in [Connections -> SessionRow] /\ gateway' \in [Connections -> ProcessRow]
  BY DEF GatewayInv
<1>2. \A d \in Connections : gateway'[d].known <= MaxSessionRevision
  BY DEF GatewayInv
<1>3. \A d \in Connections : RevisionFits(session'[d])
  BY DEF GatewayInv
<1>4. \A d \in Connections : Authorized(session[d])' 
  <2> TAKE d \in Connections
  <2>1. session'[d] = IF d = c THEN s ELSE session[d]
    BY DEF GatewayInv
  <2> QED BY <2>1 DEF GatewayInv, Authorized
<1> QED BY <1>1, <1>2, <1>3, <1>4 DEF GatewayInv

\* Every session keeps its row or is moved on from where it is not closed to a state that is
\* not active; an active one that keeps its row stays authorized.
LEMMA SessionsEnd ==
  ASSUME GatewayInv, NEW ended \in SUBSET Connections, NEW s,
         \/ s = "terminating" /\ \A c \in ended : session[c].state = "active"
         \/ s = "termination_overdue" /\ \A c \in ended : session[c].state = "terminating",
         session' = [c \in Connections |-> IF c \in ended THEN SessionMoved(c, s) ELSE session[c]],
         \A c \in Connections \ ended : Authorized(session[c])',
         key' \in {"absent", "registered", "revoked"}, UNCHANGED <<authorization, gateway>>
  PROVE  GatewayInv'
<1>1. ASSUME NEW c \in Connections
      PROVE  session'[c] \in SessionRow /\ RevisionFits(session'[c]) /\ Authorized(session[c])'
  <2>1. session[c] \in SessionRow /\ RevisionFits(session[c]) /\ Authorized(session[c])
    BY DEF GatewayInv
  <2>2. CASE c \in ended
    <3>1. session'[c] = [state |-> s, revision |-> session[c].revision + 1,
                         grant |-> session[c].grant]
      BY <2>2 DEF SessionMoved
    <3>2. session[c].revision + 1 \in 0..MaxSessionRevision + 3
      BY <2>1, <2>2, GatewayConstants DEF SessionRow, RevisionFits
    <3>3. session'[c] \in SessionRow
      BY <2>1, <3>1, <3>2 DEF SessionRow
    <3>4. RevisionFits(session'[c])
      BY <2>1, <2>2, <3>1, GatewayConstants DEF RevisionFits, SessionRow
    <3>5. Authorized(session[c])'
      BY <3>1 DEF Authorized
    <3> QED BY <3>3, <3>4, <3>5
  <2>3. CASE c \notin ended
    BY <2>1, <2>3 DEF Authorized
  <2> QED BY <2>2, <2>3
<1>2. session' \in [Connections -> SessionRow]
  <2>1. session' = [c \in Connections |-> session'[c]]
    OBVIOUS
  <2> QED BY <1>1, <2>1
<1> QED BY <1>1, <1>2 DEF GatewayInv

\* The SSH half of ending grants: the sessions of the grants gs are terminated, the other
\* active grants stay active.
LEMMA GrantsEndSessions ==
  ASSUME GatewayInv, NEW gs, TerminateGatewaySessions(gs),
         \A g \in Grants \ gs : grant[g].state = "active" => grant'[g].state = "active",
         UNCHANGED <<key, authorization, gateway>>
  PROVE  GatewayInv'
<1> DEFINE ended == {c \in Connections : session[c].state = "active" /\ session[c].grant \in gs}
<1>1. session' = [c \in Connections |-> IF c \in ended THEN SessionMoved(c, "terminating")
                                                       ELSE session[c]]
  BY DEF TerminateGatewaySessions
<1>2. ASSUME NEW c \in Connections \ ended PROVE Authorized(session[c])'
  <2>1. session'[c] = session[c] /\ Authorized(session[c])
    BY <1>1 DEF GatewayInv
  <2> QED BY <2>1 DEF Authorized
<1>3. ended \in SUBSET Connections /\ \A c \in ended : session[c].state = "active"
  OBVIOUS
<1>4. key' \in {"absent", "registered", "revoked"}
  BY DEF GatewayInv
<1> HIDE DEF ended
<1> QED BY <1>1, <1>2, <1>3, <1>4, SessionsEnd


\* A step of the gateway on the rows of one connection, the grants standing still.
LEMMA GatewayStepKeeps ==
  ASSUME GrantInv, GatewayInv, GatewayStep, UNCHANGED grant
  PROVE  GatewayInv'
<1> DEFINE Same(c) == /\ session[c] \in SessionRow /\ RevisionFits(session[c])
                      /\ Authorized(session[c])
                      /\ session = [session EXCEPT ![c] = session[c]]
                      /\ gateway[c] \in ProcessRow /\ gateway[c].known <= MaxSessionRevision
                      /\ gateway = [gateway EXCEPT ![c] = gateway[c]]
<1>0. ASSUME NEW c \in Connections PROVE gateway[c].known \in 0..MaxSessionRevision
  BY GatewayConstants DEF GatewayInv, ProcessRow
<1>1. ASSUME NEW c \in Connections PROVE Same(c)
  BY DEF GatewayInv
<1>2. ASSUME NEW ph \in {"idle", "authorized", "running", "closing", "ended"},
             NEW n \in 0..MaxSessionRevision
      PROVE  \E w \in ProcessRow : w = [phase |-> ph, known |-> n] /\ w.known <= MaxSessionRevision
  <2> DEFINE w == [phase |-> ph, known |-> n]
  <2>1. w \in ProcessRow /\ w.known <= MaxSessionRevision
    BY GatewayConstants DEF ProcessRow
  <2> QED BY <2>1
<1>3. ASSUME NEW c \in Connections, SessionRefused(c) \/ TargetExits(c) PROVE GatewayInv'
  <2>1. PICK ph \in {"closing", "ended"}, n \in 0..MaxSessionRevision :
          gateway' = [gateway EXCEPT ![c] = [phase |-> ph, known |-> n]]
    BY <1>1, <1>3, GatewayConstants DEF SessionRefused, TargetExits, Phase, ProcessRow
  <2>2. session' = [session EXCEPT ![c] = session[c]] /\ UNCHANGED <<key, authorization>>
    BY <1>1, <1>3 DEF SessionRefused, TargetExits
  <2>3. PICK w \in ProcessRow : w = [phase |-> ph, known |-> n] /\ w.known <= MaxSessionRevision
    BY <1>2
  <2>4. authorization' \in [Connections -> {"none", "issued", "consumed", "expired"}]
    BY <2>2 DEF GatewayInv
  <2> QED BY <1>1, <2>1, <2>2, <2>3, <2>4, OneSession
<1>4. ASSUME NEW c \in Connections, AuthorizeSsh(c) \/ AuthorizationExpires(c) PROVE GatewayInv'
  <2>1. PICK w \in ProcessRow : /\ w.known <= MaxSessionRevision
                                /\ gateway' = [gateway EXCEPT ![c] = w]
    <3>1. CASE AuthorizeSsh(c)
      <4>1. gateway' = [gateway EXCEPT ![c] = [phase |-> "authorized", known |-> 0]]
        BY <3>1 DEF AuthorizeSsh, Phase
      <4>2. 0 \in 0..MaxSessionRevision
        BY GatewayConstants
      <4> QED BY <1>2, <4>1, <4>2
    <3>2. CASE AuthorizationExpires(c)
      BY <1>1, <3>2 DEF AuthorizationExpires
    <3> QED BY <1>4, <3>1, <3>2
  <2>2. session' = [session EXCEPT ![c] = session[c]] /\ UNCHANGED key
    BY <1>1, <1>4 DEF AuthorizeSsh, AuthorizationExpires
  <2>3. authorization' \in [Connections -> {"none", "issued", "consumed", "expired"}]
    BY <1>4 DEF AuthorizeSsh, AuthorizationExpires, GatewayInv
  <2> QED BY <1>1, <2>1, <2>2, <2>3, OneSession
<1>5. ASSUME NEW c \in Connections, NEW g \in Grants, CreateGatewaySession(c, g)
      PROVE  GatewayInv'
  <2> DEFINE s == [state |-> "active", revision |-> 1, grant |-> g]
  <2>1. s \in SessionRow /\ s.state = "active" /\ s.revision = 1 /\ s.grant = g
    BY GatewayConstants DEF SessionRow
  <2>2. session' = [session EXCEPT ![c] = s]
    BY <1>5 DEF CreateGatewaySession
  <2>3. PICK ph \in {"running", "ended"} :
          gateway' = [gateway EXCEPT ![c] = [phase |-> ph, known |-> 1]]
    BY <1>5 DEF CreateGatewaySession, Phase
  <2>4. 1 \in 0..MaxSessionRevision
    BY GatewayConstants
  <2>5. PICK w \in ProcessRow : w = [phase |-> ph, known |-> 1] /\ w.known <= MaxSessionRevision
    BY <1>2, <2>4
  <2> HIDE DEF s
  <2>6. RevisionFits(s) /\ Authorized(s)
    BY <1>5, <2>1, GatewayConstants DEF RevisionFits, Authorized, CreateGatewaySession, Usable
  <2>7. authorization' \in [Connections -> {"none", "issued", "consumed", "expired"}]
        /\ UNCHANGED key
    BY <1>5 DEF CreateGatewaySession, GatewayInv
  <2> QED BY <2>1, <2>2, <2>3, <2>5, <2>6, <2>7, OneSession
<1>6. ASSUME NEW c \in Connections, Heartbeat(c) \/ GatewayLost(c) \/ CloseGatewaySession(c)
      PROVE  GatewayInv'
  <2>1. PICK ph \in {"running", "closing", "ended"}, n \in 0..MaxSessionRevision :
          gateway' = [gateway EXCEPT ![c] = [phase |-> ph, known |-> n]]
    <3>1. CASE Heartbeat(c)
      BY <1>1, <3>1, GatewayConstants DEF Heartbeat, Phase, ProcessRow
    <3>2. CASE GatewayLost(c)
      BY <1>0, <3>2 DEF GatewayLost, Phase
    <3>3. CASE CloseGatewaySession(c)
      BY <1>0, <3>3 DEF CloseGatewaySession, Phase
    <3> QED BY <1>6, <3>1, <3>2, <3>3
  <2>2. PICK w \in ProcessRow : w = [phase |-> ph, known |-> n] /\ w.known <= MaxSessionRevision
    BY <1>2
  <2>3. \/ UNCHANGED session
        \/ /\ session[c].revision = gateway[c].known
           /\ gateway[c].known < MaxSessionRevision
           /\ session' = [session EXCEPT ![c] = SessionMoved(c, session[c].state)]
        \/ /\ session[c].revision = gateway[c].known
           /\ session' = [session EXCEPT ![c] = SessionMoved(c, "closed")]
    BY <1>6 DEF Heartbeat, GatewayLost, CloseGatewaySession, HeartbeatAccepted
  <2>4. PICK s \in SessionRow : /\ session' = [session EXCEPT ![c] = s]
                                /\ RevisionFits(s) /\ Authorized(s)
    <3>1. CASE UNCHANGED session
      BY <1>1, <3>1
    <3>2. ASSUME NEW st \in {session[c].state, "closed"},
                 session' = [session EXCEPT ![c] = SessionMoved(c, st)],
                 session[c].revision = gateway[c].known,
                 st # "closed" => gateway[c].known < MaxSessionRevision
          PROVE  \E s \in SessionRow : /\ session' = [session EXCEPT ![c] = s]
                                       /\ RevisionFits(s) /\ Authorized(s)
      <4> DEFINE s == [state |-> st, revision |-> session[c].revision + 1,
                       grant |-> session[c].grant]
      <4>1. session[c].revision + 1 \in 0..MaxSessionRevision + 1
            /\ (st # "closed" => session[c].revision + 1 <= MaxSessionRevision)
        BY <1>1, <3>2, GatewayConstants DEF SessionRow, ProcessRow
      <4>2. s \in SessionRow
        BY <1>1, <4>1, GatewayConstants DEF SessionRow
      <4>3. RevisionFits(s)
        BY <4>1, GatewayConstants DEF RevisionFits
      <4>4. Authorized(s)
        BY <1>1 DEF Authorized
      <4> QED BY <3>2, <4>2, <4>3, <4>4 DEF SessionMoved
    <3> QED BY <2>3, <3>1, <3>2
  <2>5. authorization' \in [Connections -> {"none", "issued", "consumed", "expired"}]
        /\ UNCHANGED key
    BY <1>6 DEF Heartbeat, GatewayLost, CloseGatewaySession, GatewayInv
  <2> QED BY <2>1, <2>2, <2>4, <2>5, OneSession
<1>7. CASE CreateSshKey
  <2>1. UNCHANGED <<authorization, session, gateway>> /\ key' = "registered"
    BY <1>7 DEF CreateSshKey
  <2>2. \A c \in Connections : Authorized(session[c])'
    BY <1>1, <2>1 DEF Authorized
  <2> QED BY <2>1, <2>2 DEF GatewayInv
<1>8. CASE DeleteSshKey
  <2> DEFINE ended == {c \in Connections : session[c].state = "active"}
  <2>1. session' = [c \in Connections |-> IF c \in ended THEN SessionMoved(c, "terminating")
                                                         ELSE session[c]]
    BY <1>8 DEF DeleteSshKey, TerminateSessionsForKey
  <2>2. ASSUME NEW c \in Connections \ ended PROVE Authorized(session[c])'
    BY <2>1 DEF Authorized
  <2>3. ended \in SUBSET Connections /\ \A c \in ended : session[c].state = "active"
    OBVIOUS
  <2>4. key' \in {"absent", "registered", "revoked"} /\ UNCHANGED <<authorization, gateway>>
    BY <1>8 DEF DeleteSshKey
  <2> HIDE DEF ended
  <2> QED BY <2>1, <2>2, <2>3, <2>4, SessionsEnd
<1> HIDE DEF Same
<1> QED BY <1>3, <1>4, <1>5, <1>6, <1>7, <1>8 DEF GatewayStep, GatewayProcessStep

-----------------------------------------------------------------------------
(***************************************************************************)
(* Consoles.  A console that may become active without another look at the *)
(* environment is already at the watermark, and while a redemption is in   *)
(* progress there is room for its console.                                 *)
(***************************************************************************)
CapabilityRow == [state : {"none", "issued", "consumed", "expired"},
                  grant : Grants \cup {NoGrant}, revision : 0..MaxRevision + 2,
                  environment : 0..MaxEnvironment]

ConsoleRow == [state : HeldStates \cup {"none", "closed"}, grant : Grants \cup {NoGrant},
               environment : 0..MaxEnvironment]

BridgeRow == [phase : {"none", "opened", "registered", "accepted", "relaying", "finishing",
                       "ended", "lost"},
              process : Processes \cup {NoProcess}, cancelled : BOOLEAN]

HeldConsoles == {k \in Consoles : console[k].state \in HeldStates}

\* The console is at the watermark if it is active, or about to be activated.
Current(k) ==
  console[k].state = "active" \/ (console[k].state = "opening" /\ bridge[k].phase = "accepted")
    => console[k].environment >= watermark

ConsoleRows ==
  /\ bff \in {"live", "ended"}
  /\ loggingOut \in SUBSET Processes
  /\ environment \in 1..MaxEnvironment
  /\ watermark \in 0..MaxEnvironment
  /\ capability \in [Consoles -> CapabilityRow]
  /\ redeeming \in [console : Consoles \cup {NoConsole}, process : Processes \cup {NoProcess}]
  /\ console \in [Consoles -> ConsoleRow]
  /\ bridge \in [Consoles -> BridgeRow]
  /\ watermark <= environment

ConsoleInv ==
  /\ ConsoleRows
  /\ \A k \in Consoles : Current(k)
  /\ IsFiniteSet(HeldConsoles)
  /\ Cardinality(HeldConsoles) <= MaxConsoles
  /\ redeeming # NoRedeeming => Cardinality(HeldConsoles) < MaxConsoles

LEMMA InitConsoles == Init => ConsoleInv
<1> SUFFICES ASSUME Init PROVE ConsoleInv
  OBVIOUS
<1> USE ConsoleConstants DEF Init, ConsoleInit, HeldStates, OpenStates
<1>1. ConsoleRows
  <2>1. /\ Spent("none") \in CapabilityRow /\ NoRow \in ConsoleRow /\ NoBridge \in BridgeRow
        /\ NoRedeeming \in [console : Consoles \cup {NoConsole},
                            process : Processes \cup {NoProcess}]
    BY GrantConstants
       DEF CapabilityRow, ConsoleRow, BridgeRow, Spent, NoRow, NoBridge, NoRedeeming
  <2> QED BY <2>1 DEF ConsoleRows
<1>2. \A k \in Consoles : Current(k)
  BY DEF Current, NoRow
<1>3. HeldConsoles = {}
  BY DEF HeldConsoles, NoRow
<1>4. IsFiniteSet(HeldConsoles) /\ Cardinality(HeldConsoles) = 0
  BY <1>3, FS_EmptySet
<1> QED BY <1>1, <1>2, <1>4 DEF ConsoleInv

\* No console is added to those held.
LEMMA NoneAdded ==
  ASSUME ConsoleInv, ConsoleRows', \A k \in Consoles : Current(k)',
         HeldConsoles' \subseteq HeldConsoles,
         redeeming' \in {redeeming, NoRedeeming}
  PROVE  ConsoleInv'
<1>1. /\ IsFiniteSet(HeldConsoles') /\ Cardinality(HeldConsoles') <= Cardinality(HeldConsoles)
      /\ Cardinality(HeldConsoles') \in Nat /\ Cardinality(HeldConsoles) \in Nat
  BY FS_Subset, FS_CardinalityType DEF ConsoleInv
<1> QED BY <1>1, ConsoleConstants DEF ConsoleInv, NoRedeeming

\* The rows of the consoles stand still, or only move away from the open states.
LEMMA RowsSettle ==
  ASSUME ConsoleInv, ConsoleRows', watermark' = watermark,
         \A k \in Consoles :
           \/ /\ console'[k] = console[k]
              /\ bridge'[k].phase = bridge[k].phase \/ bridge'[k].phase # "accepted"
           \/ /\ console'[k].state \notin OpenStates
              /\ console'[k].state \in HeldStates => console[k].state \in HeldStates,
         redeeming' \in {redeeming, NoRedeeming}
  PROVE  ConsoleInv'
<1>1. \A k \in Consoles : Current(k)'
  BY DEF ConsoleInv, Current, OpenStates
<1>2. HeldConsoles' \subseteq HeldConsoles
  BY DEF HeldConsoles
<1> QED BY <1>1, <1>2, NoneAdded


\* A row of a console changes its state only.
LEMMA RowTyped ==
  ASSUME ConsoleRows, NEW k \in Consoles, NEW s \in HeldStates \cup {"none", "closed"}
  PROVE  /\ Row(k, s) \in ConsoleRow /\ Row(k, s).state = s
         /\ Row(k, s).environment = console[k].environment
BY DEF ConsoleRows, ConsoleRow, Row

\* Open consoles are terminated, and bridges keep their phase.
LEMMA TerminatedRows ==
  ASSUME ConsoleRows, NEW ks, console' = Terminated(ks)
  PROVE  /\ console' \in [Consoles -> ConsoleRow]
         /\ \A k \in Consoles :
              \/ console'[k] = console[k] /\ ~(k \in ks /\ console[k].state \in OpenStates)
              \/ /\ console'[k].state \notin OpenStates
                 /\ console'[k].state \in HeldStates => console[k].state \in HeldStates
<1>1. ASSUME NEW k \in Consoles
      PROVE  /\ console'[k] \in ConsoleRow
             /\ \/ console'[k] = console[k] /\ ~(k \in ks /\ console[k].state \in OpenStates)
                \/ /\ console'[k].state \notin OpenStates
                   /\ console'[k].state \in HeldStates => console[k].state \in HeldStates
  <2>1. "terminating" \in HeldStates /\ "terminating" \notin OpenStates
        /\ OpenStates \subseteq HeldStates
    BY DEF HeldStates, OpenStates
  <2>2. Row(k, "terminating") \in ConsoleRow /\ Row(k, "terminating").state = "terminating"
    BY <2>1, RowTyped
  <2>3. console'[k] = IF k \in ks /\ console[k].state \in OpenStates
                        THEN Row(k, "terminating") ELSE console[k]
    BY DEF Terminated
  <2> QED BY <2>1, <2>2, <2>3 DEF ConsoleRows
<1>2. console' = [k \in Consoles |-> console'[k]]
  BY DEF Terminated
<1> QED BY <1>1, <1>2

LEMMA CancelledBridges ==
  ASSUME ConsoleRows, NEW p \in Processes, NEW ks, CancelMatching(p, ks)
  PROVE  /\ bridge' \in [Consoles -> BridgeRow]
         /\ \A k \in Consoles : bridge'[k].phase = bridge[k].phase
BY DEF ConsoleRows, BridgeRow, CancelMatching

LEMMA PhasedBridge ==
  ASSUME ConsoleRows, NEW k \in Consoles, NEW b \in BridgeRow,
         bridge' = [bridge EXCEPT ![k] = b]
  PROVE  /\ bridge' \in [Consoles -> BridgeRow] /\ bridge'[k] = b
         /\ \A j \in Consoles \ {k} : bridge'[j] = bridge[j]
BY DEF ConsoleRows

LEMMA PhaseTyped ==
  ASSUME ConsoleRows, NEW k \in Consoles,
         NEW ph \in {"registered", "accepted", "relaying", "finishing"}, BridgePhase(k, ph)
  PROVE  /\ bridge' \in [Consoles -> BridgeRow] /\ bridge'[k].phase = ph
         /\ \A j \in Consoles \ {k} : bridge'[j] = bridge[j]
<1> DEFINE b == [phase |-> ph, process |-> bridge[k].process, cancelled |-> bridge[k].cancelled]
<1>1. b \in BridgeRow /\ b.phase = ph
  BY DEF ConsoleRows, BridgeRow
<1>2. bridge' = [bridge EXCEPT ![k] = b]
  BY DEF BridgePhase
<1> HIDE DEF b
<1> QED BY <1>1, <1>2, PhasedBridge

\* The steps of a bridge.
LEMMA BridgeKeeps ==
  ASSUME ConsoleInv, NEW k \in Consoles, BridgeStep(k) \/ RelayEnds(k)
  PROVE  ConsoleInv'
<1>0. ConsoleRows /\ (\A j \in Consoles : Current(j)) /\ "closed" \notin OpenStates
      /\ "closed" \notin HeldStates
  BY DEF ConsoleInv, OpenStates, HeldStates
<1> DEFINE Rest == UNCHANGED <<bff, loggingOut, environment, watermark, capability, redeeming>>
<1>1. CASE RegisterBridge(k) \/ UpstreamFails(k) \/ RelayCancelled(k) \/ RelayEnds(k)
  <2>1. PICK ph \in {"registered", "finishing"} : BridgePhase(k, ph)
    BY <1>1 DEF RegisterBridge, UpstreamFails, RelayCancelled, RelayEnds
  <2>2. Rest /\ UNCHANGED console
    BY <1>1 DEF RegisterBridge, UpstreamFails, RelayCancelled, RelayEnds
  <2>3. /\ bridge' \in [Consoles -> BridgeRow] /\ bridge'[k].phase = ph
        /\ \A j \in Consoles \ {k} : bridge'[j] = bridge[j]
    BY <1>0, <2>1, PhaseTyped
  <2>4. ConsoleRows'
    BY <1>0, <2>2, <2>3 DEF ConsoleRows
  <2> QED BY <2>2, <2>3, <2>4, RowsSettle
<1>2. CASE UpstreamAccepts(k)
  <2>1. BridgePhase(k, "accepted") /\ Rest /\ UNCHANGED console
        /\ console[k].environment = environment
    BY <1>2 DEF UpstreamAccepts
  <2>2. /\ bridge' \in [Consoles -> BridgeRow]
        /\ \A j \in Consoles \ {k} : bridge'[j] = bridge[j]
    BY <1>0, <2>1, PhaseTyped
  <2>3. ConsoleRows'
    BY <1>0, <2>1, <2>2 DEF ConsoleRows
  <2>4. ASSUME NEW j \in Consoles PROVE Current(j)'
    <3>1. CASE j = k
      BY <1>0, <2>1, <3>1 DEF Current, ConsoleRows
    <3>2. CASE j # k
      BY <1>0, <2>1, <2>2, <3>2 DEF Current
    <3> QED BY <3>1, <3>2
  <2>5. HeldConsoles' = HeldConsoles
    BY <2>1 DEF HeldConsoles
  <2> QED BY <2>1, <2>3, <2>4, <2>5, NoneAdded
<1>3. CASE ActivateConsole(k)
  <2>1. CASE console[k].state = "opening"
    <3>1. SetRow(k, "active") /\ BridgePhase(k, "relaying") /\ Rest /\ bridge[k].phase = "accepted"
      BY <1>3, <2>1 DEF ActivateConsole
    <3>2. PICK r \in ConsoleRow : /\ r = Row(k, "active") /\ r.state = "active"
                                  /\ r.environment = console[k].environment
      BY <1>0, RowTyped DEF HeldStates, OpenStates
    <3>3. /\ bridge' \in [Consoles -> BridgeRow]
          /\ \A j \in Consoles \ {k} : bridge'[j] = bridge[j]
      BY <1>0, <3>1, PhaseTyped
    <3>4. /\ console' \in [Consoles -> ConsoleRow] /\ console'[k] = r
          /\ \A j \in Consoles \ {k} : console'[j] = console[j]
      BY <1>0, <3>1, <3>2 DEF SetRow, ConsoleRows
    <3>5. ConsoleRows'
      BY <1>0, <3>1, <3>3, <3>4 DEF ConsoleRows
    <3>6. ASSUME NEW j \in Consoles PROVE Current(j)'
      <4>1. CASE j = k
        BY <1>0, <2>1, <3>1, <3>2, <3>4, <4>1 DEF Current
      <4>2. CASE j # k
        BY <1>0, <3>1, <3>3, <3>4, <4>2 DEF Current
      <4> QED BY <4>1, <4>2
    <3>7. HeldConsoles' \subseteq HeldConsoles
      BY <2>1, <3>4 DEF HeldConsoles, HeldStates, OpenStates
    <3> QED BY <3>1, <3>5, <3>6, <3>7, NoneAdded
  <2>2. CASE console[k].state # "opening"
    <3>1. BridgePhase(k, "finishing") /\ Rest /\ UNCHANGED console
      BY <1>3, <2>2 DEF ActivateConsole
    <3>2. /\ bridge' \in [Consoles -> BridgeRow] /\ bridge'[k].phase = "finishing"
          /\ \A j \in Consoles \ {k} : bridge'[j] = bridge[j]
      BY <1>0, <3>1, PhaseTyped
    <3>3. ConsoleRows'
      BY <1>0, <3>1, <3>2 DEF ConsoleRows
    <3> QED BY <3>1, <3>2, <3>3, RowsSettle
  <2> QED BY <2>1, <2>2
<1>4. CASE CloseConsole(k)
  <2> DEFINE b == [phase |-> "ended", process |-> NoProcess, cancelled |-> FALSE]
  <2>1. b \in BridgeRow /\ b.phase = "ended" /\ bridge' = [bridge EXCEPT ![k] = b]
    BY <1>4 DEF BridgeRow, CloseConsole
  <2> HIDE DEF b
  <2>2. /\ bridge' \in [Consoles -> BridgeRow] /\ bridge'[k].phase = "ended"
        /\ \A j \in Consoles \ {k} : bridge'[j] = bridge[j]
    BY <1>0, <2>1, PhasedBridge
  <2>3. Rest /\ (SetRow(k, "closed") \/ UNCHANGED console)
    BY <1>4 DEF CloseConsole
  <2>4. PICK r \in ConsoleRow : r = Row(k, "closed") /\ r.state = "closed"
    BY <1>0, RowTyped
  <2>5. /\ console' \in [Consoles -> ConsoleRow]
        /\ console'[k] = console[k] \/ console'[k].state = "closed"
        /\ \A j \in Consoles \ {k} : console'[j] = console[j]
    BY <1>0, <2>3, <2>4 DEF SetRow, ConsoleRows
  <2>6. ConsoleRows'
    BY <1>0, <2>2, <2>3, <2>5 DEF ConsoleRows
  <2> QED BY <1>0, <2>2, <2>3, <2>5, <2>6, RowsSettle
<1> QED BY <1>1, <1>2, <1>3, <1>4 DEF BridgeStep

\* The count and the row of a redemption.
LEMMA RedeemKeeps ==
  ASSUME ConsoleInv, RedeemCommit \/ \E p \in Processes, k \in Consoles : RedeemCheck(p, k)
  PROVE  ConsoleInv'
<1>0. ConsoleRows /\ (\A j \in Consoles : Current(j))
  BY DEF ConsoleInv
<1>1. ASSUME NEW p \in Processes, NEW k \in Consoles, RedeemCheck(p, k) PROVE ConsoleInv'
  <2>1. /\ UNCHANGED <<bff, loggingOut, environment, watermark, capability, console, bridge>>
        /\ redeeming' = [console |-> k, process |-> p]
        /\ Cardinality(HeldConsoles) < MaxConsoles
    BY <1>1 DEF RedeemCheck, HeldConsoles
  <2>2. redeeming' \in [console : Consoles \cup {NoConsole}, process : Processes \cup {NoProcess}]
    BY <2>1
  <2>3. ConsoleRows' /\ HeldConsoles' = HeldConsoles /\ \A j \in Consoles : Current(j)'
    BY <1>0, <2>1, <2>2 DEF ConsoleRows, HeldConsoles, Current
  <2> QED BY <2>1, <2>3 DEF ConsoleInv
<1>2. CASE RedeemCommit
  <2>1. PICK k \in Consoles \cup {NoConsole}, p \in Processes \cup {NoProcess} :
          redeeming = [console |-> k, process |-> p]
    BY <1>0 DEF ConsoleRows
  <2> DEFINE c == Spent("consumed")
             r == [state |-> "opening", grant |-> capability[k].grant,
                   environment |-> capability[k].environment]
             b == [phase |-> "opened", process |-> p, cancelled |-> FALSE]
  <2>2. /\ capability' = [capability EXCEPT ![k] = c]
        /\ console' = [console EXCEPT ![k] = r]
        /\ bridge' = [bridge EXCEPT ![k] = b]
        /\ redeeming' = NoRedeeming /\ redeeming # NoRedeeming
        /\ UNCHANGED <<bff, loggingOut, environment, watermark>>
    BY <1>2, <2>1 DEF RedeemCommit
  <2>3. c \in CapabilityRow /\ b \in BridgeRow /\ b.phase = "opened"
    BY GrantConstants, ConsoleConstants DEF CapabilityRow, BridgeRow, Spent
  <2>4. k \in Consoles => r \in ConsoleRow /\ r.state = "opening"
    BY <1>0 DEF ConsoleRows, ConsoleRow, CapabilityRow, HeldStates, OpenStates
  <2> HIDE DEF c, r, b
  <2>5. /\ capability' \in [Consoles -> CapabilityRow] /\ console' \in [Consoles -> ConsoleRow]
        /\ bridge' \in [Consoles -> BridgeRow]
    BY <1>0, <2>2, <2>3, <2>4 DEF ConsoleRows
  <2>6. NoRedeeming \in [console : Consoles \cup {NoConsole}, process : Processes \cup {NoProcess}]
    BY DEF NoRedeeming
  <2>7. ConsoleRows'
    BY <1>0, <2>2, <2>5, <2>6 DEF ConsoleRows
  <2>8. ASSUME NEW j \in Consoles PROVE Current(j)'
    <3>1. CASE j = k
      <4>1. bridge'[j].phase = "opened" /\ console'[j].state = "opening"
        BY <1>0, <2>2, <2>3, <2>4, <3>1 DEF ConsoleRows
      <4> QED BY <4>1 DEF Current
    <3>2. CASE j # k
      <4>1. bridge'[j] = bridge[j] /\ console'[j] = console[j]
        BY <1>0, <2>2, <3>2 DEF ConsoleRows
      <4> QED BY <1>0, <2>2, <4>1 DEF Current
    <3> QED BY <3>1, <3>2
  <2>9. HeldConsoles' \subseteq HeldConsoles \cup {k}
    BY <1>0, <2>2 DEF HeldConsoles, ConsoleRows
  <2>10. IsFiniteSet(HeldConsoles) /\ Cardinality(HeldConsoles) < MaxConsoles
    BY <2>2 DEF ConsoleInv
  <2>11. /\ IsFiniteSet(HeldConsoles \cup {k})
         /\ Cardinality(HeldConsoles \cup {k}) <= Cardinality(HeldConsoles) + 1
    <3>1. CASE k \in HeldConsoles
      <4>1. HeldConsoles \cup {k} = HeldConsoles
        BY <3>1
      <4>2. Cardinality(HeldConsoles) \in Nat
        BY <2>10, FS_CardinalityType
      <4> QED BY <2>10, <4>1, <4>2
    <3>2. CASE k \notin HeldConsoles
      <4>1. /\ IsFiniteSet(HeldConsoles \cup {k})
            /\ Cardinality(HeldConsoles \cup {k}) = Cardinality(HeldConsoles) + 1
        BY <2>10, <3>2, FS_AddElement
      <4>2. Cardinality(HeldConsoles) \in Nat
        BY <2>10, FS_CardinalityType
      <4> QED BY <4>1, <4>2
    <3> QED BY <3>1, <3>2
  <2>12. /\ IsFiniteSet(HeldConsoles') /\ Cardinality(HeldConsoles') \in Nat
         /\ Cardinality(HeldConsoles') <= Cardinality(HeldConsoles \cup {k})
         /\ Cardinality(HeldConsoles \cup {k}) \in Nat /\ Cardinality(HeldConsoles) \in Nat
    BY <2>9, <2>10, <2>11, FS_Subset, FS_CardinalityType
  <2>13. Cardinality(HeldConsoles') <= MaxConsoles
    BY <2>10, <2>11, <2>12, ConsoleConstants
  <2> QED BY <2>2, <2>7, <2>8, <2>12, <2>13 DEF ConsoleInv
<1> QED BY <1>1, <1>2


\* Capabilities: nothing but their own rows change.
LEMMA CapabilityKeeps ==
  ASSUME GrantInv, ConsoleInv,
         \/ \E k : \E g \in Grants : IssueCapability(k, g)
         \/ \E k \in Consoles : CapabilityExpires(k)
  PROVE  ConsoleInv'
<1>0. ConsoleRows
  BY DEF ConsoleInv
<1>1. /\ capability' \in [Consoles -> CapabilityRow]
      /\ UNCHANGED <<bff, loggingOut, environment, watermark, redeeming, console, bridge>>
  <2>1. ASSUME NEW k, NEW g \in Grants, IssueCapability(k, g)
        PROVE  /\ capability' \in [Consoles -> CapabilityRow]
               /\ UNCHANGED <<bff, loggingOut, environment, watermark, redeeming, console, bridge>>
    <3> DEFINE c == [state |-> "issued", grant |-> g, revision |-> grant[g].revision,
                     environment |-> environment]
    <3>1. grant[g] \in GrantRow
      BY GrantRows
    <3>2. environment \in 0..MaxEnvironment
      BY <1>0, ConsoleConstants DEF ConsoleRows
    <3>3. c \in CapabilityRow
      BY <3>1, <3>2 DEF CapabilityRow, GrantRow
    <3> HIDE DEF c
    <3>4. capability' = [capability EXCEPT ![k] = c]
      BY <2>1 DEF IssueCapability, c
    <3>5. capability' \in [Consoles -> CapabilityRow]
      BY <1>0, <3>3, <3>4 DEF ConsoleRows
    <3> QED BY <2>1, <3>5 DEF IssueCapability
  <2>2. ASSUME NEW k \in Consoles, CapabilityExpires(k)
        PROVE  /\ capability' \in [Consoles -> CapabilityRow]
               /\ UNCHANGED <<bff, loggingOut, environment, watermark, redeeming, console, bridge>>
    <3>1. Spent("expired") \in CapabilityRow
      BY GrantConstants, ConsoleConstants DEF Spent, CapabilityRow
    <3> QED BY <1>0, <2>2, <3>1 DEF CapabilityExpires, ConsoleRows
  <2> QED BY <2>1, <2>2
<1>2. ConsoleRows'
  BY <1>0, <1>1 DEF ConsoleRows
<1> QED BY <1>1, <1>2, RowsSettle

\* Terminations that leave the watermark alone.
LEMMA TerminationKeeps ==
  ASSUME ConsoleInv, NEW ks, console' = Terminated(ks),
         bridge' \in [Consoles -> BridgeRow],
         \A k \in Consoles : bridge'[k].phase = bridge[k].phase,
         loggingOut' \in SUBSET Processes,
         UNCHANGED <<bff, environment, watermark, capability, redeeming>>
  PROVE  ConsoleInv'
<1>0. ConsoleRows
  BY DEF ConsoleInv
<1>1. /\ console' \in [Consoles -> ConsoleRow]
      /\ \A k \in Consoles :
           \/ console'[k] = console[k]
           \/ /\ console'[k].state \notin OpenStates
              /\ console'[k].state \in HeldStates => console[k].state \in HeldStates
  BY <1>0, TerminatedRows
<1>2. ConsoleRows'
  BY <1>0, <1>1 DEF ConsoleRows
<1> QED BY <1>1, <1>2, RowsSettle

\* A state event raises the watermark and terminates every open console behind it.
LEMMA ApplyKeeps ==
  ASSUME ConsoleInv, NEW p \in Processes, NEW seq \in 1..MaxEnvironment,
         ApplyEnvironmentState(p, seq)
  PROVE  ConsoleInv'
<1> DEFINE older == {k \in Consoles : /\ console[k].environment < seq
                                      /\ console[k].state \in OpenStates}
<1>0. ConsoleRows
  BY DEF ConsoleInv
<1>1. /\ watermark' = seq /\ seq \in 1..environment
      /\ console' = Terminated(older) /\ CancelMatching(p, older)
      /\ UNCHANGED <<bff, loggingOut, environment, capability, redeeming>>
  BY DEF ApplyEnvironmentState
<1>2. /\ console' \in [Consoles -> ConsoleRow]
      /\ \A k \in Consoles :
           \/ console'[k] = console[k] /\ ~(k \in older /\ console[k].state \in OpenStates)
           \/ /\ console'[k].state \notin OpenStates
              /\ console'[k].state \in HeldStates => console[k].state \in HeldStates
  <2> HIDE DEF older
  <2> QED BY <1>0, <1>1, TerminatedRows
<1>3. bridge' \in [Consoles -> BridgeRow]
  <2> HIDE DEF older
  <2> QED BY <1>0, <1>1, CancelledBridges
<1>4. ConsoleRows'
  <2> HIDE DEF older
  <2> QED BY <1>0, <1>1, <1>2, <1>3 DEF ConsoleRows
<1>5. ASSUME NEW k \in Consoles PROVE Current(k)'
  <2>1. CASE console'[k].state \in OpenStates
    <3>1. console'[k] = console[k] /\ k \notin older
      BY <1>2, <2>1
    <3>2. console[k].environment \in Nat /\ console[k].environment >= seq
      BY <1>0, <2>1, <3>1 DEF ConsoleRows, ConsoleRow
    <3> QED BY <1>1, <3>1, <3>2 DEF Current
  <2>2. CASE console'[k].state \notin OpenStates
    BY <2>2 DEF Current, OpenStates
  <2> QED BY <2>1, <2>2
<1>6. HeldConsoles' \subseteq HeldConsoles
  <2> HIDE DEF older
  <2> QED BY <1>2 DEF HeldConsoles
<1> HIDE DEF older
<1> QED BY <1>1, <1>4, <1>5, <1>6, NoneAdded

\* A step on the rows of the consoles, the grants standing still.
LEMMA ConsoleStepKeeps ==
  ASSUME GrantInv, ConsoleInv, NEW ks, ConsoleStep(ks)
  PROVE  ConsoleInv'
<1>0. ConsoleRows
  BY DEF ConsoleInv
<1>1. CASE \E k \in ks, g \in Grants : IssueCapability(k, g)
  BY <1>1, CapabilityKeeps
<1>2. CASE \E k \in Consoles : CapabilityExpires(k) \/ BridgeStep(k) \/ RelayEnds(k)
  BY <1>2, CapabilityKeeps, BridgeKeeps
<1>3. CASE RedeemCommit \/ \E p \in Processes, k \in Consoles : RedeemCheck(p, k)
  BY <1>3, RedeemKeeps
<1>4. CASE BffLapses \/ \E p \in Processes : LogoutRevoke(p)
  <2>1. /\ bff' = "ended" /\ loggingOut' \in SUBSET Processes
        /\ UNCHANGED <<environment, watermark, capability, redeeming, console, bridge>>
    BY <1>0, <1>4 DEF BffLapses, LogoutRevoke, ConsoleRows
  <2>2. ConsoleRows'
    BY <1>0, <2>1 DEF ConsoleRows
  <2> QED BY <2>1, <2>2, RowsSettle
<1>5. CASE ReconcileIneligible
  <2>1. /\ bridge' \in [Consoles -> BridgeRow] /\ loggingOut' \in SUBSET Processes
        /\ \A k \in Consoles : bridge'[k].phase = bridge[k].phase
    BY <1>0, <1>5 DEF ReconcileIneligible, ConsoleRows
  <2> QED BY <1>5, <2>1, TerminationKeeps DEF ReconcileIneligible
<1>6. ASSUME NEW p \in Processes, TerminateBffSessions(p) PROVE ConsoleInv'
  <2>1. CancelMatching(p, Consoles)
    BY <1>6 DEF TerminateBffSessions
  <2>2. /\ bridge' \in [Consoles -> BridgeRow]
        /\ \A k \in Consoles : bridge'[k].phase = bridge[k].phase
    BY <1>0, <2>1, CancelledBridges
  <2>3. loggingOut' \in SUBSET Processes
    BY <1>0, <1>6 DEF TerminateBffSessions, ConsoleRows
  <2> QED BY <1>6, <2>2, <2>3, TerminationKeeps DEF TerminateBffSessions
<1>7. ASSUME NEW p \in Processes, CancelOwnedTerminating(p) PROVE ConsoleInv'
  <2>1. PICK owned : CancelMatching(p, owned)
    BY <1>7 DEF CancelOwnedTerminating
  <2>2. /\ bridge' \in [Consoles -> BridgeRow]
        /\ \A k \in Consoles : bridge'[k].phase = bridge[k].phase
    BY <1>0, <2>1, CancelledBridges
  <2>3. UNCHANGED <<bff, loggingOut, environment, watermark, capability, redeeming, console>>
    BY <1>7 DEF CancelOwnedTerminating
  <2>4. ConsoleRows'
    BY <1>0, <2>2, <2>3 DEF ConsoleRows
  <2> QED BY <2>2, <2>3, <2>4, RowsSettle
<1> QED BY <1>1, <1>2, <1>3, <1>4, <1>5, <1>6, <1>7, ApplyKeeps DEF ConsoleStep

-----------------------------------------------------------------------------
(* The whole *)

AccessInv ==
  /\ GrantInv /\ GatewayInv /\ ConsoleInv
  /\ client \in Clients /\ stops \in 0..MaxStops

LEMMA InitAccess == Init => AccessInv
BY InitGrants, InitGateway, InitConsoles, StopsConstant DEF AccessInv, Init

\* The consoles' half and the SSH half of ending the grants gs.
LEMMA EndingKeeps ==
  ASSUME AccessInv, NEW p \in Processes, NEW gs, TerminateSessionsForGrants(p, gs),
         \A g \in Grants \ gs : grant[g].state = "active" => grant'[g].state = "active"
  PROVE  GatewayInv' /\ ConsoleInv'
<1>1. GatewayInv'
  BY GrantsEndSessions DEF AccessInv, TerminateSessionsForGrants
<1>2. /\ bridge' \in [Consoles -> BridgeRow]
      /\ \A k \in Consoles : bridge'[k].phase = bridge[k].phase
  BY CancelledBridges DEF AccessInv, ConsoleInv, TerminateSessionsForGrants
<1>3. loggingOut' \in SUBSET Processes
  BY DEF AccessInv, ConsoleInv, ConsoleRows, TerminateSessionsForGrants
<1>4. ConsoleInv'
  BY <1>2, <1>3, TerminationKeeps DEF AccessInv, TerminateSessionsForGrants
<1> QED BY <1>1, <1>4

LEMMA OverdueKeeps ==
  ASSUME AccessInv, NEW cs \in SUBSET Connections, NEW ks \in SUBSET Consoles, MarkOverdue(cs, ks)
  PROVE  GatewayInv' /\ ConsoleInv'
<1>1. GatewayInv'
  <2>1. /\ session' = [c \in Connections |-> IF c \in cs THEN SessionMoved(c, "termination_overdue")
                                                         ELSE session[c]]
        /\ \A c \in cs : session[c].state = "terminating"
        /\ UNCHANGED <<key, authorization, gateway, grant>>
    BY DEF MarkOverdue, MarkGatewayOverdue, grantVars
  <2>2. ASSUME NEW c \in Connections \ cs PROVE Authorized(session[c])'
    BY <2>1 DEF AccessInv, GatewayInv, Authorized
  <2>3. key' \in {"absent", "registered", "revoked"}
    BY <2>1 DEF AccessInv, GatewayInv
  <2> QED BY <2>1, <2>2, <2>3, SessionsEnd DEF AccessInv
<1>2. ConsoleInv'
  <2>0. ConsoleRows
    BY DEF AccessInv, ConsoleInv
  <2>1. "termination_overdue" \in HeldStates \ OpenStates /\ "terminating" \in HeldStates
    BY DEF HeldStates, OpenStates
  <2>2. ASSUME NEW k \in Consoles
        PROVE  /\ console'[k] \in ConsoleRow
               /\ \/ console'[k] = console[k]
                  \/ /\ console'[k].state \notin OpenStates
                     /\ console'[k].state \in HeldStates => console[k].state \in HeldStates
    <3>1. console'[k] = IF k \in ks THEN Row(k, "termination_overdue") ELSE console[k]
      BY DEF MarkOverdue, MarkConsoleOverdue
    <3>2. /\ Row(k, "termination_overdue") \in ConsoleRow
          /\ Row(k, "termination_overdue").state = "termination_overdue"
      BY <2>0, <2>1, RowTyped
    <3>3. k \in ks => console[k].state = "terminating"
      BY DEF MarkOverdue
    <3> QED BY <2>0, <2>1, <3>1, <3>2, <3>3 DEF ConsoleRows
  <2>3. console' \in [Consoles -> ConsoleRow]
    <3>1. console' = [k \in Consoles |-> console'[k]]
      BY DEF MarkOverdue, MarkConsoleOverdue
    <3> QED BY <2>2, <3>1
  <2>4. UNCHANGED <<bff, loggingOut, environment, watermark, capability, redeeming, bridge>>
    BY DEF MarkOverdue
  <2>5. ConsoleRows'
    BY <2>0, <2>3, <2>4 DEF ConsoleRows
  <2> QED BY <2>2, <2>4, <2>5, RowsSettle DEF AccessInv
<1> QED BY <1>1, <1>2

\* A stopped process loses its bridges and its redemption.
LEMMA LostKeeps ==
  ASSUME ConsoleInv, NEW p \in Processes, BridgesLost(p)
  PROVE  ConsoleInv'
<1>0. ConsoleRows
  BY DEF ConsoleInv
<1>1. /\ bridge' \in [Consoles -> BridgeRow]
      /\ \A k \in Consoles : bridge'[k].phase = bridge[k].phase \/ bridge'[k].phase # "accepted"
  BY <1>0 DEF BridgesLost, ConsoleRows, BridgeRow
<1>2. redeeming' \in {redeeming, NoRedeeming} /\ loggingOut' \in SUBSET Processes
      /\ UNCHANGED <<bff, environment, watermark, capability, console>>
  BY <1>0 DEF BridgesLost, ConsoleRows
<1>3. redeeming' \in [console : Consoles \cup {NoConsole}, process : Processes \cup {NoProcess}]
  BY <1>0, <1>2 DEF ConsoleRows, NoRedeeming
<1>4. ConsoleRows'
  BY <1>0, <1>1, <1>2, <1>3 DEF ConsoleRows
<1> QED BY <1>1, <1>2, <1>4, RowsSettle

LEMMA SameConsoles == ASSUME ConsoleInv, UNCHANGED consoleVars PROVE ConsoleInv'
<1>1. ConsoleRows' /\ UNCHANGED <<console, bridge, watermark, redeeming>>
  BY DEF ConsoleInv, ConsoleRows, consoleVars
<1> QED BY <1>1, RowsSettle

LEMMA SameGrants == ASSUME GrantInv, UNCHANGED grantVars PROVE GrantInv' /\ EndedKept /\ ActiveKept
BY DEF GrantInv, grantVars, EndedKept, ActiveKept

LEMMA NextAccess == ASSUME AccessInv, [Next]_vars PROVE AccessInv' /\ EndedKept
<1>0. GrantInv /\ GatewayInv /\ ConsoleInv /\ client \in Clients /\ stops \in 0..MaxStops
  BY DEF AccessInv
<1>1. CASE PartStep /\ UNCHANGED <<client, stops>>
  <2>1. CASE (GrantStep \/ ActivationStep) /\ UNCHANGED <<gatewayVars, consoleVars>>
    <3>1. GrantInv' /\ EndedKept /\ ActiveKept
      BY <1>0, <2>1, GrantChangeKeeps, PartKeepsActive DEF GrantChange
    <3>2. GatewayInv'
      BY <1>0, <2>1, <3>1, SessionsLeft
    <3>3. ConsoleInv'
      BY <1>0, <2>1, SameConsoles
    <3> QED BY <1>0, <1>1, <3>1, <3>2, <3>3 DEF AccessInv
  <2>2. CASE GatewayStep /\ UNCHANGED <<grantVars, consoleVars>>
    <3>1. GatewayInv'
      BY <1>0, <2>2, GatewayStepKeeps DEF grantVars
    <3> QED BY <1>0, <1>1, <2>2, <3>1, SameGrants, SameConsoles DEF AccessInv
  <2>3. CASE (\E ks : ConsoleStep(ks)) /\ UNCHANGED <<grantVars, gatewayVars>>
    <3>1. ConsoleInv'
      BY <1>0, <2>3, ConsoleStepKeeps
    <3> QED BY <1>0, <1>1, <2>3, <3>1, SameGrants, SessionsLeft DEF AccessInv
  <2>4. CASE EnvironmentMoves /\ UNCHANGED <<grantVars, gatewayVars>>
    <3>1. ConsoleRows' /\ UNCHANGED <<watermark, console, bridge, redeeming>>
      BY <1>0, <2>4, ConsoleConstants DEF EnvironmentMoves, ConsoleInv, ConsoleRows
    <3>2. ConsoleInv'
      BY <1>0, <3>1, RowsSettle
    <3> QED BY <1>0, <1>1, <2>4, <3>2, SameGrants, SessionsLeft DEF AccessInv
  <2> QED BY <1>1, <2>1, <2>2, <2>3, <2>4 DEF PartStep
<1>2. CASE EndingStep /\ UNCHANGED <<client, stops>>
  <2>1. ASSUME NEW p \in Processes, NEW g \in Grants, RevokeAccessGrant(p, g) \/ ExpireGrant(p, g)
        PROVE  AccessInv' /\ EndedKept
    <3>1. (RevokeGrantRow(g) \/ ExpireGrantRow(g)) /\ TerminateSessionsForGrants(p, {g})
      BY <2>1 DEF RevokeAccessGrant, ExpireGrant
    <3>2. GrantInv' /\ EndedKept
      BY <1>0, <3>1, EndRowKeeps
    <3>3. \A h \in Grants \ {g} : grant[h].state = "active" => grant'[h].state = "active"
      BY <1>0, <3>1 DEF RevokeGrantRow, ExpireGrantRow, Moved, GrantInv
    <3>4. GatewayInv' /\ ConsoleInv'
      BY <3>1, <3>3, EndingKeeps
    <3> QED BY <1>0, <1>2, <3>2, <3>4 DEF AccessInv
  <2>2. ASSUME NEW p \in Processes, RevokeEnvironmentGrants(p) PROVE AccessInv' /\ EndedKept
    <3>1. PICK gs : /\ gs = {g \in Grants : grant[g].state \in LiveStates}
                    /\ TerminateSessionsForGrants(p, gs)
      BY <2>2 DEF RevokeEnvironmentGrants
    <3>2. RevokeEnvironmentRows
      BY <2>2 DEF RevokeEnvironmentGrants
    <3>3. GrantInv' /\ EndedKept
      BY <1>0, <3>2, RevokeAllKeeps
    <3>4. \A h \in Grants \ gs : grant[h].state = "active" => grant'[h].state = "active"
      BY <3>1 DEF LiveStates
    <3>5. GatewayInv' /\ ConsoleInv'
      BY <3>1, <3>4, EndingKeeps
    <3> QED BY <1>0, <1>2, <3>3, <3>5 DEF AccessInv
  <2>3. ASSUME NEW cs \in SUBSET Connections, NEW ks \in SUBSET Consoles, MarkOverdue(cs, ks)
        PROVE  AccessInv' /\ EndedKept
    <3>1. UNCHANGED grantVars
      BY <2>3 DEF MarkOverdue
    <3> QED BY <1>0, <1>2, <2>3, <3>1, OverdueKeeps, SameGrants DEF AccessInv
  <2> QED BY <1>2, <2>1, <2>2, <2>3 DEF EndingStep
<1>3. ASSUME NEW p \in Processes, ProcessStops(p), UNCHANGED client PROVE AccessInv' /\ EndedKept
  <2>1. GrantInv' /\ EndedKept /\ ActiveKept
    <3>1. GrantChange /\ UNCHANGED grant
      BY <1>3 DEF ProcessStops, GrantChange
    <3> QED BY <1>0, <3>1, GrantChangeKeeps DEF ActiveKept
  <2>2. GatewayInv'
    BY <1>0, <1>3, <2>1, SessionsLeft DEF ProcessStops
  <2>3. ConsoleInv'
    BY <1>0, <1>3, LostKeeps DEF ProcessStops
  <2>4. stops' \in 0..MaxStops
    BY <1>0, <1>3, StopsConstant DEF ProcessStops
  <2> QED BY <1>0, <1>3, <2>1, <2>2, <2>3, <2>4 DEF AccessInv
<1>4. CASE UNCHANGED vars
  BY <1>0, <1>4, SameGrants, SessionsLeft, SameConsoles DEF vars, AccessInv
<1> QED BY <1>1, <1>2, <1>3, <1>4 DEF Next

\* The invariant holds the properties.
LEMMA AccessImplies == AccessInv => SessionsAuthorized /\ GrantsFollowed
<1> SUFFICES ASSUME AccessInv PROVE SessionsAuthorized /\ GrantsFollowed
  OBVIOUS
<1>0. GrantInv /\ GatewayInv /\ ConsoleInv /\ ConsoleRows
  BY DEF AccessInv, ConsoleInv
<1>1. GrantTypeOK
  BY <1>0 DEF GrantInv, GrantTypeOK, GrantRow, JobRow, WorkerRow, Announcements
<1>2. GatewayTypeOK
  BY <1>0 DEF GatewayInv, GatewayTypeOK, SessionRow, ProcessRow
<1>3. ConsoleTypeOK
  BY <1>0 DEF ConsoleRows, ConsoleTypeOK, CapabilityRow, ConsoleRow, BridgeRow
<1>4. TypeOK
  BY <1>1, <1>2, <1>3 DEF TypeOK, AccessInv
<1>5. SshUnderLiveGrant
  BY <1>0 DEF GatewayInv, Authorized, SshUnderLiveGrant
<1>6. ActiveConsoleCurrent
  BY <1>0 DEF ConsoleInv, Current, ActiveConsoleCurrent
<1>7. CapacityHeld
  BY <1>0 DEF ConsoleInv, HeldConsoles, CapacityHeld
<1>8. RequestPursued
  BY <1>0 DEF GrantInv, RowsFit, OpenJobs, RequestPursued
<1>9. AnnouncedFollows
  BY <1>0 DEF GrantInv, RowsFit, AnnouncedFollows
<1> QED BY <1>4, <1>5, <1>6, <1>7, <1>8, <1>9 DEF SessionsAuthorized, GrantsFollowed

\* However many processes, clients and connections there are, and in whatever order they
\* act: an SSH session is active only under an active grant and a key that is not revoked,
\* a console is active only at the newest environment revision applied, and
\* max_console_sessions is never exceeded.
THEOREM SessionsAlwaysAuthorized == Spec => []SessionsAuthorized
<1>1. AccessInv /\ [Next]_vars => AccessInv'
  BY NextAccess
<1> QED BY InitAccess, <1>1, AccessImplies, PTL DEF Spec

\* A requested grant always has a job that will decide it or has used up its attempts, and
\* the last event of a grant announces the state of its row.
THEOREM GrantsAlwaysFollowed == Spec => []GrantsFollowed
<1>1. AccessInv /\ [Next]_vars => AccessInv'
  BY NextAccess
<1> QED BY InitAccess, <1>1, AccessImplies, PTL DEF Spec

\* No step takes a grant out of denied, expired or revoked: neither the decision of a worker
\* that took its job before, nor a renewal.
THEOREM EndedGrantsAlwaysStay == Spec => EndedGrantsStay
<1>1. AccessInv /\ [Next]_vars => AccessInv'
  BY NextAccess
<1>2. AccessInv /\ [Next]_vars =>
        [\A g \in Grants : grant[g].state \in TerminalStates =>
                             grant'[g].state = grant[g].state]_vars
  BY NextAccess DEF EndedKept
<1> QED BY InitAccess, <1>1, <1>2, PTL DEF Spec, EndedGrantsStay


=============================================================================
