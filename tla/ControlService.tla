--------------------------- MODULE ControlService ---------------------------
(***************************************************************************)
(* The Control Service: uploads of packages, the projections of agent      *)
(* runs, candidates and their releases, the delivery of releases to the    *)
(* Environment Service, and the events of a course.  These share no row    *)
(* that two of them change, so that each behaviour is of one of them.      *)
(***************************************************************************)
EXTENDS ReleaseDelivery, PackageUploads, RunProjections, CandidateReleases, CourseEvents

VARIABLE part       \* what the behaviour is about

Parts == {"delivery", "uploads", "runs", "candidates", "events"}

controlVars == <<vars, uploadVars, runVars, releaseVars, courseVars, part>>

\* Every table, message and local state has its type.
ControlTypeOK ==
  /\ TypeOK /\ UploadTypeOK /\ RunTypeOK /\ ReleaseTypeOK /\ CourseTypeOK
  /\ part \in Parts

ControlInit ==
  /\ Init /\ UploadInit /\ RunInit /\ ReleaseInit /\ CourseInit
  /\ part \in Parts

OfDelivery(A) ==
  part = "delivery" /\ A /\ UNCHANGED <<uploadVars, runVars, releaseVars, courseVars, part>>
OfUploads(A) ==
  part = "uploads" /\ A /\ UNCHANGED <<vars, runVars, releaseVars, courseVars, part>>
OfRuns(A) ==
  part = "runs" /\ A /\ UNCHANGED <<vars, uploadVars, releaseVars, courseVars, part>>
OfCandidates(A) ==
  part = "candidates" /\ A /\ UNCHANGED <<vars, uploadVars, runVars, courseVars, part>>
OfEvents(A) ==
  part = "events" /\ A /\ UNCHANGED <<vars, uploadVars, runVars, releaseVars, part>>

ControlNext ==
  \/ OfDelivery(Next)
  \/ OfUploads(UploadStep)
  \/ OfRuns(RunStep)
  \/ OfCandidates(ReleaseStep)
  \/ OfEvents(CourseStep)

\* Processes go on and are started again when they end; JetStream delivers a message as
\* often as its consumer's limit allows; a client repeats a request that was not answered
\* and opens its event stream again; a lease runs out.
Fairness ==
  /\ \A d \in Dispatchers : WF_controlVars(OfDelivery(DispatcherStep(d)))
  /\ \A c \in Consumers : WF_controlVars(OfDelivery(ConsumerStep(c)))
  /\ \A m \in Messages : WF_controlVars(OfDelivery(\E c \in Consumers : Receive(c, m)))
  /\ \A p \in Completers : WF_controlVars(OfUploads(CompleterStep(p)))
  /\ WF_controlVars(OfUploads(CompletionLeaseLapses \/ \E p \in Completers : ReclaimCompletion(p)))
  /\ \A r \in Clients : WF_controlVars(OfEvents(ReaderStep(r)))

ControlSpec == ControlInit /\ [][ControlNext]_controlVars /\ Fairness

-----------------------------------------------------------------------------
(* The properties of the service *)

\* What Control stores of others' work is what they did: packages hold verified files, runs and
\* builds have the state their owner gave them.
ProjectionsSound ==
  /\ ControlTypeOK
  /\ PackageWhole /\ ProjectionCurrent /\ BuildOfApproval /\ BuildVerdictHolds

\* No step of a worker that was overtaken, of a late answer or of a second teacher takes back
\* what is stored, and a release is current when it is committed.
ControlSteps == TakenOverStays /\ ProjectionAdvances /\ ReleaseCurrent /\ DecisionStands

\* Releases, uploads and course events arrive, a release event that used up its deliveries
\* excepted.
ControlProgresses == Delivered /\ CompletionSettles /\ EventReaches

=============================================================================
