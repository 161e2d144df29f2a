------------------------ MODULE LocalWorkflowProperties ------------------------
(* What LocalWorkflow must satisfy, and the promise it implements.           *)
EXTENDS LocalWorkflow

Quiet == \A p \in Callers : call[p].pc = "idle"
Unspent(kinds) == \A k \in kinds : spent[k] = 0

CreatedFor(w, s) == {c \in created : c.rec.wf = w /\ c.rec.slot = s}

\* "verified" is never believed: behind every verified step there is a record
\* that this very step of this very workflow committed, at the recorded
\* destination revision (execute and verify re-read; ALREADY_EXISTS).
VerifiedHasRecord ==
  \A w \in Workflows : \A s \in plan[w].steps :
    journal[w].steps[s].status = "verified" =>
      \E c \in CreatedFor(w, s) : c.rec.rev = journal[w].steps[s].rev

\* A completed workflow did everything the user selected, held and blocked
\* selections included, whatever raced on its journal (intentComplete).
CompletedMeansDone ==
  \A w \in Workflows :
    journal[w].status = "completed" => \A s \in Slots(w) : CreatedFor(w, s) # {}

\* One token is one confirmation: double clicks and concurrent confirms store
\* the consumption once (confirm's compare-and-swap).
ConfirmedAtMostOnce ==
  \A a, b \in confirmations : a.tok = b.tok => a = b

\* As long as nobody deletes records, an action with its arguments and its
\* destination is committed once, across retries, workflows, renewed tokens and
\* lost answers (applyLocal).
NoDuplicate ==
  Unspent({"loss"}) => \A a, b \in created : a.rec.key = b.rec.key => a = b

\* A record exists only for a step that the user was shown under a token and
\* then confirmed with it.
CreatedWasConfirmed ==
  \A c \in created :
    /\ \E shown \in challenges :
         shown.tok = c.tok /\ shown.wf = c.rec.wf /\ c.rec.slot \in shown.steps
    /\ \E k \in confirmations : k.tok = c.tok /\ k.wf = c.rec.wf

\* A workflow never writes over an edit it has not seen: below each of its
\* records the destination was at the planned revision or at the one another
\* of its records left (STALE_DESTINATION, in preflight and at commit).
NoWriteOverForeignEdit ==
  \A c \in created :
    LET d == DestOf[c.rec.key]
    IN \/ c.rec.rev = plan[c.rec.wf].revs[d] + 1
       \/ \E other \in created :
            /\ other.rec.wf = c.rec.wf /\ DestOf[other.rec.key] = d
            /\ c.rec.rev = other.rec.rev + 1

\* A cancelled workflow stays cancelled and makes no further record, however
\* many executes are in flight (cancel, updateResult, verify, applyLocal).
CancelIsFinal ==
  [][\A w \in Workflows : journal[w].status = "cancelled" =>
       /\ journal'[w].status = "cancelled"
       /\ \A r \in records' \ records : r.wf # w]_vars

\* With one execute at a time: once every call has returned, and none was cut
\* short by a crash or a failed host call, the journal reports every record
\* that exists, whatever cancels, verifies and renewals raced with it.
QuietMeansReported ==
  Quiet /\ Unspent({"crash", "fault"}) /\ spent["Execute"] <= 1 =>
    \A r \in records : journal[r.wf].steps[r.slot].status = "verified"

\* Every call returns: the loops over steps and the journal retries end.
CallsReturn == \A p \in Callers : call[p].pc # "idle" ~> call[p].pc = "idle"

-----------------------------------------------------------------------------
(* What the repository says and the code does not do: each is refuted by a  *)
(* run of its own.                                                           *)

\* "Confirmation may be renewed for remaining work" (comment on execute): work
\* that only lacked a live confirmation can be tried again.
ExpiredWorkRenewable ==
  \A w \in Workflows, s \in Slot :
    journal[w].steps[s].error = "CONFIRMATION_EXPIRED" => journal[w].steps[s].retryable

\* "execute resumes/retries incomplete work" (LOCAL-WORKFLOW.md): as long as
\* nobody deletes records, an uncertain step is never given up.
UncertainIsRetried ==
  Unspent({"loss"}) =>
    \A w \in Workflows, s \in Slot :
      journal[w].steps[s].status = "uncertain" => journal[w].steps[s].retryable

\* The test "does not duplicate writes under concurrent execution attempts"
\* lets two executes race and expects a third to complete: when nothing else
\* happened, no unfinished step is left that execute would skip.
ConcurrentExecutionRecovers ==
  Quiet /\ Unspent({"Cancel", "Verify", "fault", "crash", "edit", "loss", "tick"}) =>
    \A w \in Workflows : \A s \in plan[w].steps :
      journal[w].steps[s].retryable \/ \E r \in records : OwnRecord(r, w, s)

-----------------------------------------------------------------------------
(* The promise of ConfirmedCreation, as the journal and the records keep it. *)

Granted(w) ==
  IF journal[w].status # "cancelled" /\ journal[w].auth.consumed
     /\ clock < journal[w].auth.expires
  THEN journal[w].auth.steps ELSE {}

Promise == INSTANCE ConfirmedCreation WITH
  granted <- [w \in Workflows |-> Granted(w)],
  withdrawn <- {w \in Workflows : journal[w].status = "cancelled"},
  made <- {[key |-> r.key, wf |-> r.wf, slot |-> r.slot] : r \in records}

\* The protocol implements ConfirmedCreation.
ImplementsPromise == Promise!Spec
=============================================================================
