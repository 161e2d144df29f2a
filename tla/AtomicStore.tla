---------------------------- MODULE AtomicStore ----------------------------
(***************************************************************************)
(* What a durable local database promises its callers: transactions take   *)
(* effect one at a time, on what they have seen, at most once; an answered *)
(* one outlives a power loss; an unanswered one may or may not have        *)
(* happened.  The database is the sequence of the transactions it holds.   *)
(***************************************************************************)
EXTENDS Integers, Sequences

CONSTANT Callers

VARIABLES
  store,   \* the transactions the database holds, in order
  safe,    \* how many of them no power loss can take back
  issued,  \* number of transactions issued so far; names the next one
  order,   \* [Callers -> Order]: the transaction each caller waits for
  answer   \* [Callers -> Answer]: the last answer each caller got

storeVars == <<store, safe, issued, order, answer>>

\* seen: what the transaction was computed from; upto: the length of the
\* database that contains it.
Order ==
  [phase : {"idle", "pending", "observed", "applied"}, tx : Nat, seen : Seq(Nat), upto : Nat]
NoOrder == [phase |-> "idle", tx |-> 0, seen |-> <<>>, upto |-> 0]

Answer == [result : {"none", "ok", "failed"}, seen : Seq(Nat)]
NoAnswer == [result |-> "none", seen |-> <<>>]
Failed == [result |-> "failed", seen |-> <<>>]

Init ==
  /\ store = <<>> /\ safe = 0 /\ issued = 0
  /\ order = [p \in Callers |-> NoOrder]
  /\ answer = [p \in Callers |-> NoAnswer]

Reply(p, a) ==
  /\ answer' = [answer EXCEPT ![p] = a]
  /\ order' = [order EXCEPT ![p] = NoOrder]

Issue(p) ==
  /\ order[p].phase = "idle"
  /\ issued' = issued + 1
  /\ order' = [order EXCEPT ![p] = [phase |-> "pending", tx |-> issued + 1, seen |-> <<>>, upto |-> 0]]
  /\ answer' = [answer EXCEPT ![p] = NoAnswer]
  /\ UNCHANGED <<store, safe>>

Observe(p) ==
  /\ order[p].phase = "pending"
  /\ order' = [order EXCEPT ![p] = [phase |-> "observed", tx |-> order[p].tx, seen |-> store, upto |-> 0]]
  /\ UNCHANGED <<store, safe, issued, answer>>

\* A transaction may also leave the database as it is.
Apply(p) ==
  /\ order[p].phase = "pending"
  /\ store' \in {store, Append(store, order[p].tx)}
  /\ order' = [order EXCEPT ![p] = [phase |-> "applied", tx |-> order[p].tx,
                                    seen |-> store, upto |-> Len(store')]]
  /\ UNCHANGED <<safe, issued, answer>>

Harden ==
  /\ safe' \in safe .. Len(store)
  /\ UNCHANGED <<store, issued, order, answer>>

Succeed(p) ==
  /\ \/ order[p].phase = "observed"
     \/ order[p].phase = "applied" /\ order[p].upto <= safe
  /\ Reply(p, [result |-> "ok", seen |-> order[p].seen])
  /\ UNCHANGED <<store, safe, issued>>

\* The caller learns nothing about what happened.
Fail(p) ==
  /\ order[p].phase # "idle"
  /\ Reply(p, Failed)
  /\ UNCHANGED <<store, safe, issued>>

Die(p) ==
  /\ order' = [order EXCEPT ![p] = NoOrder]
  /\ UNCHANGED <<store, safe, issued, answer>>

PowerLoss ==
  /\ \E n \in safe .. Len(store) : store' = SubSeq(store, 1, n) /\ safe' = n
  /\ order' = [p \in Callers |-> NoOrder]
  /\ UNCHANGED <<issued, answer>>

Next ==
  \/ \E p \in Callers :
       Issue(p) \/ Observe(p) \/ Apply(p) \/ Succeed(p) \/ Fail(p) \/ Die(p)
  \/ Harden \/ PowerLoss

Spec == Init /\ [][Next]_storeVars
=============================================================================
