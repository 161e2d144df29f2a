------------------------------ MODULE FileHost ------------------------------
(***************************************************************************)
(* FileLocalWorkflowHost (workflow-host.ts): the database of the local     *)
(* workflow is one file.  A write transaction is guarded by a lock         *)
(* directory, writes a temporary file, fsyncs and renames it, and fsyncs   *)
(* the directory; each awaited file-system call is a step.  Readers take   *)
(* no lock.  Callers are calls of one process or of several.               *)
(*                                                                         *)
(* A file's content is the sequence of the transactions applied to it.     *)
(* Transaction n is the n-th one issued.  A renamed file is never written  *)
(* again, so what a handle reads was decided when it was opened.           *)
(***************************************************************************)
EXTENDS Integers, Sequences, FiniteSets

CONSTANTS
  Callers,       \* concurrent calls of the host
  CallLimit,     \* bound: transactions and reads issued
  TroubleLimit   \* bound: failed file-system calls, crashes and power losses

ASSUME FileHostConstants == CallLimit \in Nat /\ TroubleLimit \in Nat

VARIABLES
  db,       \* what the path names now
  durable,  \* what it named when the directory was last fsynced
  window,   \* what it may name after a power loss
  locked,   \* the lock directory exists
  call,     \* [Callers -> Call]: the locals of each running call
  answer,   \* [Callers -> Answer]: what each caller's last promise resolved to
  issued,   \* number of calls so far
  trouble   \* number of failures so far

vars == <<db, durable, window, locked, call, answer, issued, trouble>>
disk == <<db, durable, window, locked>>

File == [kind : {"missing", "corrupt", "whole"}, txs : Seq(Nat)]
Missing == [kind |-> "missing", txs |-> <<>>]
Corrupt == [kind |-> "corrupt", txs |-> <<>>]
Whole(txs) == [kind |-> "whole", txs |-> txs]

\* The steps of transaction between mkdir and rm of the lock.
Critical == {"read", "run", "sync", "rename", "dirsync", "rmtemp", "unlock"}
Step == {"idle", "mkdir", "ropen", "rclose"} \cup Critical

\* base: what readHost returned; out: the snapshot in the temporary file, fsynced
\* or not; renamed: it is visible; ok: the call will resolve.
Call ==
  [pc : Step, op : {"open", "write", "read"}, tx : Nat, base : File, out : File,
   synced : BOOLEAN, renamed : BOOLEAN, ok : BOOLEAN]
NoCall ==
  [pc |-> "idle", op |-> "read", tx |-> 0, base |-> Missing, out |-> Missing,
   synced |-> FALSE, renamed |-> FALSE, ok |-> FALSE]

Answer == [result : {"none", "ok", "failed"}, seen : Seq(Nat)]
NoAnswer == [result |-> "none", seen |-> <<>>]
Failed == [result |-> "failed", seen |-> <<>>]
Resolved(c) == [result |-> "ok", seen |-> c.base.txs]

TypeOK ==
  /\ db \in File /\ durable \in File /\ window \in SUBSET File /\ db \in window
  /\ locked \in BOOLEAN
  /\ call \in [Callers -> Call]
  /\ answer \in [Callers -> Answer]
  /\ issued \in Nat /\ trouble \in Nat

-----------------------------------------------------------------------------
At(p, pc) == call[p].pc = pc
Become(p, c) == call' = [call EXCEPT ![p] = c] /\ UNCHANGED answer
Answered(p, a) ==
  /\ answer' = [answer EXCEPT ![p] = a]
  /\ call' = [call EXCEPT ![p] = NoCall]

Smooth == UNCHANGED <<issued, trouble>>
Trouble == trouble < TroubleLimit /\ trouble' = trouble + 1 /\ UNCHANGED issued

\* open is called first; a host may also find its file gone or damaged later.
Begin(p, op) ==
  /\ At(p, "idle") /\ issued < CallLimit
  /\ issued' = issued + 1
  /\ call' = [call EXCEPT ![p] = [NoCall EXCEPT !.pc = IF op = "read" THEN "ropen" ELSE "mkdir",
                                                !.op = op, !.tx = issued + 1]]
  /\ answer' = [answer EXCEPT ![p] = NoAnswer]
  /\ UNCHANGED <<disk, trouble>>

\* Mutant: an existing lock directory is taken over.
Steal == TRUE
\* mkdir of the lock succeeds.
Free == ~locked

\* mkdir: EEXIST is LOCAL_STORE_BUSY.
Lock(p) ==
  /\ At(p, "mkdir")
  /\ \/ /\ Free /\ locked' = TRUE
        /\ Become(p, [call[p] EXCEPT !.pc = "read"]) /\ Smooth
     \/ ~Free /\ Answered(p, Failed) /\ UNCHANGED locked /\ Smooth
     \/ Answered(p, Failed) /\ UNCHANGED locked /\ Trouble
  /\ UNCHANGED <<db, durable, window>>

\* The finally block with and without a temporary file.
CleanUp(c) == [c EXCEPT !.pc = "rmtemp"]
Leave(c) == [c EXCEPT !.pc = "unlock"]

\* readHost; only open may start a database that is missing.
Read(p) ==
  LET c == call[p]
      found == db.kind = "whole" \/ (db.kind = "missing" /\ c.op = "open")
  IN /\ At(p, "read")
     /\ \/ found /\ Become(p, [c EXCEPT !.pc = "run", !.base = Whole(db.txs)]) /\ Smooth
        \/ ~found /\ Become(p, Leave(c)) /\ Smooth
        \/ Become(p, Leave(c)) /\ Trouble
     /\ UNCHANGED disk

\* What run(host) leaves to be stored: open changes nothing, a write may too.
Results(c) ==
  {c.base} \cup (IF c.op = "write" THEN {Whole(Append(c.base.txs, c.tx))} ELSE {})

\* run, which a write may end with an exception, and the temporary file.
Run(p) ==
  LET c == call[p]
  IN /\ At(p, "run")
     /\ \/ /\ \E out \in Results(c) : Become(p, [c EXCEPT !.pc = "sync", !.out = out])
           /\ Smooth
        \/ c.op = "write" /\ Become(p, Leave(c)) /\ Smooth
        \/ Become(p, CleanUp(c)) /\ Trouble
     /\ UNCHANGED disk

\* Mutant: the temporary file is not fsynced.
Unflushed(c) == c
Flushed(c) == [c EXCEPT !.synced = TRUE]

Sync(p) ==
  LET c == call[p]
  IN /\ At(p, "sync")
     /\ \/ Become(p, [Flushed(c) EXCEPT !.pc = "rename"]) /\ Smooth
        \/ Become(p, CleanUp(c)) /\ Trouble
     /\ UNCHANGED disk

\* A file that was not fsynced may be torn by a power loss.
Survivors(c) == IF c.synced THEN {c.out} ELSE {c.out, Corrupt}

Rename(p) ==
  LET c == call[p]
  IN /\ At(p, "rename")
     /\ \/ /\ db' = c.out /\ window' = window \cup Survivors(c)
           /\ Become(p, [c EXCEPT !.pc = "dirsync", !.renamed = TRUE])
           /\ UNCHANGED <<durable, locked>> /\ Smooth
        \/ Become(p, CleanUp(c)) /\ UNCHANGED disk /\ Trouble

\* Mutants: the directory is not fsynced, or before the rename.
KeepWindow == UNCHANGED <<durable, window>>
HardenEarly == window' = {durable} /\ UNCHANGED durable
Harden == durable' = db /\ window' = {db}

\* The handle of the directory may fail to sync, or to close afterwards.
DirSync(p) ==
  LET c == call[p]
  IN /\ At(p, "dirsync")
     /\ \/ Harden /\ Become(p, [Leave(c) EXCEPT !.ok = TRUE]) /\ Smooth
        \/ Harden /\ Become(p, Leave(c)) /\ Trouble
        \/ UNCHANGED <<durable, window>> /\ Become(p, Leave(c)) /\ Trouble
     /\ UNCHANGED <<db, locked>>

\* When the temporary file cannot be removed, the lock is not removed either.
RemoveTemp(p) ==
  /\ At(p, "rmtemp")
  /\ \/ Become(p, Leave(call[p])) /\ Smooth
     \/ Answered(p, Failed) /\ Trouble
  /\ UNCHANGED disk

\* Mutant: only a call that succeeds removes the lock.
UnlockedOnSuccess(c) == ~c.ok
Unlocked(c) == FALSE

Unlock(p) ==
  LET c == call[p]
  IN /\ At(p, "unlock")
     /\ \/ /\ locked' = Unlocked(c) /\ Smooth
           /\ Answered(p, IF c.ok THEN Resolved(c) ELSE Failed)
        \/ locked' \in {locked, FALSE} /\ Trouble /\ Answered(p, Failed)
     /\ UNCHANGED <<db, durable, window>>

\* readHost without the lock: load, readLocal and readContext.
ReadOpen(p) ==
  /\ At(p, "ropen")
  /\ \/ /\ db.kind = "whole" /\ Smooth
        /\ Become(p, [call[p] EXCEPT !.pc = "rclose", !.base = db])
     \/ db.kind # "whole" /\ Answered(p, Failed) /\ Smooth
     \/ Answered(p, Failed) /\ Trouble
  /\ UNCHANGED disk

ReadClose(p) ==
  /\ At(p, "rclose")
  /\ \/ Answered(p, Resolved(call[p])) /\ Smooth
     \/ Answered(p, Failed) /\ Trouble
  /\ UNCHANGED disk

-----------------------------------------------------------------------------
\* The caller's process dies; the operating system goes on.
Crash(p) ==
  /\ call[p].pc # "idle"
  /\ Become(p, NoCall)
  /\ Trouble /\ UNCHANGED disk

\* Every process dies; directory entries that were not fsynced may be undone,
\* those of the lock among them.
PowerLoss ==
  /\ Trouble
  /\ \E left \in window : db' = left /\ durable' = left /\ window' = {left}
  /\ locked' \in BOOLEAN
  /\ call' = [p \in Callers |-> NoCall]
  /\ UNCHANGED answer

\* The operator removes an orphan lock, having made sure that no writer lives.
Recover ==
  /\ locked /\ \A p \in Callers : call[p].pc \notin Critical
  /\ locked' = FALSE
  /\ UNCHANGED <<db, durable, window, call, answer, issued, trouble>>

Next ==
  \/ \E p \in Callers :
       \/ \E op \in {"open", "write", "read"} : Begin(p, op)
       \/ Lock(p) \/ Read(p) \/ Run(p) \/ Sync(p) \/ Rename(p) \/ DirSync(p)
       \/ RemoveTemp(p) \/ Unlock(p) \/ ReadOpen(p) \/ ReadClose(p) \/ Crash(p)
  \/ PowerLoss \/ Recover

Init ==
  /\ db \in {Missing, Corrupt, Whole(<<>>)}
  /\ durable = db /\ window = {db}
  /\ locked = FALSE
  /\ call = [p \in Callers |-> NoCall]
  /\ answer = [p \in Callers |-> NoAnswer]
  /\ issued = 0 /\ trouble = 0

Spec == Init /\ [][Next]_vars

-----------------------------------------------------------------------------
\* No update is lost: from its read to its rename a writer's database is the one
\* it has read, and nobody else is past the lock (mkdir, rm of the lock).
WritersAreAlone ==
  \A p \in Callers :
    /\ call[p].pc \in {"run", "sync", "rename"} => call[p].base.txs = db.txs
    /\ \A q \in Callers \ {p} :
         ~(call[p].pc \in Critical /\ call[q].pc \in Critical)

\* Without a failure no lock is left behind: every path of transaction, refused
\* ones included, gives it back (the finally block).
LockReleased ==
  locked /\ trouble = 0 => \E p \in Callers : call[p].pc \in Critical

\* A database is never torn, whatever fails; and a corrupt one is never
\* overwritten ("open failure never replaces corrupt existing data").
NeverTorn == [][db.kind = "corrupt" <=> db'.kind = "corrupt"]_vars

Phase(c) ==
  CASE c.pc = "idle" -> "idle"
    [] c.pc = "rclose" -> "observed"
    [] c.renamed -> "applied"
    [] OTHER -> "pending"

\* What AtomicStore knows of a call.
OrderOf(c) ==
  [phase |-> Phase(c), tx |-> c.tx,
   seen |-> IF Phase(c) \in {"observed", "applied"} THEN c.base.txs ELSE <<>>,
   upto |-> IF Phase(c) = "applied" THEN Len(c.out.txs) ELSE 0]

Store == INSTANCE AtomicStore WITH
  store <- db.txs, safe <- Len(durable.txs),
  order <- [p \in Callers |-> OrderOf(call[p])]

\* The file host implements AtomicStore.
ImplementsStore == Store!Spec
=============================================================================
