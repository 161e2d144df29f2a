--------------------------- MODULE FileHostProofs ---------------------------
(* FileHost serialises its writers, never tears the database, and implements *)
(* AtomicStore, for any number of callers and failures.                      *)
EXTENDS FileHost, SequenceTheorems, TLAPS

-----------------------------------------------------------------------------
(* The inductive invariant.                                                  *)

\* One writer is past the lock, and the lock exists.
Exclusive ==
  \A p \in Callers : call[p].pc \in Critical =>
    /\ locked
    /\ \A q \in Callers \ {p} : call[q].pc \notin Critical

\* What may survive a power loss is an earlier state of the database, and at
\* least what the directory's last fsync saw.
DiskOK ==
  /\ db.kind # "whole" => db.txs = <<>>
  /\ \A f \in window :
       /\ f.kind = "corrupt" <=> db.kind = "corrupt"
       /\ f.kind # "whole" => f.txs = <<>>
       /\ Len(durable.txs) <= Len(f.txs) /\ Len(f.txs) <= Len(db.txs)
       /\ f.txs = SubSeq(db.txs, 1, Len(f.txs))

\* What a call knows about the database at each of its steps.
Knows(c) ==
  /\ c.pc = "idle" => c = NoCall
  /\ c.renamed => c.pc \in {"dirsync", "unlock"}
  /\ c.ok => c.pc = "unlock" /\ c.renamed /\ Len(c.out.txs) <= Len(durable.txs)
  /\ c.pc = "dirsync" => c.renamed /\ c.out = db
  /\ c.pc \in {"run", "sync", "rename"} => db.kind # "corrupt" /\ c.base = Whole(db.txs)
  /\ c.pc \in {"sync", "rename"} => c.out \in Results(c)
  /\ c.pc = "rename" => c.synced

Inv == TypeOK /\ Exclusive /\ DiskOK /\ \A p \in Callers : Knows(call[p])

-----------------------------------------------------------------------------
(* Sequences.                                                                *)

LEMMA FileTypes ==
  ASSUME NEW f \in File
  PROVE  f.txs \in Seq(Nat) /\ Len(f.txs) \in Nat /\ f.kind \in {"missing", "corrupt", "whole"}
  BY LenProperties DEF File

LEMMA WholeType == ASSUME NEW s \in Seq(Nat) PROVE Whole(s) \in File
  BY DEF Whole, File

LEMMA PlainFiles == Missing \in File /\ Corrupt \in File /\ Missing.txs = <<>> /\ Corrupt.txs = <<>>
  BY EmptySeq DEF Missing, Corrupt, File

LEMMA PrefixAppend ==
  ASSUME NEW s \in Seq(Nat), NEW e \in Nat, NEW n \in 0 .. Len(s)
  PROVE  SubSeq(Append(s, e), 1, n) = SubSeq(s, 1, n)
<1>1. /\ Len(s) \in Nat /\ n \in Int /\ 1 \in Int
      /\ \A i \in 1 .. n : s[i] \in Nat /\ Append(s, e)[i] = s[i]
  BY LenProperties, ElementOfSeq, AppendProperties
<1> DEFINE a == SubSeq(Append(s, e), 1, n)
           b == SubSeq(s, 1, n)
<1>2. /\ a \in Seq(Nat) /\ Len(a) = IF 1 <= n THEN n ELSE 0
      /\ \A i \in 1 .. n - 1 + 1 : a[i] = Append(s, e)[1 + i - 1]
  BY <1>1, SubSeqProperties
<1>3. /\ b \in Seq(Nat) /\ Len(b) = IF 1 <= n THEN n ELSE 0
      /\ \A i \in 1 .. n - 1 + 1 : b[i] = s[1 + i - 1]
  BY <1>1, SubSeqProperties
<1> HIDE DEF a, b
<1>4. Len(a) = Len(b) /\ \A i \in 1 .. Len(a) : a[i] = b[i]
  BY <1>1, <1>2, <1>3
<1> QED
  BY <1>2, <1>3, <1>4, SeqEqual DEF a, b

LEMMA ResultTypes ==
  ASSUME NEW c \in Call, NEW out \in Results(c)
  PROVE  /\ out \in File
         /\ c.base.kind = "whole" => out.kind = "whole"
         /\ out.txs \in {c.base.txs, Append(c.base.txs, c.tx)}
<1>1. c.base \in File /\ c.tx \in Nat /\ c.base.txs \in Seq(Nat)
  BY FileTypes DEF Call
<1> DEFINE longer == Append(c.base.txs, c.tx)
<1>2. longer \in Seq(Nat)
  BY <1>1, AppendProperties
<1>3. CASE out = c.base
  BY <1>1, <1>3
<1>4. CASE out = Whole(longer)
  <2> HIDE DEF longer
  <2>1. out \in File /\ out.kind = "whole" /\ out.txs = longer
    BY <1>2, <1>4 DEF Whole, File
  <2> QED
    BY <2>1 DEF longer
<1> QED
  BY <1>3, <1>4 DEF Results

-----------------------------------------------------------------------------
(* Steps that leave the disk alone.                                          *)

LEMMA NoCallType == NoCall \in Call /\ Knows(NoCall) /\ NoCall.pc = "idle"
  BY PlainFiles DEF NoCall, Call, Step, Critical, Knows

LEMMA CallTypes ==
  ASSUME Inv, NEW p \in Callers
  PROVE  /\ call[p] \in Call /\ Knows(call[p])
         /\ call[p].base \in File /\ call[p].out \in File /\ call[p].tx \in Nat
         /\ call[p].base.txs \in Seq(Nat) /\ call[p].out.txs \in Seq(Nat)
         /\ db \in File /\ db.txs \in Seq(Nat) /\ durable \in File /\ durable.txs \in Seq(Nat)
<1>1. call[p] \in Call /\ Knows(call[p]) /\ db \in File /\ durable \in File
  BY DEF Inv, TypeOK
<1>2. call[p].base \in File /\ call[p].out \in File /\ call[p].tx \in Nat
  BY <1>1 DEF Call
<1> QED
  BY <1>1, <1>2, FileTypes

\* A call that moves on, the disk being as it was.
LEMMA QuietMove ==
  ASSUME Inv, NEW p \in Callers, NEW c \in Call, call' = [call EXCEPT ![p] = c],
         UNCHANGED disk, answer' \in [Callers -> Answer], issued' \in Nat, trouble' \in Nat,
         Knows(c), c.pc \in Critical => call[p].pc \in Critical
  PROVE  Inv'
<1>1. /\ call' \in [Callers -> Call] /\ call'[p] = c
      /\ \A q \in Callers \ {p} : call'[q] = call[q]
  BY DEF Inv, TypeOK
<1>2. TypeOK'
  BY <1>1 DEF Inv, TypeOK, disk
<1>3. Exclusive'
  BY <1>1 DEF Inv, Exclusive, disk
<1>4. DiskOK'
  BY DEF Inv, DiskOK, disk
<1>5. \A q \in Callers : Knows(call[q])'
  <2> SUFFICES ASSUME NEW q \in Callers PROVE Knows(call[q])'
    OBVIOUS
  <2>1. Knows(call'[q])
    BY <1>1 DEF Inv
  <2> QED
    BY <2>1 DEF Knows, disk, Results
<1> QED
  BY <1>2, <1>3, <1>4, <1>5 DEF Inv

LEMMA AnswerTypes ==
  ASSUME Inv, NEW p \in Callers
  PROVE  /\ Resolved(call[p]) \in Answer /\ Failed \in Answer /\ NoAnswer \in Answer
         /\ answer \in [Callers -> Answer] /\ issued \in Nat /\ trouble \in Nat
         /\ \A a \in Answer : [answer EXCEPT ![p] = a] \in [Callers -> Answer]
<1>1. call[p].base.txs \in Seq(Nat)
  BY CallTypes
<1>2. Resolved(call[p]) \in Answer /\ Failed \in Answer /\ NoAnswer \in Answer
  BY <1>1, EmptySeq DEF Resolved, Failed, NoAnswer, Answer
<1> QED
  BY <1>2 DEF Inv, TypeOK

LEMMA CounterTypes ==
  ASSUME Inv, Smooth \/ Trouble
  PROVE  issued' \in Nat /\ trouble' \in Nat
  BY DEF Inv, TypeOK, Smooth, Trouble

\* A call that ends with an answer.
LEMMA QuietEnd ==
  ASSUME Inv, NEW p \in Callers, NEW a \in Answer, Answered(p, a), UNCHANGED disk,
         Smooth \/ Trouble
  PROVE  Inv'
<1>1. answer' \in [Callers -> Answer]
  BY AnswerTypes DEF Answered
<1> QED
  BY <1>1, CounterTypes, NoCallType, QuietMove DEF Answered, Critical

LEMMA QuietStep ==
  ASSUME Inv, NEW p \in Callers, NEW c \in Call, Become(p, c), UNCHANGED disk,
         Smooth \/ Trouble, Knows(c), c.pc \in Critical => call[p].pc \in Critical
  PROVE  Inv'
<1>1. answer' \in [Callers -> Answer]
  BY AnswerTypes DEF Become
<1> QED
  BY <1>1, CounterTypes, QuietMove DEF Become

\* The steps of a call before and after it touches the disk.
LEMMA BeginStep ==
  ASSUME Inv, NEW p \in Callers, NEW op \in {"open", "write", "read"}, Begin(p, op)
  PROVE  Inv'
<1> DEFINE pc == IF op = "read" THEN "ropen" ELSE "mkdir"
           c == [NoCall EXCEPT !.pc = pc, !.op = op, !.tx = issued + 1]
<1>1. issued \in Nat /\ issued' \in Nat /\ trouble' \in Nat /\ pc \in {"ropen", "mkdir"}
  BY DEF Inv, TypeOK, Begin
<1>2. answer' \in [Callers -> Answer] /\ call' = [call EXCEPT ![p] = c] /\ UNCHANGED disk
  BY AnswerTypes DEF Begin
<1> HIDE DEF pc
<1>3. c \in Call
  <2>1. pc \in Step /\ op \in {"open", "write", "read"} /\ issued + 1 \in Nat
    BY <1>1 DEF Step
  <2> QED
    BY <2>1, PlainFiles DEF NoCall, Call
<1>4. c.pc \in {"ropen", "mkdir"} /\ ~c.renamed /\ ~c.ok
  BY <1>1 DEF NoCall
<1> HIDE DEF c
<1>5. Knows(c) /\ c.pc \notin Critical
  BY <1>4 DEF Knows, Critical
<1> QED
  BY <1>1, <1>2, <1>3, <1>5, QuietMove

LEMMA ReadStep ==
  ASSUME Inv, NEW p \in Callers, Read(p)
  PROVE  Inv'
<1> DEFINE c == call[p]
<1>1. c \in Call /\ Knows(c) /\ c.pc = "read" /\ UNCHANGED disk /\ db \in File
  BY CallTypes DEF Read, At
<1>2. ~c.renamed /\ ~c.ok /\ c.pc \in Critical
  BY <1>1 DEF Knows, Critical
<1> HIDE DEF c
<1>3. Leave(c) \in Call /\ Knows(Leave(c)) /\ Leave(c).pc = "unlock"
  BY <1>1, <1>2 DEF Leave, Call, Step, Critical, Knows
<1>4. ASSUME db.kind # "corrupt"
      PROVE  LET n == [c EXCEPT !.pc = "run", !.base = Whole(db.txs)]
             IN n \in Call /\ Knows(n)
  BY <1>1, <1>2, <1>4, FileTypes, WholeType DEF Call, Step, Critical, Knows
<1>5. \/ /\ db.kind # "corrupt" /\ Smooth
         /\ Become(p, [c EXCEPT !.pc = "run", !.base = Whole(db.txs)])
      \/ Become(p, Leave(c)) /\ (Smooth \/ Trouble)
  BY DEF Read, c
<1> QED
  BY <1>1, <1>2, <1>3, <1>4, <1>5, QuietStep DEF c

LEMMA RunStep ==
  ASSUME Inv, NEW p \in Callers, Run(p)
  PROVE  Inv'
<1> DEFINE c == call[p]
<1>1. c \in Call /\ Knows(c) /\ c.pc = "run" /\ UNCHANGED disk
  BY CallTypes DEF Run, At
<1>2. ~c.renamed /\ ~c.ok /\ c.pc \in Critical /\ db.kind # "corrupt" /\ c.base = Whole(db.txs)
  BY <1>1 DEF Knows, Critical
<1> HIDE DEF c
<1>3. /\ Leave(c) \in Call /\ Knows(Leave(c))
      /\ CleanUp(c) \in Call /\ Knows(CleanUp(c))
  BY <1>1, <1>2 DEF Leave, CleanUp, Call, Step, Critical, Knows
<1>4. ASSUME NEW out \in Results(c)
      PROVE  LET n == [c EXCEPT !.pc = "sync", !.out = out]
             IN n \in Call /\ Knows(n)
  BY <1>1, <1>2, <1>4, ResultTypes DEF Call, Step, Critical, Knows, Results
<1>5. \/ (\E out \in Results(c) : Become(p, [c EXCEPT !.pc = "sync", !.out = out])) /\ Smooth
      \/ Become(p, Leave(c)) /\ Smooth
      \/ Become(p, CleanUp(c)) /\ Trouble
  BY DEF Run, c
<1> QED
  BY <1>1, <1>2, <1>3, <1>4, <1>5, QuietStep DEF c

LEMMA SyncStep ==
  ASSUME Inv, NEW p \in Callers, Sync(p)
  PROVE  Inv'
<1> DEFINE c == call[p]
<1>1. c \in Call /\ Knows(c) /\ c.pc = "sync" /\ UNCHANGED disk
  BY CallTypes DEF Sync, At
<1>2. /\ ~c.renamed /\ ~c.ok /\ c.pc \in Critical /\ db.kind # "corrupt"
      /\ c.base = Whole(db.txs) /\ c.out \in Results(c)
  BY <1>1 DEF Knows, Critical
<1> HIDE DEF c
<1>3. CleanUp(c) \in Call /\ Knows(CleanUp(c))
  BY <1>1, <1>2 DEF CleanUp, Call, Step, Critical, Knows
<1>4. LET n == [Flushed(c) EXCEPT !.pc = "rename"] IN n \in Call /\ Knows(n)
  BY <1>1, <1>2 DEF Flushed, Call, Step, Critical, Knows, Results
<1>5. \/ Become(p, [Flushed(c) EXCEPT !.pc = "rename"]) /\ Smooth
      \/ Become(p, CleanUp(c)) /\ Trouble
  BY DEF Sync, c
<1> QED
  BY <1>1, <1>2, <1>3, <1>4, <1>5, QuietStep DEF c

LEMMA EndStep ==
  ASSUME Inv, NEW p \in Callers, RemoveTemp(p) \/ ReadOpen(p) \/ ReadClose(p) \/ Crash(p)
  PROVE  Inv'
<1> DEFINE c == call[p]
<1>1. c \in Call /\ Knows(c) /\ UNCHANGED disk /\ db \in File
  BY CallTypes DEF RemoveTemp, ReadOpen, ReadClose, Crash
<1>2. Failed \in Answer /\ Resolved(c) \in Answer
  BY AnswerTypes
<1>3. CASE RemoveTemp(p)
  <2>1. c.pc = "rmtemp" /\ c.pc \in Critical /\ ~c.renamed /\ ~c.ok
    BY <1>1, <1>3 DEF RemoveTemp, At, Knows, Critical
  <2>2. \/ Become(p, Leave(c)) /\ Smooth
        \/ Answered(p, Failed) /\ Trouble
    BY <1>3 DEF RemoveTemp
  <2> HIDE DEF c
  <2>3. Leave(c) \in Call /\ Knows(Leave(c))
    BY <1>1, <2>1 DEF Leave, Call, Step, Critical, Knows
  <2> QED
    BY <1>1, <1>2, <2>1, <2>2, <2>3, QuietStep, QuietEnd DEF c
<1>4. CASE ReadOpen(p)
  <2>1. c.pc = "ropen" /\ ~c.renamed /\ ~c.ok
    BY <1>1, <1>4 DEF ReadOpen, At, Knows
  <2>2. \/ Become(p, [c EXCEPT !.pc = "rclose", !.base = db]) /\ Smooth
        \/ Answered(p, Failed) /\ (Smooth \/ Trouble)
    BY <1>4 DEF ReadOpen
  <2> HIDE DEF c
  <2>3. LET n == [c EXCEPT !.pc = "rclose", !.base = db]
        IN n \in Call /\ Knows(n) /\ n.pc \notin Critical
    BY <1>1, <2>1 DEF Call, Step, Critical, Knows
  <2> QED
    BY <1>1, <1>2, <2>1, <2>2, <2>3, QuietStep, QuietEnd DEF c
<1>5. CASE ReadClose(p)
  BY <1>1, <1>2, <1>5, QuietEnd DEF ReadClose
<1>6. CASE Crash(p)
  BY <1>1, <1>6, NoCallType, QuietStep DEF Crash, Critical
<1> QED
  BY <1>3, <1>4, <1>5, <1>6

-----------------------------------------------------------------------------
(* Steps that change the disk.                                               *)

LEMMA LockStep ==
  ASSUME Inv, NEW p \in Callers, Lock(p)
  PROVE  Inv'
<1> DEFINE c == call[p]
           n == [c EXCEPT !.pc = "read"]
<1>1. c \in Call /\ Knows(c) /\ c.pc = "mkdir" /\ UNCHANGED <<db, durable, window>>
  BY CallTypes DEF Lock, At
<1>2. CASE Answered(p, Failed) /\ UNCHANGED locked /\ (Smooth \/ Trouble)
  BY <1>1, <1>2, AnswerTypes, QuietEnd DEF disk
<1>3. CASE Free /\ locked' = TRUE /\ Become(p, n) /\ Smooth
  <2>1. \A q \in Callers : call[q].pc \notin Critical
    BY <1>3 DEF Free, Inv, Exclusive
  <2>2. n \in Call /\ Knows(n) /\ n.pc = "read"
    <3> HIDE DEF c
    <3>1. ~c.renamed /\ ~c.ok
      BY <1>1 DEF Knows
    <3> QED
      BY <1>1, <3>1 DEF Call, Step, Critical, Knows
  <2> HIDE DEF c, n
  <2>3. /\ call' \in [Callers -> Call] /\ call'[p] = n
        /\ \A q \in Callers \ {p} : call'[q] = call[q]
    BY <1>3, <2>2 DEF Become, Inv, TypeOK
  <2>4. TypeOK'
    BY <1>1, <1>3, <2>3 DEF Become, Inv, TypeOK, Smooth
  <2>5. Exclusive'
    BY <1>3, <2>1, <2>3 DEF Exclusive
  <2>6. DiskOK'
    BY <1>1 DEF Inv, DiskOK
  <2>7. ASSUME NEW q \in Callers PROVE Knows(call[q])'
    <3>1. Knows(call'[q])
      BY <2>2, <2>3 DEF Inv
    <3> QED
      BY <1>1, <3>1 DEF Knows, Results
  <2> QED
    BY <2>4, <2>5, <2>6, <2>7 DEF Inv
<1> QED
  BY <1>2, <1>3 DEF Lock

LEMMA UnlockStep ==
  ASSUME Inv, NEW p \in Callers, Unlock(p)
  PROVE  Inv'
<1>1. PICK a \in Answer : Answered(p, a) /\ (Smooth \/ Trouble)
  BY AnswerTypes DEF Unlock
<1>2. UNCHANGED <<db, durable, window>> /\ call[p].pc \in Critical /\ locked' \in BOOLEAN
  BY DEF Unlock, At, Critical, Inv, TypeOK, Unlocked
<1>3. /\ call' \in [Callers -> Call] /\ call'[p] = NoCall
      /\ \A q \in Callers \ {p} : call'[q] = call[q]
  BY <1>1, NoCallType DEF Answered, Inv, TypeOK
<1>4. TypeOK'
  BY <1>1, <1>2, <1>3, AnswerTypes, CounterTypes DEF Answered, Inv, TypeOK
<1>5. \A q \in Callers : call'[q].pc \notin Critical
  BY <1>2, <1>3, NoCallType DEF Inv, Exclusive, Critical
<1>6. \A q \in Callers : Knows(call[q])'
  <2> SUFFICES ASSUME NEW q \in Callers PROVE Knows(call[q])'
    OBVIOUS
  <2>1. Knows(call'[q])
    BY <1>3, NoCallType DEF Inv
  <2> QED
    BY <1>2, <2>1 DEF Knows, Results
<1> QED
  BY <1>2, <1>4, <1>5, <1>6 DEF Inv, Exclusive, DiskOK

LEMMA RenameStep ==
  ASSUME Inv, NEW p \in Callers, Rename(p)
  PROVE  Inv'
<1> DEFINE c == call[p]
           n == [c EXCEPT !.pc = "dirsync", !.renamed = TRUE]
<1>1. c \in Call /\ Knows(c) /\ c.pc = "rename" /\ c.pc \in Critical
  BY CallTypes DEF Rename, At, Critical
<1>2. /\ ~c.ok /\ c.synced /\ db.kind # "corrupt" /\ c.base = Whole(db.txs)
      /\ c.out \in Results(c)
  BY <1>1 DEF Knows
<1>3. CASE Become(p, CleanUp(c)) /\ UNCHANGED disk /\ Trouble
  <2> HIDE DEF c
  <2>1. CleanUp(c) \in Call /\ Knows(CleanUp(c))
    BY <1>1 DEF CleanUp, Call, Step, Critical, Knows
  <2> QED
    BY <1>1, <1>3, <2>1, QuietStep DEF c
<1>4. CASE /\ db' = c.out /\ window' = window \cup Survivors(c) /\ Become(p, n)
           /\ UNCHANGED <<durable, locked>> /\ Smooth
  <2>1. db \in File /\ db.txs \in Seq(Nat) /\ durable \in File /\ c.tx \in Nat
    BY CallTypes
  <2>2. /\ db' \in File /\ db'.kind = "whole"
        /\ db'.txs = db.txs \/ db'.txs = Append(db.txs, c.tx)
    BY <1>1, <1>2, <1>4, ResultTypes DEF Whole
  <2>3. window' = window \cup {db'}
    BY <1>2, <1>4 DEF Survivors
  <2>4. Len(db.txs) \in Nat /\ Len(db'.txs) \in Nat /\ Len(db.txs) <= Len(db'.txs)
    BY <2>1, <2>2, LenProperties, AppendProperties, FileTypes
  <2>5. n \in Call /\ n.pc = "dirsync" /\ n.renamed /\ n.out = db' /\ ~n.ok
    <3> HIDE DEF c
    <3> QED
      BY <1>1, <1>2, <1>4 DEF Call, Step, Critical
  <2>6. \A q \in Callers \ {p} : call[q].pc \notin Critical
    BY <1>1 DEF Inv, Exclusive
  <2> HIDE DEF c, n
  <2>7. /\ call' \in [Callers -> Call] /\ call'[p] = n
        /\ \A q \in Callers \ {p} : call'[q] = call[q]
    BY <1>4, <2>5 DEF Become, Inv, TypeOK
  <2>8. TypeOK'
    BY <1>4, <2>1, <2>2, <2>3, <2>7 DEF Become, Inv, TypeOK, Smooth
  <2>9. Exclusive'
    BY <1>1, <1>4, <2>5, <2>6, <2>7 DEF Inv, Exclusive, Critical, c
  <2>10. DiskOK'
    <3>1. ASSUME NEW f \in window
          PROVE  /\ f.kind # "corrupt" /\ (f.kind # "whole" => f.txs = <<>>)
                 /\ Len(durable.txs) <= Len(f.txs) /\ Len(f.txs) <= Len(db'.txs)
                 /\ f.txs = SubSeq(db'.txs, 1, Len(f.txs))
      <4>1. /\ f.kind # "corrupt" /\ (f.kind # "whole" => f.txs = <<>>)
            /\ Len(durable.txs) <= Len(f.txs) /\ Len(f.txs) <= Len(db.txs)
            /\ f.txs = SubSeq(db.txs, 1, Len(f.txs))
        BY <1>2 DEF Inv, DiskOK
      <4>2. f \in File /\ Len(f.txs) \in Nat /\ Len(f.txs) \in 0 .. Len(db.txs)
        BY <2>4, <4>1, FileTypes DEF Inv, TypeOK
      <4>3. SubSeq(db'.txs, 1, Len(f.txs)) = SubSeq(db.txs, 1, Len(f.txs))
        BY <2>1, <2>2, <4>2, PrefixAppend
      <4> QED
        BY <2>4, <4>1, <4>2, <4>3
    <3>2. db'.txs = SubSeq(db'.txs, 1, Len(db'.txs))
      BY <2>2, FileTypes, SubSeqFull
    <3>3. Len(durable.txs) <= Len(db'.txs)
      <4>1. db \in window
        BY DEF Inv, TypeOK
      <4> QED
        BY <3>1, <4>1, <2>4, <2>1, FileTypes DEF Inv, DiskOK
    <3> QED
      BY <1>4, <2>2, <2>3, <2>4, <3>1, <3>2, <3>3 DEF DiskOK
  <2>11. ASSUME NEW q \in Callers PROVE Knows(call[q])'
    <3>1. CASE q = p
      BY <2>5, <2>7, <3>1 DEF Knows
    <3>2. CASE q # p
      <4>1. Knows(call[q]) /\ call'[q] = call[q] /\ call[q].pc \notin Critical
        BY <2>6, <2>7, <3>2 DEF Inv
      <4> QED
        BY <1>4, <4>1 DEF Knows, Critical
    <3> QED
      BY <3>1, <3>2
  <2> QED
    BY <2>8, <2>9, <2>10, <2>11 DEF Inv
<1> QED
  BY <1>3, <1>4 DEF Rename

LEMMA DirSyncStep ==
  ASSUME Inv, NEW p \in Callers, DirSync(p)
  PROVE  Inv'
<1> DEFINE c == call[p]
<1>1. c \in Call /\ Knows(c) /\ c.pc = "dirsync" /\ c.pc \in Critical
  BY CallTypes DEF DirSync, At, Critical
<1>2. c.renamed /\ ~c.ok /\ c.out = db /\ UNCHANGED <<db, locked>>
  BY <1>1 DEF Knows, DirSync
<1>3. PICK n \in {Leave(c), [Leave(c) EXCEPT !.ok = TRUE]} :
        /\ Become(p, n) /\ (Smooth \/ Trouble)
        /\ Harden \/ (UNCHANGED <<durable, window>> /\ ~n.ok)
  <2>1. ~Leave(c).ok
    BY <1>1, <1>2 DEF Leave, Call
  <2> QED
    BY <2>1 DEF DirSync
<1>4. n \in Call /\ n.pc = "unlock" /\ n.renamed /\ n.out = db
  <2> HIDE DEF c
  <2> QED
    BY <1>1, <1>2 DEF Leave, Call, Step, Critical
<1>5. \A q \in Callers \ {p} : call[q].pc \notin Critical
  BY <1>1 DEF Inv, Exclusive
<1> HIDE DEF c
<1>6. /\ call' \in [Callers -> Call] /\ call'[p] = n
      /\ \A q \in Callers \ {p} : call'[q] = call[q]
  BY <1>3, <1>4 DEF Become, Inv, TypeOK
<1>7. TypeOK'
  BY <1>2, <1>3, <1>6, CounterTypes DEF Become, Inv, TypeOK, Harden
<1>8. Exclusive'
  BY <1>1, <1>2, <1>4, <1>5, <1>6 DEF Inv, Exclusive, Critical, c
<1>9. DiskOK' /\ (n.ok => durable' = db)
  <2>1. db \in File /\ db \in window /\ db.txs = SubSeq(db.txs, 1, Len(db.txs)) /\ Len(db.txs) \in Nat
    BY FileTypes, SubSeqFull DEF Inv, TypeOK
  <2>2. CASE Harden
    BY <1>2, <2>1, <2>2 DEF Inv, DiskOK, Harden
  <2>3. CASE UNCHANGED <<durable, window>> /\ ~n.ok
    BY <1>2, <2>3 DEF Inv, DiskOK
  <2> QED
    BY <1>3, <2>2, <2>3
<1>10. ASSUME NEW q \in Callers PROVE Knows(call[q])'
  <2>1. CASE q = p
    <3>1. Len(db.txs) \in Nat
      BY FileTypes DEF Inv, TypeOK
    <3> QED
      BY <1>2, <1>4, <1>6, <1>9, <2>1, <3>1 DEF Knows
  <2>2. CASE q # p
    <3>1. Knows(call[q]) /\ call'[q] = call[q] /\ call[q].pc \notin Critical
      BY <1>5, <1>6, <2>2 DEF Inv
    <3> QED
      BY <1>2, <3>1 DEF Knows, Critical
  <2> QED
    BY <2>1, <2>2
<1> QED
  BY <1>7, <1>8, <1>9, <1>10 DEF Inv

LEMMA PowerLossStep == Inv /\ PowerLoss => Inv'
<1> SUFFICES ASSUME Inv, PowerLoss PROVE Inv'
  OBVIOUS
<1>1. PICK left \in window : db' = left /\ durable' = left /\ window' = {left}
  BY DEF PowerLoss
<1>2. /\ left \in File /\ Len(left.txs) \in Nat /\ left.txs = SubSeq(left.txs, 1, Len(left.txs))
      /\ left.kind # "whole" => left.txs = <<>>
  BY FileTypes, SubSeqFull DEF Inv, TypeOK, DiskOK
<1>3. \A q \in Callers : call'[q] = NoCall
  BY DEF PowerLoss
<1>4. TypeOK'
  BY <1>1, <1>2, NoCallType, CounterTypes DEF PowerLoss, Inv, TypeOK
<1>5. Exclusive'
  BY <1>3, NoCallType DEF Exclusive, Critical
<1>6. DiskOK'
  BY <1>1, <1>2 DEF DiskOK
<1>7. \A q \in Callers : Knows(call[q])'
  BY <1>3, NoCallType DEF Knows, NoCall
<1> QED
  BY <1>4, <1>5, <1>6, <1>7 DEF Inv

LEMMA IdleStep == Inv /\ (Recover \/ UNCHANGED vars) => Inv'
<1> SUFFICES ASSUME Inv, Recover \/ UNCHANGED vars PROVE Inv'
  OBVIOUS
<1>1. UNCHANGED <<db, durable, window, call, answer, issued, trouble>>
  BY DEF Recover, vars
<1>2. TypeOK' /\ DiskOK'
  BY <1>1 DEF Inv, TypeOK, DiskOK, Recover, vars
<1>3. Exclusive'
  BY <1>1 DEF Inv, Exclusive, Recover, vars
<1>4. \A q \in Callers : Knows(call[q])'
  BY <1>1 DEF Inv, Knows, Results
<1> QED
  BY <1>2, <1>3, <1>4 DEF Inv

LEMMA InitInv == Init => Inv
<1> SUFFICES ASSUME Init PROVE Inv
  OBVIOUS
<1>1. db \in File /\ db.txs = <<>>
  <2>1. <<>> \in Seq(Nat)
    BY EmptySeq
  <2>2. Whole(<<>>) \in File /\ Whole(<<>>).txs = <<>>
    BY <2>1, WholeType DEF Whole
  <2> QED
    BY <2>2, PlainFiles DEF Init
<1>2. TypeOK
  BY <1>1, NoCallType, EmptySeq DEF Init, TypeOK, NoAnswer, Answer
<1>3. DiskOK
  <2>1. Len(<<>>) = 0
    BY EmptySeq
  <2>2. db.txs = SubSeq(db.txs, 1, Len(db.txs)) /\ Len(db.txs) = 0
    BY <1>1, <2>1, FileTypes, SubSeqFull
  <2>3. window = {db} /\ durable = db
    BY DEF Init
  <2>4. ASSUME NEW f \in window
        PROVE  /\ f.kind = "corrupt" <=> db.kind = "corrupt"
               /\ f.kind # "whole" => f.txs = <<>>
               /\ Len(durable.txs) <= Len(f.txs) /\ Len(f.txs) <= Len(db.txs)
               /\ f.txs = SubSeq(db.txs, 1, Len(f.txs))
    <3>1. f = db
      BY <2>3
    <3>2. Len(durable.txs) <= Len(f.txs) /\ Len(f.txs) <= Len(db.txs)
      BY <2>2, <2>3, <3>1
    <3> QED
      BY <1>1, <2>2, <3>1, <3>2, Zenon
  <2> QED
    BY <1>1, <2>4, Zenon DEF DiskOK
<1>4. Exclusive /\ \A p \in Callers : Knows(call[p])
  BY NoCallType DEF Init, Exclusive, Critical
<1> QED
  BY <1>2, <1>3, <1>4 DEF Inv

LEMMA StepInv == Inv /\ [Next]_vars => Inv'
<1> SUFFICES ASSUME Inv, [Next]_vars PROVE Inv'
  OBVIOUS
<1>1. ASSUME NEW p \in Callers, NEW op \in {"open", "write", "read"}, Begin(p, op) PROVE Inv'
  BY <1>1, BeginStep
<1>2. ASSUME NEW p \in Callers,
             \/ Lock(p) \/ Read(p) \/ Run(p) \/ Sync(p) \/ Rename(p) \/ DirSync(p)
             \/ RemoveTemp(p) \/ Unlock(p) \/ ReadOpen(p) \/ ReadClose(p) \/ Crash(p)
      PROVE  Inv'
  BY <1>2, LockStep, ReadStep, RunStep, SyncStep, RenameStep, DirSyncStep, UnlockStep, EndStep
<1> QED
  BY <1>1, <1>2, PowerLossStep, IdleStep DEF Next

\* The invariant holds in every reachable state, for any number of callers,
\* failures, crashes and power losses.
THEOREM Invariance == Spec => []Inv
  BY InitInv, StepInv, PTL DEF Spec

\* Every variable keeps its type: the calls of each process, the history of the
\* database, and what the disk holds (FileLocalWorkflowHost).
THEOREM FileHostTypes == Spec => []TypeOK
<1>1. Inv => TypeOK
  BY DEF Inv
<1> QED
  BY <1>1, Invariance, PTL

\* From its read to its rename a writer works on the current database, and it is
\* the only one past the lock: no update is lost (transaction).
THEOREM WritersExclude == Spec => []WritersAreAlone
<1>1. Inv => WritersAreAlone
  <2> SUFFICES ASSUME Inv PROVE WritersAreAlone
    OBVIOUS
  <2>1. ASSUME NEW p \in Callers, call[p].pc \in {"run", "sync", "rename"}
        PROVE  call[p].base.txs = db.txs
    BY <2>1 DEF Inv, Knows, Whole
  <2>2. ASSUME NEW p \in Callers, NEW q \in Callers \ {p},
               call[p].pc \in Critical, call[q].pc \in Critical
        PROVE  FALSE
    BY <2>2 DEF Inv, Exclusive
  <2> QED
    BY <2>1, <2>2 DEF WritersAreAlone
<1> QED
  BY <1>1, Invariance, PTL

\* A database becomes corrupt, or stops being so, by no step of the host and by
\* no power loss: only fsynced files are renamed (transaction), and only over a
\* database that could be read (readHost).
THEOREM NothingTears == Spec => NeverTorn
<1>1. Inv /\ [Next]_vars => [db.kind = "corrupt" <=> db'.kind = "corrupt"]_vars
  <2> SUFFICES ASSUME Inv, Next PROVE db.kind = "corrupt" <=> db'.kind = "corrupt"
    OBVIOUS
  <2>1. ASSUME NEW p \in Callers, Rename(p)
        PROVE  db.kind = "corrupt" <=> db'.kind = "corrupt"
    <3>1. /\ call[p] \in Call /\ db.kind # "corrupt" /\ call[p].base = Whole(db.txs)
          /\ call[p].out \in Results(call[p])
      BY <2>1, CallTypes DEF Rename, At, Knows
    <3>2. call[p].out.kind = "whole"
      BY <3>1, ResultTypes DEF Whole
    <3> QED
      BY <2>1, <3>1, <3>2 DEF Rename, disk
  <2>2. CASE PowerLoss
    BY <2>2 DEF PowerLoss, Inv, DiskOK
  <2>3. ASSUME NEW p \in Callers,
               \/ \E op \in {"open", "write", "read"} : Begin(p, op)
               \/ Lock(p) \/ Read(p) \/ Run(p) \/ Sync(p) \/ DirSync(p) \/ RemoveTemp(p)
               \/ Unlock(p) \/ ReadOpen(p) \/ ReadClose(p) \/ Crash(p)
        PROVE  UNCHANGED db
    BY <2>3 DEF Begin, Lock, Read, Run, Sync, DirSync, RemoveTemp, Unlock, ReadOpen, ReadClose,
                Crash, disk
  <2> QED
    BY <2>1, <2>2, <2>3 DEF Next, Recover
<1> QED
  BY <1>1, Invariance, PTL DEF Spec, NeverTorn

\* Without a failure the lock has a living owner: every path through transaction
\* that no call of the file system breaks removes it (the finally block).
THEOREM LocksAreReleased == Spec => []LockReleased
<1>1. Init => LockReleased
  BY DEF Init, LockReleased
<1>2. Inv /\ LockReleased /\ [Next]_vars => LockReleased'
  <2> SUFFICES ASSUME Inv, LockReleased, [Next]_vars, locked', trouble' = 0
               PROVE  \E p \in Callers : call'[p].pc \in Critical
    BY DEF LockReleased
  <2>1. trouble \in Nat /\ call \in [Callers -> Call]
    BY DEF Inv, TypeOK
  <2>2. ~Trouble
    BY <2>1 DEF Trouble
  <2>3. ASSUME NEW q \in Callers, call[q].pc \in Critical, UNCHANGED call
        PROVE  \E p \in Callers : call'[p].pc \in Critical
    BY <2>3
  <2>4. ASSUME locked, trouble = 0,
               NEW p \in Callers, call[p].pc \notin Critical, NEW c, call' = [call EXCEPT ![p] = c]
        PROVE  \E q \in Callers : call'[q].pc \in Critical
    BY <2>1, <2>4 DEF LockReleased
  <2>5. ASSUME NEW p \in Callers, NEW c, c.pc \in Critical, call' = [call EXCEPT ![p] = c]
        PROVE  \E q \in Callers : call'[q].pc \in Critical
    BY <2>1, <2>5
  <2>6. ASSUME NEW p \in Callers, NEW op \in {"open", "write", "read"}, Begin(p, op)
        PROVE  \E q \in Callers : call'[q].pc \in Critical
    <3>1. call[p].pc \notin Critical /\ UNCHANGED <<locked, trouble>>
      BY <2>6 DEF Begin, At, Critical, disk
    <3> QED
      BY <2>4, <2>6, <3>1 DEF Begin
  <2>7. ASSUME NEW p \in Callers, Lock(p)
        PROVE  \E q \in Callers : call'[q].pc \in Critical
    <3>1. call[p].pc \notin Critical
      BY <2>7 DEF Lock, At, Critical
    <3>2. CASE Become(p, [call[p] EXCEPT !.pc = "read"])
      <4>1. [call[p] EXCEPT !.pc = "read"].pc \in Critical
        BY <2>1 DEF Call, Critical
      <4> QED
        BY <2>5, <3>2, <4>1 DEF Become
    <3>3. CASE Answered(p, Failed) /\ UNCHANGED locked /\ Smooth
      BY <2>4, <3>1, <3>3 DEF Answered, Smooth
    <3> QED
      BY <2>2, <2>7, <3>2, <3>3 DEF Lock
  <2>8. ASSUME NEW p \in Callers,
               Read(p) \/ Run(p) \/ Sync(p) \/ Rename(p) \/ DirSync(p) \/ RemoveTemp(p)
        PROVE  \E q \in Callers : call'[q].pc \in Critical
    <3> DEFINE c == call[p]
    <3>1. c \in Call
      BY <2>1
    <3>2. \/ Become(p, [c EXCEPT !.pc = "run", !.base = Whole(db.txs)])
          \/ Become(p, Leave(c))
          \/ \E out \in Results(c) : Become(p, [c EXCEPT !.pc = "sync", !.out = out])
          \/ Become(p, [Flushed(c) EXCEPT !.pc = "rename"])
          \/ Become(p, [c EXCEPT !.pc = "dirsync", !.renamed = TRUE])
          \/ Become(p, [Leave(c) EXCEPT !.ok = TRUE])
      BY <2>2, <2>8, Zenon DEF Read, Run, Sync, Rename, DirSync, RemoveTemp
    <3> HIDE DEF c
    <3>3. ASSUME NEW f
          PROVE  /\ [c EXCEPT !.pc = "run", !.base = f].pc \in Critical
                 /\ Leave(c).pc \in Critical
                 /\ [c EXCEPT !.pc = "sync", !.out = f].pc \in Critical
                 /\ [Flushed(c) EXCEPT !.pc = "rename"].pc \in Critical
                 /\ [c EXCEPT !.pc = "dirsync", !.renamed = TRUE].pc \in Critical
                 /\ [Leave(c) EXCEPT !.ok = TRUE].pc \in Critical
      BY <3>1 DEF Call, Leave, Flushed, Critical
    <3>4. ASSUME NEW n, Become(p, n), n.pc \in Critical
          PROVE  \E q \in Callers : call'[q].pc \in Critical
      BY <2>5, <3>4 DEF Become
    <3> QED
      BY <3>2, <3>3, <3>4, Zenon
  <2>9. ASSUME NEW p \in Callers, Unlock(p)
        PROVE  FALSE
    BY <2>2, <2>9 DEF Unlock, Unlocked
  <2>10. ASSUME NEW p \in Callers, ReadOpen(p) \/ ReadClose(p)
         PROVE  \E q \in Callers : call'[q].pc \in Critical
    <3>1. call[p].pc \notin Critical /\ UNCHANGED <<locked, trouble>>
      BY <2>2, <2>10 DEF ReadOpen, ReadClose, At, Critical, Smooth, disk
    <3>2. \E c : call' = [call EXCEPT ![p] = c]
      BY <2>10, Zenon DEF ReadOpen, ReadClose, Become, Answered
    <3> QED
      BY <2>4, <3>1, <3>2
  <2>11. CASE Recover
    BY <2>11 DEF Recover
  <2>12. CASE UNCHANGED vars
    BY <2>12 DEF vars, LockReleased
  <2> QED
    BY <2>2, <2>6, <2>7, <2>8, <2>9, <2>10, <2>11, <2>12 DEF Next, Crash, PowerLoss
<1> QED
  BY <1>1, <1>2, Invariance, PTL DEF Spec

-----------------------------------------------------------------------------
(* Refinement of AtomicStore.                                                *)

Orders == [p \in Callers |-> OrderOf(call[p])]

LEMMA OrderUpdate ==
  ASSUME Inv, NEW p \in Callers, NEW c, call' = [call EXCEPT ![p] = c]
  PROVE  Orders' = [Orders EXCEPT ![p] = OrderOf(c)]
  BY DEF Inv, TypeOK, Orders

\* What AtomicStore sees of a call: nothing before its rename, everything after.
LEMMA OrderCases ==
  ASSUME NEW c \in Call, Knows(c)
  PROVE  /\ c.pc = "idle" => OrderOf(c) = Store!NoOrder
         /\ c.pc = "rclose" =>
              OrderOf(c) = [phase |-> "observed", tx |-> c.tx, seen |-> c.base.txs, upto |-> 0]
         /\ c.renamed =>
              OrderOf(c) = [phase |-> "applied", tx |-> c.tx, seen |-> c.base.txs,
                            upto |-> Len(c.out.txs)]
         /\ c.pc \notin {"idle", "rclose"} /\ ~c.renamed =>
              OrderOf(c) = [phase |-> "pending", tx |-> c.tx, seen |-> <<>>, upto |-> 0]
<1>1. CASE c.pc = "idle"
  BY <1>1 DEF OrderOf, Phase, Knows, NoCall, Store!NoOrder
<1>2. CASE c.pc = "rclose"
  BY <1>2 DEF OrderOf, Phase, Knows
<1>3. CASE c.renamed
  BY <1>3 DEF OrderOf, Phase, Knows
<1>4. CASE c.pc \notin {"idle", "rclose"} /\ ~c.renamed
  BY <1>4 DEF OrderOf, Phase
<1> QED
  BY <1>1, <1>2, <1>3, <1>4 DEF Knows

LEMMA IdleOrder == OrderOf(NoCall) = Store!NoOrder
  BY NoCallType, OrderCases

\* A step of a call that AtomicStore does not see.
LEMMA UnseenStep ==
  ASSUME Inv, NEW p \in Callers, NEW n, Become(p, n), OrderOf(n) = OrderOf(call[p]),
         UNCHANGED <<db, durable, issued>>
  PROVE  UNCHANGED Store!storeVars
<1>1. Orders' = Orders
  BY OrderUpdate DEF Become, Orders
<1> QED
  BY <1>1 DEF Become, Orders, Store!storeVars

\* A call that ends with a failure, or with a result.
LEMMA FailedStep ==
  ASSUME Inv, NEW p \in Callers, Answered(p, Failed), call[p].pc # "idle",
         UNCHANGED <<db, durable, issued>>
  PROVE  Store!Fail(p)
<1>1. Orders' = [Orders EXCEPT ![p] = Store!NoOrder]
  BY OrderUpdate, IdleOrder DEF Answered
<1>2. Orders[p].phase # "idle"
  BY CallTypes, OrderCases DEF Orders
<1>3. answer' = [answer EXCEPT ![p] = Store!Failed]
  BY DEF Answered, Failed, Store!Failed
<1> QED
  BY <1>1, <1>2, <1>3 DEF Orders, Store!Fail, Store!Reply

LEMMA ResolvedStep ==
  ASSUME Inv, NEW p \in Callers, Answered(p, Resolved(call[p])),
         call[p].pc = "rclose" \/ call[p].ok, UNCHANGED <<db, durable, issued>>
  PROVE  Store!Succeed(p)
<1> DEFINE c == call[p]
<1>1. Orders' = [Orders EXCEPT ![p] = Store!NoOrder]
  BY OrderUpdate, IdleOrder DEF Answered
<1>2. c \in Call /\ Knows(c)
  BY CallTypes
<1>3. /\ Orders[p].seen = c.base.txs
      /\ \/ Orders[p].phase = "observed"
         \/ Orders[p].phase = "applied" /\ Orders[p].upto <= Len(durable.txs)
  <2>1. Orders[p] = OrderOf(c)
    BY DEF Orders
  <2> HIDE DEF c
  <2>2. CASE c.pc = "rclose"
    BY <1>2, <2>1, <2>2, OrderCases
  <2>3. CASE c.ok
    BY <1>2, <2>1, <2>3, OrderCases DEF Knows
  <2> QED
    BY <2>2, <2>3 DEF c
<1>4. answer' = [answer EXCEPT ![p] = [result |-> "ok", seen |-> Orders[p].seen]]
  BY <1>3 DEF Answered, Resolved
<1> QED
  BY <1>1, <1>3, <1>4 DEF Orders, Store!Succeed, Store!Reply

LEMMA InitRefines == Init => Store!Init
<1> SUFFICES ASSUME Init PROVE Store!Init
  OBVIOUS
<1>1. db.txs = <<>> /\ durable = db
  BY PlainFiles DEF Init, Whole
<1>2. Len(durable.txs) = 0
  BY <1>1, EmptySeq
<1>3. Orders = [p \in Callers |-> Store!NoOrder]
  BY IdleOrder DEF Init, Orders
<1> QED
  BY <1>1, <1>2, <1>3 DEF Init, Orders, NoAnswer, Store!Init, Store!NoAnswer

LEMMA BeginRefines ==
  ASSUME Inv, NEW p \in Callers, NEW op \in {"open", "write", "read"}, Begin(p, op)
  PROVE  Store!Issue(p)
<1> DEFINE pc == IF op = "read" THEN "ropen" ELSE "mkdir"
           n == [NoCall EXCEPT !.pc = pc, !.op = op, !.tx = issued + 1]
<1>1. call[p].pc = "idle" /\ issued' = issued + 1 /\ call' = [call EXCEPT ![p] = n]
  BY DEF Begin, At
<1>2. Orders[p].phase = "idle"
  BY <1>1, CallTypes, OrderCases DEF Orders, Store!NoOrder
<1>3. OrderOf(n) = [phase |-> "pending", tx |-> issued + 1, seen |-> <<>>, upto |-> 0]
  <2>1. pc \in {"ropen", "mkdir"}
    OBVIOUS
  <2> HIDE DEF pc
  <2>2. n.pc \in {"ropen", "mkdir"} /\ ~n.renamed /\ n.tx = issued + 1
    BY <2>1 DEF NoCall
  <2> HIDE DEF n
  <2>3. Phase(n) = "pending"
    BY <2>2 DEF Phase
  <2> QED
    BY <2>2, <2>3 DEF OrderOf
<1>4. Orders' = [Orders EXCEPT ![p] = [phase |-> "pending", tx |-> issued + 1, seen |-> <<>>, upto |-> 0]]
  BY <1>1, <1>3, OrderUpdate
<1>5. answer' = [answer EXCEPT ![p] = Store!NoAnswer] /\ UNCHANGED disk
  BY DEF Begin, NoAnswer, Store!NoAnswer
<1> QED
  BY <1>1, <1>2, <1>4, <1>5 DEF Orders, Store!Issue, disk

\* The steps before the rename.
LEMMA PreparationRefines ==
  ASSUME Inv, NEW p \in Callers, Lock(p) \/ Read(p) \/ Run(p) \/ Sync(p) \/ RemoveTemp(p)
  PROVE  Store!Fail(p) \/ UNCHANGED Store!storeVars
<1> DEFINE c == call[p]
<1>1. /\ c \in Call /\ Knows(c) /\ UNCHANGED <<db, durable, issued>>
      /\ c.pc \in {"mkdir", "read", "run", "sync", "rmtemp"} /\ ~c.renamed /\ c.pc # "idle"
  BY CallTypes DEF Lock, Read, Run, Sync, RemoveTemp, At, Smooth, Trouble, disk, Knows
<1>2. ASSUME NEW n, Become(p, n), n.renamed = c.renamed, n.tx = c.tx, n.pc \notin {"idle", "rclose"}
      PROVE  UNCHANGED Store!storeVars
  <2>1. OrderOf(n) = OrderOf(c)
    <3> HIDE DEF c
    <3> QED
      BY <1>1, <1>2 DEF OrderOf, Phase
  <2> QED
    BY <1>1, <1>2, <2>1, UnseenStep
<1>3. CASE Answered(p, Failed)
  BY <1>1, <1>3, FailedStep
<1>4. CASE ~Answered(p, Failed)
  <2>1. \/ Become(p, [c EXCEPT !.pc = "read"])
        \/ Become(p, [c EXCEPT !.pc = "run", !.base = Whole(db.txs)])
        \/ Become(p, Leave(c))
        \/ Become(p, CleanUp(c))
        \/ \E out \in Results(c) : Become(p, [c EXCEPT !.pc = "sync", !.out = out])
        \/ Become(p, [Flushed(c) EXCEPT !.pc = "rename"])
    <3>1. CASE Lock(p)
      BY <1>4, <3>1, Zenon DEF Lock
    <3>2. CASE Read(p)
      BY <3>2, Zenon DEF Read
    <3>3. CASE Run(p)
      BY <3>3, Zenon DEF Run
    <3>4. CASE Sync(p)
      BY <3>4, Zenon DEF Sync
    <3>5. CASE RemoveTemp(p)
      BY <1>4, <3>5, Zenon DEF RemoveTemp
    <3> QED
      BY <3>1, <3>2, <3>3, <3>4, <3>5
  <2> HIDE DEF c
  <2>2. ASSUME NEW pc \in {"read", "run", "unlock", "rmtemp", "sync", "rename"}, NEW f
        PROVE  /\ [c EXCEPT !.pc = pc].pc = pc /\ [c EXCEPT !.pc = pc].renamed = c.renamed
               /\ [c EXCEPT !.pc = pc].tx = c.tx
               /\ [c EXCEPT !.pc = pc, !.base = f].pc = pc
               /\ [c EXCEPT !.pc = pc, !.base = f].renamed = c.renamed
               /\ [c EXCEPT !.pc = pc, !.base = f].tx = c.tx
               /\ [c EXCEPT !.pc = pc, !.out = f].pc = pc
               /\ [c EXCEPT !.pc = pc, !.out = f].renamed = c.renamed
               /\ [c EXCEPT !.pc = pc, !.out = f].tx = c.tx
               /\ [Flushed(c) EXCEPT !.pc = pc].pc = pc
               /\ [Flushed(c) EXCEPT !.pc = pc].renamed = c.renamed
               /\ [Flushed(c) EXCEPT !.pc = pc].tx = c.tx
    BY <1>1 DEF Call, Flushed
  <2>3. ASSUME NEW m, Become(p, m), m.renamed = c.renamed, m.tx = c.tx,
               m.pc \in {"read", "run", "unlock", "rmtemp", "sync", "rename"}
        PROVE  UNCHANGED Store!storeVars
    BY <1>2, <2>3
  <2>4. CASE \/ Become(p, [c EXCEPT !.pc = "read"])
             \/ Become(p, Leave(c))
             \/ Become(p, CleanUp(c))
    <3>1. PICK pc \in {"read", "unlock", "rmtemp"} : Become(p, [c EXCEPT !.pc = pc])
      BY <2>4 DEF Leave, CleanUp
    <3> DEFINE m == [c EXCEPT !.pc = pc]
    <3>2. m.pc = pc /\ m.renamed = c.renamed /\ m.tx = c.tx
      BY <2>2
    <3>3. Become(p, m)
      BY <3>1
    <3> HIDE DEF m
    <3> QED
      BY <2>3, <3>2, <3>3
  <2>5. CASE Become(p, [c EXCEPT !.pc = "run", !.base = Whole(db.txs)])
    <3> DEFINE m == [c EXCEPT !.pc = "run", !.base = Whole(db.txs)]
    <3>1. m.pc = "run" /\ m.renamed = c.renamed /\ m.tx = c.tx
      BY <2>2
    <3>2. Become(p, m)
      BY <2>5
    <3> HIDE DEF m
    <3> QED
      BY <2>3, <3>1, <3>2
  <2>6. ASSUME NEW out \in Results(c), Become(p, [c EXCEPT !.pc = "sync", !.out = out])
        PROVE  UNCHANGED Store!storeVars
    <3> DEFINE m == [c EXCEPT !.pc = "sync", !.out = out]
    <3>1. m.pc = "sync" /\ m.renamed = c.renamed /\ m.tx = c.tx
      BY <2>2
    <3>2. Become(p, m)
      BY <2>6
    <3> HIDE DEF m
    <3> QED
      BY <2>3, <3>1, <3>2
  <2>7. CASE Become(p, [Flushed(c) EXCEPT !.pc = "rename"])
    <3> DEFINE m == [Flushed(c) EXCEPT !.pc = "rename"]
    <3>1. m.pc = "rename" /\ m.renamed = c.renamed /\ m.tx = c.tx
      BY <2>2
    <3>2. Become(p, m)
      BY <2>7
    <3> HIDE DEF m
    <3> QED
      BY <2>3, <3>1, <3>2
  <2> QED
    BY <2>1, <2>4, <2>5, <2>6, <2>7
<1> QED
  BY <1>3, <1>4

LEMMA RenameRefines ==
  ASSUME Inv, Inv', NEW p \in Callers, Rename(p)
  PROVE  Store!Apply(p) \/ UNCHANGED Store!storeVars
<1> DEFINE c == call[p]
           n == [c EXCEPT !.pc = "dirsync", !.renamed = TRUE]
<1>1. /\ c \in Call /\ Knows(c) /\ c.pc = "rename" /\ UNCHANGED <<durable, issued>>
      /\ ~c.renamed /\ c.base = Whole(db.txs) /\ c.out \in Results(c)
  BY CallTypes DEF Rename, At, Smooth, Trouble, disk, Knows
<1>2. CASE Become(p, CleanUp(c)) /\ UNCHANGED disk
  <2>1. OrderOf(CleanUp(c)) = OrderOf(c)
    <3> DEFINE m == CleanUp(c)
    <3>1. m.pc = "rmtemp" /\ m.renamed = c.renamed /\ m.tx = c.tx
      BY <1>1 DEF CleanUp, Call
    <3> HIDE DEF c, m
    <3>2. Phase(m) = "pending" /\ Phase(c) = "pending"
      BY <1>1, <3>1 DEF Phase
    <3>3. OrderOf(m) = OrderOf(c)
      BY <3>1, <3>2 DEF OrderOf
    <3> QED
      BY <3>3 DEF m
  <2> QED
    BY <1>1, <1>2, <2>1, UnseenStep DEF disk
<1>3. CASE db' = c.out /\ Become(p, n)
  <2>1. c.out.txs \in {db.txs, Append(db.txs, c.tx)} /\ c.base.txs = db.txs
    <3>1. c.base.txs = db.txs
      BY <1>1 DEF Whole
    <3>2. c.out.txs \in {c.base.txs, Append(c.base.txs, c.tx)}
      <4> HIDE DEF c
      <4> QED
        BY <1>1, ResultTypes
    <3> QED
      BY <3>1, <3>2
  <2>2. Orders[p] = [phase |-> "pending", tx |-> c.tx, seen |-> <<>>, upto |-> 0]
    BY <1>1, OrderCases DEF Orders
  <2>3. OrderOf(n) = [phase |-> "applied", tx |-> c.tx, seen |-> db.txs, upto |-> Len(db'.txs)]
    <3>1. n.pc = "dirsync" /\ n.renamed /\ n.tx = c.tx /\ n.base = c.base /\ n.out = c.out
      BY <1>1 DEF Call
    <3>2. c.base.txs = db.txs /\ db' = c.out
      BY <1>3, <2>1
    <3> HIDE DEF n, c
    <3>3. Phase(n) = "applied"
      BY <3>1 DEF Phase
    <3> QED
      BY <3>1, <3>2, <3>3 DEF OrderOf
  <2>4. Orders' = [Orders EXCEPT ![p] =
                     [phase |-> "applied", tx |-> Orders[p].tx, seen |-> db.txs, upto |-> Len(db'.txs)]]
    <3>1. Orders' = [Orders EXCEPT ![p] = OrderOf(n)]
      BY <1>3, OrderUpdate DEF Become
    <3> HIDE DEF n
    <3> QED
      BY <2>2, <2>3, <3>1
  <2>5. db'.txs \in {db.txs, Append(db.txs, Orders[p].tx)}
    BY <1>3, <2>1, <2>2
  <2> QED
    BY <1>1, <1>3, <2>2, <2>4, <2>5 DEF Orders, Store!Apply, Become
<1> QED
  BY <1>2, <1>3 DEF Rename

LEMMA DirSyncRefines ==
  ASSUME Inv, NEW p \in Callers, DirSync(p)
  PROVE  Store!Harden \/ UNCHANGED Store!storeVars
<1> DEFINE c == call[p]
<1>1. /\ c \in Call /\ Knows(c) /\ c.pc = "dirsync" /\ UNCHANGED <<db, issued>> /\ c.renamed
  BY CallTypes DEF DirSync, At, Smooth, Trouble, Knows
<1>2. PICK n \in {Leave(c), [Leave(c) EXCEPT !.ok = TRUE]} :
        Become(p, n) /\ (Harden \/ UNCHANGED <<durable, window>>)
  BY DEF DirSync
<1>3. OrderOf(n) = OrderOf(c)
  <2> HIDE DEF c
  <2>1. n.renamed /\ n.pc = "unlock" /\ n.tx = c.tx /\ n.base = c.base /\ n.out = c.out
    BY <1>1 DEF Leave, Call
  <2> QED
    BY <1>1, <2>1 DEF OrderOf, Phase
<1>4. Orders' = Orders
  BY <1>2, <1>3, OrderUpdate DEF Become, Orders
<1>5. Len(durable'.txs) \in Len(durable.txs) .. Len(db.txs)
  <2>1. /\ Len(db.txs) \in Nat /\ Len(durable.txs) \in Nat
        /\ Len(durable.txs) <= Len(db.txs)
    BY FileTypes DEF Inv, TypeOK, DiskOK
  <2> QED
    BY <1>2, <2>1 DEF Harden
<1> QED
  BY <1>1, <1>2, <1>4, <1>5 DEF Orders, Store!Harden, Become

LEMMA EndRefines ==
  ASSUME Inv, NEW p \in Callers, Unlock(p) \/ ReadOpen(p) \/ ReadClose(p) \/ Crash(p)
  PROVE  Store!Fail(p) \/ Store!Succeed(p) \/ Store!Observe(p) \/ Store!Die(p)
<1> DEFINE c == call[p]
<1>1. c \in Call /\ Knows(c) /\ UNCHANGED <<db, durable, issued>>
  BY CallTypes DEF Unlock, ReadOpen, ReadClose, Crash, Smooth, Trouble, disk
<1>2. CASE Answered(p, Failed) /\ c.pc # "idle"
  BY <1>1, <1>2, FailedStep
<1>3. CASE Answered(p, Resolved(c)) /\ (c.pc = "rclose" \/ c.ok)
  BY <1>1, <1>3, ResolvedStep
<1>4. CASE c.pc = "ropen" /\ Become(p, [c EXCEPT !.pc = "rclose", !.base = db])
  <2> DEFINE n == [c EXCEPT !.pc = "rclose", !.base = db]
  <2>1. Orders[p] = [phase |-> "pending", tx |-> c.tx, seen |-> <<>>, upto |-> 0]
    BY <1>1, <1>4, OrderCases DEF Orders, Knows
  <2>2. OrderOf(n) = [phase |-> "observed", tx |-> c.tx, seen |-> db.txs, upto |-> 0]
    <3> HIDE DEF c
    <3>1. n.pc = "rclose" /\ ~n.renamed /\ n.tx = c.tx /\ n.base = db
      BY <1>1, <1>4 DEF Call, Knows
    <3> HIDE DEF n
    <3>2. Phase(n) = "observed"
      BY <3>1 DEF Phase
    <3> QED
      BY <3>1, <3>2 DEF OrderOf
  <2> HIDE DEF n
  <2>3. Orders' = [Orders EXCEPT ![p] =
                     [phase |-> "observed", tx |-> Orders[p].tx, seen |-> db.txs, upto |-> 0]]
    <3>1. Orders' = [Orders EXCEPT ![p] = OrderOf(n)]
      BY <1>4, OrderUpdate DEF Become, n
    <3> QED
      BY <2>1, <2>2, <3>1
  <2>4. UNCHANGED answer
    BY <1>4 DEF Become
  <2> QED
    BY <1>1, <2>1, <2>3, <2>4 DEF Orders, Store!Observe
<1>5. CASE Become(p, NoCall)
  BY <1>1, <1>5, OrderUpdate, IdleOrder DEF Become, Orders, Store!Die
<1> QED
  BY <1>2, <1>3, <1>4, <1>5 DEF Unlock, ReadOpen, ReadClose, Crash, At

LEMMA PowerLossRefines == Inv /\ PowerLoss => Store!PowerLoss
<1> SUFFICES ASSUME Inv, PowerLoss PROVE Store!PowerLoss
  OBVIOUS
<1>1. PICK left \in window : db' = left /\ durable' = left
  BY DEF PowerLoss
<1>2. /\ Len(left.txs) \in Len(durable.txs) .. Len(db.txs)
      /\ left.txs = SubSeq(db.txs, 1, Len(left.txs))
  BY FileTypes DEF Inv, TypeOK, DiskOK
<1>3. Orders' = [p \in Callers |-> Store!NoOrder]
  BY IdleOrder DEF PowerLoss, Orders
<1> QED
  BY <1>1, <1>2, <1>3 DEF PowerLoss, Trouble, Orders, Store!PowerLoss

LEMMA StepRefines == Inv /\ Inv' /\ [Next]_vars => [Store!Next]_(Store!storeVars)
<1> SUFFICES ASSUME Inv, Inv', [Next]_vars PROVE [Store!Next]_(Store!storeVars)
  OBVIOUS
<1>1. ASSUME NEW p \in Callers, NEW op \in {"open", "write", "read"}, Begin(p, op)
      PROVE  Store!Next
  BY <1>1, BeginRefines DEF Store!Next
<1>2. ASSUME NEW p \in Callers,
             \/ Lock(p) \/ Read(p) \/ Run(p) \/ Sync(p) \/ Rename(p) \/ DirSync(p)
             \/ RemoveTemp(p) \/ Unlock(p) \/ ReadOpen(p) \/ ReadClose(p) \/ Crash(p)
      PROVE  [Store!Next]_(Store!storeVars)
  <2>1. CASE Lock(p) \/ Read(p) \/ Run(p) \/ Sync(p) \/ RemoveTemp(p)
    BY <2>1, PreparationRefines DEF Store!Next
  <2>2. CASE Rename(p)
    BY <2>2, RenameRefines DEF Store!Next
  <2>3. CASE DirSync(p)
    BY <2>3, DirSyncRefines DEF Store!Next
  <2>4. CASE Unlock(p) \/ ReadOpen(p) \/ ReadClose(p) \/ Crash(p)
    BY <2>4, EndRefines DEF Store!Next
  <2> QED
    BY <1>2, <2>1, <2>2, <2>3, <2>4
<1>3. CASE PowerLoss
  BY <1>3, PowerLossRefines DEF Store!Next
<1>4. CASE Recover \/ UNCHANGED vars
  BY <1>4 DEF Recover, vars, Store!storeVars
<1> QED
  BY <1>1, <1>2, <1>3, <1>4 DEF Next

\* The file host is an atomic, durable store: a call takes effect at its rename
\* or not at all, an answered one survives every power loss, and a reader sees
\* one whole database (FileLocalWorkflowHost).
THEOREM FileHostIsAtomic == Spec => ImplementsStore
  BY InitRefines, StepRefines, Invariance, PTL DEF Spec, ImplementsStore, Store!Spec
=============================================================================
