--------------------------- MODULE StatementProofs ---------------------------
(***************************************************************************)
(* Proofs about the two components that are modelled one SQL statement at  *)
(* a time, whose constants and variables have nothing in common: the       *)
(* transactions of a durable wait, and the keys that keep a request from   *)
(* being done twice.                                                       *)
(*                                                                         *)
(* The waits come first, for any number of concurrent calls and            *)
(* suspensions. The inductive invariant adds to the types what the row     *)
(* locks give (LocksHold) and why a waiting execution can always be woken  *)
(* (Wakeable). For calls that do not overlap a second one (SerialInv) says *)
(* that every run that goes on was resumed from all of its waits.          *)
(***************************************************************************)
EXTENDS WaitTransactions, Idempotency, TLAPS
IInv == TypeOK /\ LocksHold /\ Wakeable

-----------------------------------------------------------------------------
(* Types. *)

LEMMA FreeCallType == FreeCall \in CallState
  BY DEF FreeCall, CallState, CallPhase, Kind, Status, Terminal

\* A wait row keeps its shape under the two updates made to it.
LEMMA WaitType ==
  ASSUME TypeOK, NEW i \in DOMAIN waits, NEW k \in Kind
  PROVE  /\ [waits EXCEPT ![i].due = TRUE] \in Seq(Wait)
         /\ [waits EXCEPT ![i].outcome = OutcomeOf[k]] \in Seq(Wait)
         /\ Len([waits EXCEPT ![i].due = TRUE]) = Len(waits)
         /\ Len([waits EXCEPT ![i].outcome = OutcomeOf[k]]) = Len(waits)
  <1>1. waits \in Seq(Wait)
    BY DEF TypeOK
  <1>2. waits[i] \in Wait
    BY <1>1
  <1> DEFINE d == [waits[i] EXCEPT !.due = TRUE]
             o == [waits[i] EXCEPT !.outcome = OutcomeOf[k]]
  <1>3. d \in Wait /\ o \in Wait
    <2>1. OutcomeOf[k] \in {"open", "resumed", "expired", "cancelled"}
      BY DEF OutcomeOf, Kind
    <2> QED
      BY <1>2, <2>1 DEF Wait
  <1> HIDE DEF d, o
  <1>4. /\ [waits EXCEPT ![i] = d] \in Seq(Wait)
        /\ [waits EXCEPT ![i] = o] \in Seq(Wait)
        /\ Len([waits EXCEPT ![i] = d]) = Len(waits)
        /\ Len([waits EXCEPT ![i] = o]) = Len(waits)
    BY <1>1, <1>3
  <1> QED
    BY <1>4 DEF d, o

\* The worker's steps keep the types.
LEMMA WorkerStepType ==
  ASSUME TypeOK, WorkerStep
  PROVE  TypeOK'
  <1> USE CallBounds
  <1>1. CASE Claim
    BY <1>1 DEF Claim, TypeOK, Status
  <1>2. CASE SuspendRead
    BY <1>2 DEF SuspendRead, TypeOK
  <1>3. CASE SuspendWrite
    <2>1. PICK mode \in {"timer", "call"} :
            waits' = Append(waits, [mode |-> mode, due |-> FALSE, outcome |-> "open"])
      BY <1>3 DEF SuspendWrite
    <2>2. [mode |-> mode, due |-> FALSE, outcome |-> "open"] \in Wait
      BY DEF Wait
    <2>3. waits' \in Seq(Wait) /\ Len(waits') <= MaxWaits
      BY <1>3, <2>1, <2>2 DEF SuspendWrite, TypeOK
    <2> QED
      BY <1>3, <2>3 DEF SuspendWrite, TypeOK, Status
  <1>4. CASE FinishCancelling
    BY <1>4 DEF FinishCancelling, TypeOK, Status, Terminal
  <1>5. CASE FinishRunning
    BY <1>5 DEF FinishRunning, TypeOK, Status, Terminal
  <1>6. CASE RecoverCancelled
    BY <1>6 DEF RecoverCancelled, TypeOK, Status, Terminal
  <1>7. CASE Crash \/ Reclaim
    BY <1>7 DEF Crash, Reclaim, TypeOK, Status, Terminal
  <1> QED
    BY <1>1, <1>2, <1>3, <1>4, <1>5, <1>6, <1>7 DEF WorkerStep

\* The steps of a call keep the types. A matched update names a row of the
\* table, which LocksHold says.
LEMMA CallStepType ==
  ASSUME TypeOK, LocksHold, NEW c \in Call, CallStep(c)
  PROVE  TypeOK'
  <1> USE CallBounds
  <1>0. call[c] \in CallState
    BY DEF TypeOK
  <1>1. ASSUME NEW kind \in {"resume", "requeue", "expire"}, NEW i \in WaitId,
               Begin(c, kind, i)
        PROVE  TypeOK'
    <2>1. [FreeCall EXCEPT !.pc = "readExec", !.kind = kind, !.wait = i] \in CallState
      BY DEF FreeCall, CallState, CallPhase, Kind, Status, Terminal
    <2> QED
      BY <1>1, <2>1 DEF Begin, TypeOK
  <1>2. CASE ReadExec(c)
    <2>1. [call[c] EXCEPT !.pc = "consume"] \in CallState
      BY <1>0 DEF CallState, CallPhase
    <2> QED
      BY <1>2, <2>1, FreeCallType DEF ReadExec, TypeOK
  <1>3. CASE Consume(c)
    <2>1. \A b \in BOOLEAN : [call[c] EXCEPT !.pc = "settleExec", !.hitWait = b] \in CallState
      BY <1>0 DEF CallState, CallPhase
    <2>2. Open(call[c].wait) \in BOOLEAN
      BY DEF Open
    <2> QED
      BY <1>3, <2>1, <2>2 DEF Consume, TypeOK
  <1>4. CASE SettleExec(c)
    <2>1. \A b \in BOOLEAN : [call[c] EXCEPT !.pc = "commit", !.hitExec = b] \in CallState
      BY <1>0 DEF CallState, CallPhase
    <2> QED
      BY <1>4, <2>1 DEF SettleExec, TypeOK
  <1>5. CASE Commit(c)
    <2>1. call[c].kind \in Kind /\ StatusOf[call[c].kind] \in Status
      BY <1>0 DEF CallState, Kind, StatusOf, Status, Terminal
    <2>2. call[c].hitWait => call[c].wait \in DOMAIN waits
      BY DEF LocksHold, Open
    <2>3. waits' \in Seq(Wait) /\ Len(waits') = Len(waits)
      BY <1>5, <2>1, <2>2, WaitType DEF Commit, TypeOK
    <2>4. answers' \in [WaitId -> Nat] /\ status' \in Status
      <3>1. answers \in [WaitId -> Nat] /\ status \in Status
        BY DEF TypeOK
      <3>2. answers' = answers \/ answers' = [answers EXCEPT ![call[c].wait] = @ + 1]
        BY <1>5 DEF Commit
      <3>3. answers' \in [WaitId -> Nat]
        BY <3>1, <3>2
      <3>4. status' \in Status
        BY <1>5, <2>1, <3>1 DEF Commit
      <3> QED
        BY <3>3, <3>4
    <2>5. call' \in [Call -> CallState]
      BY <1>5, FreeCallType DEF Commit, TypeOK
    <2> QED
      BY <1>5, <2>3, <2>4, <2>5 DEF Commit, TypeOK
  <1>6. CASE CancelRead(c)
    <2> DEFINE s == [FreeCall EXCEPT !.kind = "cancel",
                    !.pc = IF status = "waiting" THEN "settleFirst" ELSE "overwrite",
                    !.seen = status]
    <2>1. s \in CallState
      BY DEF FreeCall, CallState, CallPhase, Kind, TypeOK
    <2> QED
      BY <1>6, <2>1 DEF CancelRead, TypeOK
  <1>7. CASE Overwrite(c)
    BY <1>7, FreeCallType DEF Overwrite, TypeOK, Status, Terminal
  <1>8. CASE CancelExec(c)
    <2>1. [call[c] EXCEPT !.pc = "findWait", !.hitExec = TRUE] \in CallState
      BY <1>0 DEF CallState, CallPhase
    <2> QED
      BY <1>8, <2>1, FreeCallType DEF CancelExec, TypeOK
  <1>9. CASE CancelFind(c)
    <2>1. \A i \in DOMAIN waits : i \in WaitId
      BY DEF TypeOK, WaitId
    <2>2. [call[c] EXCEPT !.pc = "commit"] \in CallState
      BY <1>0 DEF CallState, CallPhase
    <2>3. \A i \in DOMAIN waits : [call[c] EXCEPT !.pc = "consumeLast", !.wait = i] \in CallState
      BY <1>0, <2>1 DEF CallState, CallPhase
    <2>4. \/ call' = [call EXCEPT ![c].pc = "commit"]
          \/ \E i \in DOMAIN waits : call' = [call EXCEPT ![c].pc = "consumeLast", ![c].wait = i]
      BY <1>9 DEF CancelFind
    <2>5. call' \in [Call -> CallState]
      BY <2>2, <2>3, <2>4 DEF TypeOK
    <2> QED
      BY <1>9, <2>5 DEF CancelFind, TypeOK
  <1>10. CASE CancelConsume(c)
    <2>1. \A b \in BOOLEAN : [call[c] EXCEPT !.pc = "commit", !.hitWait = b] \in CallState
      BY <1>0 DEF CallState, CallPhase
    <2>2. Open(call[c].wait) \in BOOLEAN
      BY DEF Open
    <2> QED
      BY <1>10, <2>1, <2>2 DEF CancelConsume, TypeOK
  <1>11. CASE Rollback(c)
    BY <1>11, FreeCallType DEF Rollback, TypeOK
  <1> QED
    BY <1>1, <1>2, <1>3, <1>4, <1>5, <1>6, <1>7, <1>8, <1>9, <1>10, <1>11 DEF CallStep

LEMMA DeadlinePassesType ==
  ASSUME TypeOK, NEW i \in WaitId, DeadlinePasses(i)
  PROVE  TypeOK'
  <1>1. i \in DOMAIN waits /\ "resume" \in Kind
    BY DEF DeadlinePasses, Open, Kind
  <1>2. waits' \in Seq(Wait) /\ Len(waits') = Len(waits)
    BY <1>1, WaitType DEF DeadlinePasses
  <1> QED
    BY <1>2 DEF DeadlinePasses, TypeOK

-----------------------------------------------------------------------------
(* Locks. *)

\* The worker only writes an unlocked execution row, and no wait that exists.
LEMMA WorkerStepLocks ==
  ASSUME TypeOK, LocksHold, WorkerStep
  PROVE  LocksHold'
  <1>1. call' = call
    BY DEF WorkerStep, Claim, SuspendRead, SuspendWrite, FinishCancelling,
           FinishRunning, RecoverCancelled, Crash, Reclaim
  <1>2. ExecLocked => status' = status
    BY DEF WorkerStep, Claim, SuspendRead, SuspendWrite, FinishCancelling,
           FinishRunning, RecoverCancelled, Crash, Reclaim
  <1>3. \A i \in DOMAIN waits : i \in DOMAIN waits' /\ waits'[i] = waits[i]
    <2>1. CASE SuspendWrite
      BY <2>1 DEF SuspendWrite, TypeOK
    <2>2. CASE waits' = waits
      BY <2>2
    <2> QED
      BY <2>1, <2>2 DEF WorkerStep, Claim, SuspendRead, FinishCancelling,
           FinishRunning, RecoverCancelled, Crash, Reclaim
  <1> QED
    BY <1>1, <1>2, <1>3 DEF LocksHold, ExecLocked, Open

\* A call takes a lock only on a free row it matched, and gives up every lock
\* when it commits, is refused or is rolled back.
LEMMA CallStepLocks ==
  ASSUME TypeOK, LocksHold, NEW c \in Call, CallStep(c)
  PROVE  LocksHold'
  <1>0. /\ call \in [Call -> CallState] /\ call[c] \in CallState
        /\ ~FreeCall.hitExec /\ ~FreeCall.hitWait /\ FreeCall.pc = "free"
    BY DEF TypeOK, FreeCall
  <1>a. ASSUME ~(call'[c].hitExec) /\ ~(call'[c].hitWait),
               call'[c].pc \notin {"findWait", "consumeLast"},
               UNCHANGED <<status, waits>>,
               \A d \in Call \ {c} : call'[d] = call[d]
        PROVE  LocksHold'
    BY <1>0, <1>a DEF LocksHold, Open
  <1>1. ASSUME NEW kind \in {"resume", "requeue", "expire"}, NEW i \in WaitId,
               Begin(c, kind, i)
        PROVE  LocksHold'
    BY <1>0, <1>1, <1>a DEF Begin, FreeCall
  <1>2. CASE ReadExec(c)
    <2>1. ~call[c].hitExec /\ ~call[c].hitWait
      BY <1>2 DEF ReadExec, LocksHold
    <2> QED
      BY <1>0, <1>2, <1>a, <2>1 DEF ReadExec, CallState
  <1>3. CASE Consume(c)
    BY <1>0, <1>3 DEF Consume, LocksHold, Open, WaitLocked, CallState
  <1>4. CASE SettleExec(c)
    BY <1>0, <1>4 DEF SettleExec, LocksHold, Open, ExecLocked, CallState
  <1>5. CASE Commit(c)
    <2>1. \A d \in Call \ {c} : call'[d] = call[d]
      BY <1>0, <1>5 DEF Commit
    <2>2. ~call'[c].hitExec /\ ~call'[c].hitWait /\ call'[c].pc = "free"
      BY <1>0, <1>5 DEF Commit
    <2>3. \A d \in Call \ {c} : call[d].hitExec => status' = status
      BY <1>5 DEF Commit, LocksHold
    <2>4. \A d \in Call \ {c} : call[d].hitWait =>
             call[d].wait \in DOMAIN waits' /\ waits'[call[d].wait] = waits[call[d].wait]
      BY <1>5 DEF Commit, LocksHold, Open, TypeOK
    <2> QED
      BY <2>1, <2>2, <2>3, <2>4 DEF LocksHold, Open
  <1>6. CASE CancelRead(c)
    BY <1>0, <1>6, <1>a DEF CancelRead, FreeCall
  <1>7. CASE Overwrite(c)
    <2>1. \A d \in Call : ~call[d].hitExec
      BY <1>7 DEF Overwrite, ExecLocked
    <2>2. /\ \A d \in Call \ {c} : call'[d] = call[d]
          /\ ~call'[c].hitExec /\ ~call'[c].hitWait /\ call'[c].pc = "free"
      BY <1>0, <1>7 DEF Overwrite
    <2> QED
      BY <1>7, <2>1, <2>2 DEF Overwrite, LocksHold, Open
  <1>8. CASE CancelExec(c)
    <2>1. /\ \A d \in Call : ~call[d].hitExec
          /\ ~call[c].hitWait
      BY <1>8 DEF CancelExec, ExecLocked, LocksHold
    <2>2. \A d \in Call \ {c} : call'[d] = call[d]
      BY <1>0, <1>8 DEF CancelExec
    <2>3. CASE status = "waiting"
      <3>1. call'[c].hitExec /\ ~call'[c].hitWait /\ call'[c].pc = "findWait"
        BY <1>0, <1>8, <2>1, <2>3 DEF CancelExec, CallState
      <3> QED
        BY <1>8, <2>1, <2>2, <2>3, <3>1 DEF CancelExec, LocksHold, Open
    <2>4. CASE status # "waiting"
      <3>1. call'[c] = FreeCall
        BY <1>0, <1>8, <2>4 DEF CancelExec
      <3> QED
        BY <1>0, <1>8, <1>a, <2>2, <3>1 DEF CancelExec
    <2> QED
      BY <2>3, <2>4
  <1>9. CASE CancelFind(c)
    <2>1. ~call[c].hitWait
      BY <1>9 DEF CancelFind, LocksHold
    <2>2. \/ call' = [call EXCEPT ![c].pc = "commit"]
          \/ \E i \in DOMAIN waits :
                call' = [call EXCEPT ![c].pc = "consumeLast", ![c].wait = i]
      BY <1>9 DEF CancelFind
    <2>3. /\ call'[c].hitExec = call[c].hitExec /\ call'[c].hitWait = call[c].hitWait
          /\ call'[c].pc \in {"commit", "consumeLast"}
          /\ \A d \in Call \ {c} : call'[d] = call[d]
      BY <1>0, <2>2 DEF CallState
    <2> QED
      BY <1>9, <2>1, <2>3 DEF CancelFind, LocksHold, Open
  <1>10. CASE CancelConsume(c)
    BY <1>0, <1>10 DEF CancelConsume, LocksHold, Open, WaitLocked, CallState
  <1>11. CASE Rollback(c)
    BY <1>0, <1>11, <1>a DEF Rollback
  <1> QED
    BY <1>1, <1>2, <1>3, <1>4, <1>5, <1>6, <1>7, <1>8, <1>9, <1>10, <1>11 DEF CallStep

LEMMA DeadlinePassesLocks ==
  ASSUME TypeOK, LocksHold, NEW i \in WaitId, DeadlinePasses(i)
  PROVE  LocksHold'
  BY DEF DeadlinePasses, LocksHold, Open, TypeOK

-----------------------------------------------------------------------------
(* A waiting execution can be woken. *)

\* Suspending opens a wait no call knows yet; no other step of the worker
\* makes the execution wait.
LEMMA WorkerStepWakeable ==
  ASSUME TypeOK, LocksHold, Wakeable, WorkerStep
  PROVE  Wakeable'
  <1>1. CASE SuspendWrite
    <2> DEFINE n == Len(waits) + 1
    <2>1. PICK mode \in {"timer", "call"} :
            waits' = Append(waits, [mode |-> mode, due |-> FALSE, outcome |-> "open"])
      BY <1>1 DEF SuspendWrite
    <2>2. n \in DOMAIN waits' /\ waits'[n].outcome = "open" /\ n \notin DOMAIN waits
      BY <2>1 DEF TypeOK
    <2>3. \A c \in Call : call'[c].hitWait => call'[c].wait # n
      BY <1>1, <2>2 DEF SuspendWrite, LocksHold, Open
    <2> QED
      BY <2>2, <2>3 DEF Wakeable, Open
  <1>2. CASE ~SuspendWrite
    <2>1. UNCHANGED <<waits, call>> /\ (status' = "waiting" => status = "waiting")
      BY <1>2 DEF WorkerStep, Claim, SuspendRead, FinishCancelling, FinishRunning,
             RecoverCancelled, Crash, Reclaim
    <2> QED
      BY <2>1 DEF Wakeable, Open
  <1> QED
    BY <1>1, <1>2

\* A call that consumes the wait behind a waiting execution moves the
\* execution in the same commit.
LEMMA CallStepWakeable ==
  ASSUME TypeOK, LocksHold, Wakeable, NEW c \in Call, CallStep(c)
  PROVE  Wakeable'
  <1> SUFFICES ASSUME status' = "waiting"
               PROVE  \E i \in DOMAIN waits' :
                        /\ Open(i)'
                        /\ \A d \in Call : call'[d].hitWait /\ call'[d].wait = i =>
                              call'[d].pc = "settleExec" \/ call'[d].hitExec
    BY DEF Wakeable
  <1>0. call \in [Call -> CallState] /\ call[c] \in CallState
    BY DEF TypeOK
  <1>s. status = "waiting"
    <2>1. CASE Commit(c)
      BY <1>0, <2>1 DEF Commit, StatusOf, Kind, CallState
    <2>2. CASE Overwrite(c)
      BY <2>2 DEF Overwrite
    <2>3. CASE UNCHANGED status
      BY <2>3
    <2> QED
      BY <2>1, <2>2, <2>3 DEF CallStep, Begin, ReadExec, Consume, SettleExec, CancelRead,
         CancelExec, CancelFind, CancelConsume, Rollback
  <1>p. PICK i \in DOMAIN waits :
          /\ Open(i)
          /\ \A d \in Call : call[d].hitWait /\ call[d].wait = i =>
                call[d].pc = "settleExec" \/ call[d].hitExec
    BY <1>s DEF Wakeable
  <1>a. ASSUME UNCHANGED waits, \A d \in Call \ {c} : call'[d] = call[d],
               call'[c].hitWait /\ call'[c].wait = i =>
                  call'[c].pc = "settleExec" \/ call'[c].hitExec
        PROVE  /\ i \in DOMAIN waits' /\ Open(i)'
               /\ \A d \in Call : call'[d].hitWait /\ call'[d].wait = i =>
                     call'[d].pc = "settleExec" \/ call'[d].hitExec
    BY <1>p, <1>a DEF Open
  <1>f. call' = [call EXCEPT ![c] = FreeCall] => ~call'[c].hitWait
    BY <1>0 DEF FreeCall
  <1>1. ASSUME NEW kind \in {"resume", "requeue", "expire"}, NEW j \in WaitId,
               Begin(c, kind, j)
        PROVE  ~call'[c].hitWait /\ UNCHANGED waits /\ \A d \in Call \ {c} : call'[d] = call[d]
    BY <1>0, <1>1 DEF Begin, FreeCall
  <1>2. CASE ReadExec(c)
    <2>1. ~call[c].hitWait
      BY <1>2 DEF ReadExec, LocksHold
    <2> QED
      BY <1>0, <1>2, <1>a, <2>1 DEF ReadExec, FreeCall, CallState
  <1>3. CASE Consume(c)
    BY <1>0, <1>3, <1>a DEF Consume, CallState
  <1>4. CASE SettleExec(c)
    BY <1>0, <1>s, <1>4, <1>a DEF SettleExec, CallState
  <1>5. CASE Commit(c)
    <2>1. ~call[c].hitExec
      BY <1>5 DEF Commit, StatusOf, Kind, TypeOK, CallState
    <2>2. ~(call[c].hitWait /\ call[c].wait = i)
      BY <1>p, <1>5, <2>1 DEF Commit
    <2>3. i \in DOMAIN waits' /\ waits'[i] = waits[i]
      BY <1>5, <2>2 DEF Commit, LocksHold, Open, TypeOK
    <2>4. \A d \in Call \ {c} : call'[d] = call[d]
      BY <1>0, <1>5 DEF Commit
    <2>5. ~call'[c].hitWait
      BY <1>5, <1>f DEF Commit
    <2> QED
      BY <1>p, <2>3, <2>4, <2>5 DEF Open
  <1>6. CASE CancelRead(c)
    BY <1>0, <1>6, <1>a DEF CancelRead, FreeCall
  <1>7. CASE Overwrite(c)
    BY <1>7, <1>f, <1>a, <1>0 DEF Overwrite
  <1>8. CASE CancelExec(c)
    <2>1. ~call[c].hitWait
      BY <1>8 DEF CancelExec, LocksHold
    <2> QED
      BY <1>0, <1>8, <1>a, <2>1 DEF CancelExec, FreeCall, CallState
  <1>9. CASE CancelFind(c)
    <2>1. ~call[c].hitWait
      BY <1>9 DEF CancelFind, LocksHold
    <2>2. \/ call' = [call EXCEPT ![c].pc = "commit"]
          \/ \E j \in DOMAIN waits :
                call' = [call EXCEPT ![c].pc = "consumeLast", ![c].wait = j]
      BY <1>9 DEF CancelFind
    <2>3. ~call'[c].hitWait /\ \A d \in Call \ {c} : call'[d] = call[d]
      BY <1>0, <2>1, <2>2 DEF CallState
    <2> QED
      BY <1>9, <2>3, <1>a DEF CancelFind
  <1>10. CASE CancelConsume(c)
    <2>1. call[c].hitExec
      BY <1>10 DEF CancelConsume, LocksHold
    <2> QED
      BY <1>0, <1>10, <1>a, <2>1 DEF CancelConsume, CallState
  <1>11. CASE Rollback(c)
    BY <1>11, <1>f, <1>a, <1>0 DEF Rollback
  <1> QED
    BY <1>1, <1>2, <1>3, <1>4, <1>5, <1>6, <1>7, <1>8, <1>9, <1>10, <1>11, <1>a DEF CallStep

LEMMA DeadlinePassesWakeable ==
  ASSUME TypeOK, Wakeable, NEW i \in WaitId, DeadlinePasses(i)
  PROVE  Wakeable'
  <1>1. /\ DOMAIN waits' = DOMAIN waits
        /\ \A j \in DOMAIN waits : waits'[j].outcome = waits[j].outcome
    BY DEF DeadlinePasses, Open, TypeOK, Wait
  <1> QED
    BY <1>1 DEF DeadlinePasses, Wakeable, Open

-----------------------------------------------------------------------------
(* The invariant and the theorems. *)

LEMMA InitInv == Init => IInv
  <1> SUFFICES ASSUME Init PROVE IInv
    OBVIOUS
  <1>1. TypeOK
    BY FreeCallType, CallBounds DEF Init, TypeOK, Status
  <1>2. LocksHold
    BY DEF Init, LocksHold, FreeCall
  <1>3. Wakeable
    BY DEF Init, Wakeable
  <1> QED
    BY <1>1, <1>2, <1>3 DEF IInv

LEMMA NextInv == IInv /\ [Next]_vars => IInv'
  <1> SUFFICES ASSUME IInv, [Next]_vars PROVE IInv'
    OBVIOUS
  <1> USE DEF IInv
  <1>1. CASE WorkerStep
    BY <1>1, WorkerStepType, WorkerStepLocks, WorkerStepWakeable
  <1>2. ASSUME NEW c \in Call, CallStep(c) PROVE IInv'
    BY <1>2, CallStepType, CallStepLocks, CallStepWakeable
  <1>3. ASSUME NEW i \in WaitId, DeadlinePasses(i) PROVE IInv'
    BY <1>3, DeadlinePassesType, DeadlinePassesLocks, DeadlinePassesWakeable
  <1>4. CASE UNCHANGED vars
    <2>1. UNCHANGED <<status, leased, waits, worker, call, made, starts, from, answers>>
      BY <1>4 DEF vars
    <2>2. TypeOK'
      BY <2>1 DEF TypeOK
    <2>3. LocksHold' /\ Wakeable'
      BY <2>1 DEF LocksHold, Wakeable, Open
    <2> QED
      BY <2>2, <2>3
  <1> QED
    BY <1>1, <1>2, <1>3, <1>4 DEF Next

\* No interleaving of resumes, sweeps, cancels and suspensions parks an
\* execution that nothing can wake.
THEOREM AlwaysWakeable == Spec => []WaitingCanBeWoken
  <1>1. IInv => WaitingCanBeWoken
    BY DEF IInv, Wakeable, WaitingCanBeWoken
  <1> QED
    BY InitInv, NextInv, <1>1, PTL DEF Spec

\* The consumed_at guard, re-evaluated under the row lock, makes the first
\* outcome of a wait its last.
LEMMA ConsumedStays ==
  ASSUME IInv, Next, NEW i \in DOMAIN waits, waits[i].outcome # "open"
  PROVE  i \in DOMAIN waits' /\ waits'[i].outcome = waits[i].outcome
  <1>0. waits \in Seq(Wait)
    BY DEF IInv, TypeOK
  <1>1. CASE SuspendWrite
    BY <1>0, <1>1 DEF SuspendWrite
  <1>2. ASSUME NEW c \in Call, Commit(c)
        PROVE  i \in DOMAIN waits' /\ waits'[i].outcome = waits[i].outcome
    <2>1. call[c].hitWait => call[c].wait # i /\ call[c].wait \in DOMAIN waits
      BY DEF IInv, LocksHold, Open
    <2> QED
      BY <1>0, <1>2, <2>1 DEF Commit
  <1>3. ASSUME NEW j \in WaitId, DeadlinePasses(j)
        PROVE  i \in DOMAIN waits' /\ waits'[i].outcome = waits[i].outcome
    BY <1>0, <1>3 DEF DeadlinePasses, Open, Wait
  <1>4. CASE waits' = waits
    BY <1>4
  <1> QED
    BY <1>1, <1>2, <1>3, <1>4 DEF Next, WorkerStep, Claim, SuspendRead, FinishCancelling,
       FinishRunning, RecoverCancelled, Crash, Reclaim, CallStep, Begin, ReadExec, Consume, SettleExec,
       CancelRead, Overwrite, CancelExec, CancelFind, CancelConsume, Rollback

\* A wait has one outcome for ever.
THEOREM WaitOutcomeIsFinal == Spec => ConsumedIsFinal
  <1> DEFINE Stays == \A i \in DOMAIN waits : waits[i].outcome # "open" =>
                        i \in DOMAIN waits' /\ waits'[i].outcome = waits[i].outcome
  <1>1. IInv /\ [Next]_vars => [Stays]_vars
    BY ConsumedStays
  <1> QED
    BY InitInv, NextInv, <1>1, PTL DEF Spec, ConsumedIsFinal

\* A finished row is under no lock and matches no guarded update; the
\* unguarded update of a late cancel writes cancelled or cancelling.
LEMMA FinishedStays ==
  ASSUME IInv, Next, status \in Terminal
  PROVE  status' \notin {"queued", "running", "waiting"}
  <1>0. status \notin {"queued", "running", "waiting", "cancelling"}
    BY DEF Terminal
  <1>1. CASE WorkerStep
    BY <1>0, <1>1 DEF WorkerStep, Claim, SuspendRead, SuspendWrite, FinishCancelling,
       FinishRunning, RecoverCancelled, Crash, Reclaim
  <1>2. ASSUME NEW c \in Call, CallStep(c)
        PROVE  status' \notin {"queued", "running", "waiting"}
    <2>1. ~call[c].hitExec
      BY <1>0 DEF IInv, LocksHold
    <2>2. CASE Commit(c)
      BY <1>0, <2>1, <2>2 DEF Commit
    <2>3. CASE Overwrite(c)
      BY <2>3 DEF Overwrite
    <2>4. CASE UNCHANGED status
      BY <1>0, <2>4
    <2> QED
      BY <1>2, <2>2, <2>3, <2>4 DEF CallStep, Begin, ReadExec, Consume, SettleExec,
         CancelRead, CancelExec, CancelFind, CancelConsume, Rollback
  <1>3. ASSUME NEW i \in WaitId, DeadlinePasses(i)
        PROVE  status' \notin {"queued", "running", "waiting"}
    BY <1>0, <1>3 DEF DeadlinePasses
  <1> QED
    BY <1>1, <1>2, <1>3 DEF Next

\* A late resume, sweep or cancel never brings a finished execution back.
THEOREM FinishedStaysOut == Spec => FinishedNeverRequeued
  <1>1. IInv /\ [Next]_vars =>
           [(status \in Terminal) => status' \notin {"queued", "running", "waiting"}]_vars
    BY FinishedStays
  <1> QED
    BY InitInv, NextInv, <1>1, PTL DEF Spec, FinishedNeverRequeued

-----------------------------------------------------------------------------
(* Calls one at a time. *)

\* A run that may go on was resumed from every wait; a waiting one from all but
\* the last, and its worker is done. A running one is under a lease.
ResumedSoFar ==
    /\ status \in {"queued", "running"} =>
          \A i \in DOMAIN waits : waits[i].outcome = "resumed"
    /\ status = "waiting" =>
          /\ waits # <<>>
          /\ \A i \in DOMAIN waits :
                waits[i].outcome = IF i = Len(waits) THEN "open" ELSE "resumed"
    /\ status \in {"queued", "waiting"} => worker = "idle"
    /\ status = "running" => leased

\* A checkpoint is started from once its wait was resumed and the run was
\* queued; a wait is answered when it is over.
StartedOnce ==
    /\ \A k \in 0 .. MaxWaits : starts[k] <= 1
    /\ \A k \in WaitId : starts[k] = 1 => k \in DOMAIN waits /\ waits[k].outcome = "resumed"
    /\ status = "queued" => starts[Len(waits)] = 0
AnsweredOnce ==
    \A i \in WaitId : answers[i] <= 1
        /\ (answers[i] = 1 => i \in DOMAIN waits /\ waits[i].outcome # "open")

\* Nobody comes between the statements of a call: both of its updates match.
BothMatch(c) ==
    LET s == call[c] IN
    /\ s.kind = "cancel" => s.pc \notin {"readExec", "consume", "settleExec"}
    /\ s.kind # "cancel" => s.pc \notin {"settleFirst", "findWait", "consumeLast", "overwrite"}
    /\ s.pc = "readExec" => Open(s.wait)
    /\ s.pc \in {"consume", "settleExec"} => status = "waiting" /\ Open(s.wait)
    /\ s.pc = "settleExec" => s.hitWait
    /\ s.pc = "commit" => s.hitExec /\ (s.kind # "cancel" => s.hitWait)

\* A running execution was handed out from its last wait, and no worker runs it
\* from an older one.
FromLast ==
    /\ status = "running" => starts[Len(waits)] = 1
    /\ worker # "idle" => /\ starts[from] = 1
                          /\ \A k \in 0 .. MaxWaits : starts[k] = 1 => k <= from

SerialInv ==
    /\ ResumedSoFar /\ StartedOnce /\ FromLast /\ AnsweredOnce
    /\ \A c \in Call : BothMatch(c)

\* No call is in its transaction while the worker takes a step that it could
\* notice.
LEMMA WorkerStepSerial ==
  ASSUME IInv, SerialInv, WorkerStep
  PROVE  SerialInv'
  <1>1. status # "waiting" /\ call' = call /\ answers' = answers
    BY DEF SerialInv, ResumedSoFar, WorkerStep, Claim, SuspendRead, SuspendWrite,
       FinishCancelling, FinishRunning, RecoverCancelled, Crash, Reclaim
  <1>o. \A i : Open(i) => Open(i)'
    <2>1. waits' = waits \/ \E w : waits' = Append(waits, w)
      BY DEF WorkerStep, Claim, SuspendRead, SuspendWrite, FinishCancelling, FinishRunning,
         RecoverCancelled, Crash, Reclaim
    <2>2. waits \in Seq(Wait)
      BY DEF IInv, TypeOK
    <2> QED
      BY <2>1, <2>2 DEF Open
  <1>2. \A c \in Call : BothMatch(c)'
    <2> SUFFICES ASSUME NEW c \in Call PROVE BothMatch(c)'
      OBVIOUS
    <2>1. BothMatch(c) /\ call[c].pc \notin {"consume", "settleExec", "commit"}
      BY <1>1 DEF SerialInv, BothMatch, IInv, LocksHold
    <2> QED
      BY <1>1, <1>o, <2>1 DEF BothMatch
  <1>3. /\ waits \in Seq(Wait) /\ Len(waits) \in 0 .. MaxWaits /\ DOMAIN waits = 1 .. Len(waits)
        /\ starts \in [0 .. MaxWaits -> Nat]
        /\ worker = "inserting" => Len(waits) < MaxWaits
    BY CallBounds DEF IInv, TypeOK
  <1>n. ASSUME status \in {"queued", "running"}, NEW k \in 0 .. MaxWaits, Latest(k)
        PROVE  k = Len(waits)
    <2>1. {0} \cup {i \in DOMAIN waits : waits[i].outcome = "resumed"} = 0 .. Len(waits)
      BY <1>3, <1>n DEF SerialInv, ResumedSoFar
    <2>2. Newest(0 .. Len(waits), k)
      BY <1>n, <2>1 DEF Latest
    <2>3. PICK n : n = Len(waits)
      OBVIOUS
    <2>4. n \in Nat /\ k \in 0 .. n /\ \A j \in 0 .. n : j <= k
      BY <1>3, <2>2, <2>3 DEF Newest
    <2>5. n <= k /\ k <= n
      BY <2>4
    <2> QED
      BY <2>3, <2>4, <2>5
  <1>4. CASE Claim
    <2>1. PICK k \in 0 .. MaxWaits :
            Latest(k) /\ starts' = [starts EXCEPT ![k] = @ + 1] /\ from' = k
      BY <1>4 DEF Claim
    <2>2. k = Len(waits)
      BY <1>4, <1>n, <2>1 DEF Claim
    <2>3. starts[k] = 0
      BY <1>4, <2>2 DEF Claim, SerialInv, StartedOnce
    <2>4. waits' = waits /\ status' = "running"
      BY <1>4 DEF Claim
    <2>5. k \in DOMAIN waits => waits[k].outcome = "resumed"
      BY <1>4 DEF Claim, SerialInv, ResumedSoFar
    <2>6. \A l \in 0 .. MaxWaits : starts'[l] = IF l = k THEN 1 ELSE starts[l]
      BY <1>3, <2>1, <2>3
    <2>7. StartedOnce'
      <3>1. \A l \in 0 .. MaxWaits : starts'[l] <= 1
        BY <2>6 DEF SerialInv, StartedOnce
      <3>2. ASSUME NEW l \in WaitId, starts'[l] = 1
            PROVE  l \in DOMAIN waits /\ waits[l].outcome = "resumed"
        <4>1. CASE l = k
          <5>1. k \in DOMAIN waits
            BY <1>3, <2>2, <4>1 DEF WaitId
          <5> QED
            BY <2>5, <4>1, <5>1
        <4>2. CASE l # k
          <5>1. starts[l] = 1
            BY <2>6, <3>2, <4>2, CallBounds DEF WaitId
          <5> QED
            BY <5>1 DEF SerialInv, StartedOnce
        <4> QED
          BY <4>1, <4>2
      <3> QED
        BY <2>4, <3>1, <3>2 DEF StartedOnce
    <2>8. ResumedSoFar'
      BY <1>4, <2>4 DEF Claim, SerialInv, ResumedSoFar
    <2>9. FromLast'
      <3>1. starts'[Len(waits')] = 1 /\ starts'[from'] = 1
        BY <2>1, <2>2, <2>4, <2>6
      <3>2. ASSUME NEW l \in 0 .. MaxWaits, starts'[l] = 1 PROVE l <= Len(waits)
        <4>1. CASE l = k
          BY <1>3, <2>2, <4>1
        <4>2. CASE l # k
          BY <1>3, <2>6, <3>2, <4>2 DEF SerialInv, StartedOnce, WaitId
        <4> QED
          BY <4>1, <4>2
      <3> QED
        BY <2>1, <2>2, <3>1, <3>2 DEF FromLast
    <2> QED
      BY <1>1, <1>2, <2>4, <2>7, <2>8, <2>9 DEF SerialInv, AnsweredOnce
  <1>5. CASE SuspendWrite
    <2>1. PICK w \in Wait : waits' = Append(waits, w) /\ w.outcome = "open"
      <3>1. PICK mode \in {"timer", "call"} :
              waits' = Append(waits, [mode |-> mode, due |-> FALSE, outcome |-> "open"])
        BY <1>5 DEF SuspendWrite
      <3>2. [mode |-> mode, due |-> FALSE, outcome |-> "open"] \in Wait
        BY DEF Wait
      <3> QED
        BY <3>1, <3>2
    <2>2. /\ Len(waits') = Len(waits) + 1 /\ DOMAIN waits' = 1 .. Len(waits) + 1
          /\ \A i \in DOMAIN waits : waits'[i] = waits[i]
          /\ waits'[Len(waits')] = w /\ waits' # <<>>
      BY <1>3, <2>1
    <2>3. status \notin {"queued", "waiting"} /\ status' \notin {"queued", "running"}
          /\ (status' = "waiting" => status = "running") /\ starts' = starts /\ worker' = "idle"
      <3>1. status \notin {"queued", "waiting"} /\ worker' = "idle" /\ starts' = starts
        BY <1>5 DEF SuspendWrite, SerialInv, ResumedSoFar
      <3>2. IF status = "running" /\ leased THEN status' = "waiting" ELSE UNCHANGED <<status, leased>>
        BY <1>5 DEF SuspendWrite
      <3>3. status = "running" => leased
        BY DEF SerialInv, ResumedSoFar
      <3> QED
        BY <3>1, <3>2, <3>3
    <2>4. ResumedSoFar'
      BY <1>3, <2>1, <2>2, <2>3 DEF SerialInv, ResumedSoFar
    <2>5. StartedOnce' /\ AnsweredOnce'
      BY <1>1, <1>3, <2>2, <2>3 DEF SerialInv, StartedOnce, AnsweredOnce
    <2>6. FromLast'
      BY <2>3 DEF FromLast
    <2> QED
      BY <1>2, <2>4, <2>5, <2>6 DEF SerialInv
  <1>6. CASE SuspendRead \/ FinishCancelling \/ FinishRunning \/ RecoverCancelled
    <2>1. /\ waits' = waits /\ starts' = starts /\ status' \notin {"queued", "waiting"}
          /\ status' = "running" => status = "running" /\ leased'
      BY <1>1, <1>6 DEF SuspendRead, FinishCancelling, FinishRunning, RecoverCancelled,
         SerialInv, ResumedSoFar
    <2>2. from' = from /\ (worker' # "idle" => worker # "idle")
      BY <1>6 DEF SuspendRead, FinishCancelling, FinishRunning, RecoverCancelled
    <2>3. FromLast'
      BY <2>1, <2>2 DEF SerialInv, FromLast
    <2> QED
      BY <1>1, <1>2, <2>1, <2>3 DEF SerialInv, ResumedSoFar, StartedOnce, AnsweredOnce
  <1>7. CASE Crash
    BY <1>1, <1>2, <1>7 DEF Crash, SerialInv, ResumedSoFar, StartedOnce, FromLast, AnsweredOnce
  <1>8. CASE Reclaim
    <2>1. /\ waits' = waits /\ starts' = starts /\ status = "running"
          /\ status' \in {"running", "failed"} /\ (status' = "running" => leased')
      BY <1>8 DEF Reclaim
    <2>2. ResumedSoFar' /\ StartedOnce' /\ AnsweredOnce'
      BY <1>1, <2>1 DEF SerialInv, ResumedSoFar, StartedOnce, AnsweredOnce
    <2>4. ASSUME worker' # "idle"
          PROVE  starts'[from'] = 1 /\ \A l \in 0 .. MaxWaits : starts'[l] = 1 => l <= from'
      <3>1. PICK k \in 0 .. MaxWaits : Latest(k) /\ from' = k
        BY <1>8, <2>4 DEF Reclaim
      <3>2. from' = Len(waits)
        BY <1>n, <2>1, <3>1
      <3>3. \A l \in 0 .. MaxWaits : starts[l] = 1 => l <= Len(waits)
        BY <1>3 DEF SerialInv, StartedOnce, WaitId
      <3> QED
        BY <2>1, <3>2, <3>3 DEF SerialInv, FromLast
    <2>5. FromLast'
      BY <2>1, <2>4 DEF SerialInv, FromLast
    <2> QED
      BY <1>2, <2>2, <2>5 DEF SerialInv
  <1> QED
    BY <1>4, <1>5, <1>6, <1>7, <1>8 DEF WorkerStep

\* The one call that is in its transaction is the one that takes the step.
LEMMA CallStepSerial ==
  ASSUME IInv, SerialInv, OneCallAtATime, OneCallAtATime', NEW c \in Call, CallStep(c)
  PROVE  SerialInv'
  <1>1. /\ waits \in Seq(Wait) /\ Len(waits) \in 0 .. MaxWaits /\ DOMAIN waits = 1 .. Len(waits)
        /\ call \in [Call -> CallState] /\ answers \in [WaitId -> Nat]
        /\ call[c] \in CallState /\ BothMatch(c)
    BY CallBounds DEF IInv, TypeOK, SerialInv
  <1>2. starts' = starts /\ worker' = worker /\ from' = from
    BY DEF CallStep, Begin, ReadExec, Consume, SettleExec, Commit, CancelRead, Overwrite,
       CancelExec, CancelFind, CancelConsume, Rollback
  <1>3. \A d \in Call : d # c => call'[d].pc = "free"
    <2> SUFFICES ASSUME NEW d \in Call, d # c, call'[d].pc # "free" PROVE FALSE
      OBVIOUS
    <2>1. call'[d] = call[d]
      BY <1>1 DEF CallStep, Begin, ReadExec, Consume, SettleExec, Commit, CancelRead,
         Overwrite, CancelExec, CancelFind, CancelConsume, Rollback
    <2>2. call[c].pc = "free" /\ call'[c].pc = "free"
      BY <2>1 DEF OneCallAtATime
    <2>3. PICK kind, i : Begin(c, kind, i) \/ CancelRead(c)
      BY <2>2 DEF CallStep, ReadExec, Consume, SettleExec, Commit, Overwrite,
         CancelExec, CancelFind, CancelConsume, Rollback, Deadlocked, Blocks
    <2> QED
      BY <1>1, <2>2, <2>3 DEF Begin, CancelRead, FreeCall
  <1>4. ASSUME BothMatch(c)' PROVE \A d \in Call : BothMatch(d)'
    BY <1>3, <1>4 DEF BothMatch
  <1>l. status' = "running" => leased'
    <2>1. status = "running" => leased
      BY DEF SerialInv, ResumedSoFar
    <2>2. CASE Commit(c)
      <3>1. StatusOf[call[c].kind] # "running"
        BY <1>1 DEF CallState, Kind, StatusOf
      <3> QED
        BY <2>1, <2>2, <3>1 DEF Commit
    <2>3. CASE Overwrite(c)
      BY <2>3 DEF Overwrite
    <2>4. CASE UNCHANGED <<status, leased>>
      BY <2>1, <2>4
    <2> QED
      BY <2>2, <2>3, <2>4 DEF CallStep, Begin, ReadExec, Consume, SettleExec, CancelRead,
         CancelExec, CancelFind, CancelConsume, Rollback
  <1>f. FromLast'
    <2>1. status' = "running" => status = "running"
      <3>1. CASE Commit(c)
        BY <1>1, <3>1 DEF Commit, CallState, Kind, StatusOf
      <3>2. CASE Overwrite(c)
        BY <3>2 DEF Overwrite
      <3>3. CASE UNCHANGED status
        BY <3>3
      <3> QED
        BY <3>1, <3>2, <3>3 DEF CallStep, Begin, ReadExec, Consume, SettleExec, CancelRead,
           CancelExec, CancelFind, CancelConsume, Rollback
    <2>2. Len(waits') = Len(waits)
      <3>1. CASE Commit(c)
        BY <1>1, <3>1 DEF Commit
      <3>2. CASE waits' = waits
        BY <3>2
      <3> QED
        BY <3>1, <3>2 DEF CallStep, Begin, ReadExec, Consume, SettleExec, CancelRead,
           Overwrite, CancelExec, CancelFind, CancelConsume, Rollback
    <2> QED
      BY <1>2, <2>1, <2>2 DEF SerialInv, FromLast
  <1>5. ASSUME UNCHANGED <<status, waits, answers>>, BothMatch(c)' PROVE SerialInv'
    BY <1>2, <1>l, <1>f, <1>4, <1>5 DEF SerialInv, ResumedSoFar, StartedOnce, AnsweredOnce
  <1>6. ASSUME call'[c] = FreeCall PROVE BothMatch(c)'
    BY <1>6 DEF BothMatch, FreeCall
  <1>7. ASSUME NEW kind \in {"resume", "requeue", "expire"}, NEW i \in WaitId,
               Begin(c, kind, i)
        PROVE  SerialInv'
    <2>1. call'[c].kind = kind /\ call'[c].pc = "readExec" /\ call'[c].wait = i
      BY <1>1, <1>7 DEF Begin, FreeCall
    <2>2. BothMatch(c)'
      BY <1>7, <2>1 DEF BothMatch, Begin, Open
    <2> QED
      BY <1>5, <1>7, <2>2 DEF Begin
  <1>8. CASE ReadExec(c)
    <2>1. CASE status # "waiting"
      BY <1>1, <1>5, <1>6, <1>8, <2>1 DEF ReadExec
    <2>2. CASE status = "waiting"
      <3>1. /\ call'[c].kind = call[c].kind /\ call'[c].pc = "consume"
            /\ call'[c].wait = call[c].wait /\ call[c].kind # "cancel"
            /\ UNCHANGED <<status, waits, answers>> /\ Open(call[c].wait)
        BY <1>1, <1>8, <2>2 DEF ReadExec, CallState, BothMatch
      <3> QED
        BY <1>5, <2>2, <3>1 DEF BothMatch, Open
    <2> QED
      BY <2>1, <2>2
  <1>9. CASE Consume(c)
    <2>1. /\ call'[c].kind = call[c].kind /\ call'[c].pc = "settleExec"
          /\ call'[c].wait = call[c].wait /\ call'[c].hitWait = Open(call[c].wait)
          /\ UNCHANGED <<status, waits, answers>> /\ Open(call[c].wait)
          /\ status = "waiting" /\ call[c].kind # "cancel"
      BY <1>1, <1>9 DEF Consume, CallState, BothMatch
    <2> QED
      BY <1>5, <2>1 DEF BothMatch, Open
  <1>10. CASE SettleExec(c)
    <2>1. /\ call'[c].kind = call[c].kind /\ call'[c].pc = "commit"
          /\ call'[c].hitExec = (status = "waiting") /\ call'[c].hitWait = call[c].hitWait
          /\ UNCHANGED <<status, waits, answers>> /\ call[c].hitWait
          /\ status = "waiting" /\ call[c].kind # "cancel"
      BY <1>1, <1>10 DEF SettleExec, CallState, BothMatch
    <2> QED
      BY <1>5, <2>1 DEF BothMatch
  <1>11. CASE Commit(c)
    <2>1. /\ call[c].hitExec /\ status = "waiting" /\ call'[c] = FreeCall
          /\ status' = StatusOf[call[c].kind] /\ call[c].kind \in Kind
      BY <1>1, <1>11 DEF Commit, BothMatch, IInv, LocksHold, CallState
    <2>2. PICK n : n = Len(waits)
      OBVIOUS
    <2>3. /\ n \in 1 .. MaxWaits /\ n \in WaitId /\ DOMAIN waits = 1 .. n /\ worker = "idle"
          /\ \A i \in 1 .. n : waits[i].outcome = IF i = n THEN "open" ELSE "resumed"
      <3>1. /\ waits # <<>> /\ worker = "idle"
            /\ \A i \in DOMAIN waits : waits[i].outcome = IF i = n THEN "open" ELSE "resumed"
        BY <2>1, <2>2 DEF SerialInv, ResumedSoFar
      <3>2. n \in 0 .. MaxWaits /\ DOMAIN waits = 1 .. n /\ n # 0
        BY <1>1, <2>2, <3>1
      <3> QED
        BY <3>1, <3>2, CallBounds DEF WaitId
    <2>s. starts[n] = 0 /\ answers[n] = 0
      <3>1. starts[n] \in Nat /\ answers[n] \in Nat /\ starts[n] <= 1 /\ answers[n] <= 1
        BY <2>3 DEF SerialInv, StartedOnce, AnsweredOnce, IInv, TypeOK, WaitId
      <3>2. starts[n] # 1 /\ answers[n] # 1
        BY <2>3 DEF SerialInv, StartedOnce, AnsweredOnce
      <3> QED
        BY <3>1, <3>2
    <2>4. CASE call[c].hitWait
      <3>1. call[c].wait = n
        BY <1>1, <2>2, <2>3, <2>4 DEF IInv, LocksHold, Open
      <3>2. /\ waits' = [waits EXCEPT ![n].outcome = OutcomeOf[call[c].kind]]
            /\ answers' = IF call[c].kind = "cancel" THEN answers
                          ELSE [answers EXCEPT ![n] = @ + 1]
        BY <1>11, <2>4, <3>1 DEF Commit
      <3>3. /\ Len(waits') = n /\ DOMAIN waits' = 1 .. n
            /\ \A i \in 1 .. n : waits'[i].outcome =
                  IF i = n THEN OutcomeOf[call[c].kind] ELSE "resumed"
        <4>1. PICK o : o = OutcomeOf[call[c].kind]
          OBVIOUS
        <4>2. waits' = [waits EXCEPT ![n] = [waits[n] EXCEPT !.outcome = o]]
          BY <3>2, <4>1
        <4>3. waits[n] \in Wait
          BY <1>1, <2>3
        <4>4. [waits[n] EXCEPT !.outcome = o].outcome = o
          BY <4>3 DEF Wait
        <4> QED
          BY <1>1, <2>2, <2>3, <4>1, <4>2, <4>4
      <3>4. /\ OutcomeOf[call[c].kind] # "open" /\ status' # "waiting" /\ status' # "running"
            /\ status' = "queued" => OutcomeOf[call[c].kind] = "resumed"
        BY <2>1 DEF StatusOf, OutcomeOf, Kind
      <3>5. ResumedSoFar'
        BY <1>2, <2>3, <3>3, <3>4 DEF ResumedSoFar
      <3>6. StartedOnce'
        BY <1>2, <2>2, <2>3, <2>s, <3>3, <3>4 DEF SerialInv, StartedOnce, WaitId
      <3>7. AnsweredOnce'
        <4>1. \A i \in WaitId : answers'[i] = answers[i] \/ (i = n /\ answers'[i] = 1)
          BY <1>1, <2>s, <3>2
        <4>2. \A i \in WaitId : answers[i] <= 1
                 /\ (answers[i] = 1 => i \in 1 .. n /\ waits[i].outcome # "open")
          BY <2>3 DEF SerialInv, AnsweredOnce
        <4>3. SUFFICES ASSUME NEW i \in WaitId
                       PROVE  answers'[i] <= 1
                                /\ (answers'[i] = 1 => i \in 1 .. n /\ waits'[i].outcome # "open")
          BY <3>3 DEF AnsweredOnce
        <4>4. CASE i = n
          BY <2>3, <3>3, <3>4, <4>1, <4>2, <4>4
        <4>5. CASE i # n
          BY <2>3, <3>3, <3>4, <4>1, <4>2, <4>5
        <4> QED
          BY <4>4, <4>5
      <3> QED
        BY <1>f, <1>4, <1>6, <2>1, <3>5, <3>6, <3>7 DEF SerialInv
    <2>5. CASE ~call[c].hitWait
      <3>1. call[c].kind = "cancel" /\ waits' = waits /\ answers' = answers /\ status' = "cancelled"
        BY <1>1, <1>11, <2>1, <2>5 DEF Commit, BothMatch, StatusOf
      <3> QED
        BY <1>2, <1>l, <1>f, <1>4, <1>6, <2>1, <3>1 DEF SerialInv, ResumedSoFar, StartedOnce, AnsweredOnce
    <2> QED
      BY <2>4, <2>5
  <1>12. CASE CancelRead(c)
    <2>1. /\ call'[c].kind = "cancel" /\ call'[c].pc \in {"settleFirst", "overwrite"}
          /\ UNCHANGED <<status, waits, answers>>
      BY <1>1, <1>12 DEF CancelRead, FreeCall
    <2> QED
      BY <1>5, <2>1 DEF BothMatch
  <1>13. CASE Overwrite(c)
    <2>1. /\ status' \in {"cancelled", "cancelling"} /\ waits' = waits /\ answers' = answers
          /\ call'[c] = FreeCall
      BY <1>1, <1>13 DEF Overwrite
    <2> QED
      BY <1>2, <1>f, <1>4, <1>6, <2>1 DEF SerialInv, ResumedSoFar, StartedOnce, AnsweredOnce
  <1>14. CASE CancelExec(c)
    <2>1. CASE status # "waiting"
      BY <1>1, <1>5, <1>6, <1>14, <2>1 DEF CancelExec
    <2>2. CASE status = "waiting"
      <3>1. /\ call'[c].kind = call[c].kind /\ call'[c].pc = "findWait"
            /\ UNCHANGED <<status, waits, answers>> /\ call[c].kind = "cancel"
        BY <1>1, <1>14, <2>2 DEF CancelExec, CallState, BothMatch
      <3> QED
        BY <1>5, <3>1 DEF BothMatch
    <2> QED
      BY <2>1, <2>2
  <1>15. CASE CancelFind(c)
    <2>1. /\ call'[c].kind = call[c].kind /\ call'[c].pc \in {"commit", "consumeLast"}
          /\ call'[c].hitExec = call[c].hitExec /\ call[c].hitExec
          /\ UNCHANGED <<status, waits, answers>> /\ call[c].kind = "cancel"
      <3>1. /\ call[c].pc = "findWait" /\ call[c].hitExec /\ call[c].kind = "cancel"
            /\ UNCHANGED <<status, waits, answers>>
        BY <1>1, <1>15 DEF CancelFind, CallState, BothMatch, IInv, LocksHold
      <3>2. \/ call' = [call EXCEPT ![c].pc = "commit"]
            \/ \E i : call' = [call EXCEPT ![c].pc = "consumeLast", ![c].wait = i]
        BY <1>15 DEF CancelFind
      <3>3. CASE call' = [call EXCEPT ![c].pc = "commit"]
        BY <1>1, <3>1, <3>3 DEF CallState
      <3>4. ASSUME NEW i, call' = [call EXCEPT ![c].pc = "consumeLast", ![c].wait = i]
            PROVE  /\ call'[c].kind = call[c].kind /\ call'[c].pc = "consumeLast"
                   /\ call'[c].hitExec = call[c].hitExec
        <4>1. call'[c] = [call[c] EXCEPT !.pc = "consumeLast", !.wait = i]
          BY <1>1, <3>4
        <4> QED
          BY <1>1, <4>1 DEF CallState
      <3> QED
        BY <3>1, <3>2, <3>3, <3>4
    <2> QED
      BY <1>5, <2>1 DEF BothMatch
  <1>16. CASE CancelConsume(c)
    <2>1. /\ call'[c].kind = call[c].kind /\ call'[c].pc = "commit"
          /\ call'[c].hitExec = call[c].hitExec /\ call[c].hitExec
          /\ UNCHANGED <<status, waits, answers>> /\ call[c].kind = "cancel"
      BY <1>1, <1>16 DEF CancelConsume, CallState, BothMatch, IInv, LocksHold
    <2> QED
      BY <1>5, <2>1 DEF BothMatch
  <1>17. CASE Rollback(c)
    BY <1>1, <1>5, <1>6, <1>17 DEF Rollback
  <1> QED
    BY <1>7, <1>8, <1>9, <1>10, <1>11, <1>12, <1>13, <1>14, <1>15, <1>16, <1>17 DEF CallStep

\* A deadline that passes consumes nothing.
LEMMA DeadlinePassesSerial ==
  ASSUME IInv, SerialInv, NEW i \in WaitId, DeadlinePasses(i)
  PROVE  SerialInv'
  <1>1. /\ Len(waits') = Len(waits) /\ DOMAIN waits' = DOMAIN waits
        /\ \A j \in DOMAIN waits : waits'[j].outcome = waits[j].outcome
        /\ (waits' = <<>> <=> waits = <<>>)
    BY DEF DeadlinePasses, Open, IInv, TypeOK, Wait
  <1>2. UNCHANGED <<status, leased, worker, call, starts, from, answers>>
    BY DEF DeadlinePasses
  <1>3. ResumedSoFar'
    BY <1>1, <1>2 DEF SerialInv, ResumedSoFar
  <1>4. StartedOnce' /\ AnsweredOnce'
    BY <1>1, <1>2 DEF SerialInv, StartedOnce, AnsweredOnce
  <1>f. FromLast'
    BY <1>1, <1>2 DEF SerialInv, FromLast
  <1>5. \A c \in Call : BothMatch(c)'
    BY <1>1, <1>2 DEF SerialInv, BothMatch, Open
  <1> QED
    BY <1>3, <1>4, <1>5, <1>f DEF SerialInv

LEMMA InitSerial == Init => SerialInv
  <1> SUFFICES ASSUME Init PROVE SerialInv
    OBVIOUS
  <1>1. ResumedSoFar
    BY DEF Init, ResumedSoFar
  <1>2. StartedOnce /\ FromLast /\ AnsweredOnce
    BY CallBounds DEF Init, StartedOnce, FromLast, AnsweredOnce, WaitId
  <1>3. \A c \in Call : BothMatch(c)
    BY DEF Init, BothMatch, FreeCall
  <1> QED
    BY <1>1, <1>2, <1>3 DEF SerialInv

LEMMA NextSerial ==
  ASSUME IInv, SerialInv, OneCallAtATime, OneCallAtATime', [Next]_vars
  PROVE  SerialInv'
  <1>1. CASE UNCHANGED vars
    BY <1>1 DEF vars, SerialInv, ResumedSoFar, StartedOnce, FromLast, AnsweredOnce, BothMatch, Open
  <1> QED
    BY <1>1, WorkerStepSerial, CallStepSerial, DeadlinePassesSerial DEF Next

\* When calls do not overlap and no live worker loses its lease, however often
\* tokens are replayed, deadlines pass, workers die and cancels come between, one
\* caller ends each wait, the queue hands out each checkpoint once, and a worker
\* that takes over starts the one that was handed out last (ResumeWait,
\* SettleExpiredWait, LoadResumeState).
THEOREM SerialCallsAreExact == Spec => SerialCallsRunOnce
  <1> DEFINE Exact == /\ CheckpointRunsOnce /\ RunsNewestStart
                      /\ \A i \in WaitId : answers[i] <= 1
  <1>1. IInv /\ SerialInv /\ OneCallAtATime /\ OneCallAtATime' /\ [Next]_vars => SerialInv'
    BY NextSerial
  <1>2. IInv /\ SerialInv => Exact
    <2> SUFFICES ASSUME IInv, SerialInv PROVE Exact
      OBVIOUS
    <2>1. CheckpointRunsOnce /\ \A i \in WaitId : answers[i] <= 1
      BY DEF SerialInv, StartedOnce, AnsweredOnce, CheckpointRunsOnce
    <2>2. RunsNewestStart
      <3>1. starts \in [0 .. MaxWaits -> Nat] /\ from \in 0 .. MaxWaits
        BY DEF IInv, TypeOK
      <3>2. \A k \in WaitId : starts[k] > 0 => starts[k] = 1
        BY <3>1, CallBounds DEF SerialInv, StartedOnce, WaitId
      <3> QED
        BY <3>1, <3>2, CallBounds DEF SerialInv, FromLast, RunsNewestStart, Newest, WaitId
    <2> QED
      BY <2>1, <2>2
  <1> HIDE DEF Exact
  <1>3. Spec => ([]OneCallAtATime => []Exact)
    BY InitInv, NextInv, InitSerial, <1>1, <1>2, PTL DEF Spec
  <1> QED
    BY <1>3 DEF SerialCallsRunOnce, Exact

-----------------------------------------------------------------------------
(* The keys of Idempotency, for any calls, durations and clock. *)

\* The inductive invariant: what a row says of its call, that clock readings
\* are never ahead, and that an unexpired lease keeps its row.
KeyInv == KeyTypeOK /\ RowsAreClaims /\ ReadingsArePast /\ LeaseHeld /\ WindowKept
        /\ AnswersEnd

\* The initial state satisfies the inductive invariant.
LEMMA InitIInv == KeyInit => KeyInv
<1> SUFFICES ASSUME KeyInit PROVE KeyInv
  OBVIOUS
<1> USE DEF KeyInit, KeyCall, Answer, Claiming, Running
<1>1. \A r \in Request : req[r] \in KeyCall /\ req[r].pc = "idle" /\ req[r].answer = "none"
                          /\ req[r].now = 0
  <2> SUFFICES ASSUME NEW r \in Request
               PROVE req[r] \in KeyCall /\ req[r].pc = "idle" /\ req[r].answer = "none"
                     /\ req[r].now = 0
    OBVIOUS
  <2>1. PICK b \in Body : req[r] = [pc |-> "idle", attempt |-> 1, body |-> b, now |-> 0,
                                    until |-> 0, answer |-> "none"]
    OBVIOUS
  <2> QED
    BY <2>1, Durations
<1>2. req \in [Request -> KeyCall]
  BY <1>1
<1>3. KeyTypeOK
  BY <1>2 DEF KeyTypeOK, NoSweep
<1>4. RowsAreClaims /\ ReadingsArePast
  BY <1>1 DEF RowsAreClaims, ReadingsArePast, NoSweep
<1>5. LeaseHeld /\ WindowKept /\ AnswersEnd
  BY <1>1 DEF LeaseHeld, WindowKept, AnswersEnd
<1> QED
  BY <1>3, <1>4, <1>5 DEF KeyInv

\* Every step keeps the types.
LEMMA TypeStep == KeyInv /\ [KeyNext]_keyVars => KeyTypeOK'
<1> SUFFICES ASSUME KeyInv, [KeyNext]_keyVars PROVE KeyTypeOK'
  OBVIOUS
<1> USE Durations DEF KeyInv, KeyTypeOK, Row, KeyCall, Answer, Claiming, Running
<1>1. ASSUME NEW r \in Request, Do(r) PROVE KeyTypeOK'
  <2>1. clock + InFlight \in Nat
    OBVIOUS
  <2>2. [req[r] EXCEPT !.pc = "clear", !.now = clock, !.until = clock + InFlight] \in KeyCall
    BY <2>1
  <2>3. req' = [req EXCEPT ![r] = [req[r] EXCEPT !.pc = "clear", !.now = clock,
                                                  !.until = clock + InFlight]]
    BY <1>1 DEF Do
  <2>4. req' \in [Request -> KeyCall]
    BY <2>2, <2>3
  <2> QED
    BY <1>1, <2>4 DEF Do
<1>2. ASSUME NEW r \in Request, ConsumeOnce(r) PROVE KeyTypeOK'
  BY <1>2 DEF ConsumeOnce, Answered
<1>3. ASSUME NEW r \in Request, Clear(r) PROVE KeyTypeOK'
  BY <1>3 DEF Clear
<1>4. ASSUME NEW r \in Request, Insert(r) PROVE KeyTypeOK'
  BY <1>4 DEF Insert
<1>5. ASSUME NEW r \in Request, Read(r) PROVE KeyTypeOK'
  BY <1>5 DEF Read, Answered, Held
<1>6. ASSUME NEW r \in Request, RunFn(r) PROVE KeyTypeOK'
  BY <1>6 DEF RunFn
<1>7. ASSUME NEW r \in Request, Complete(r) PROVE KeyTypeOK'
  BY <1>7 DEF Complete, Answered, Mine, Recorded
<1>8. ASSUME NEW r \in Request, Release(r) PROVE KeyTypeOK'
  BY <1>8 DEF Release, Answered, Mine
<1>9. ASSUME NEW r \in Request, Abandon(r) PROVE KeyTypeOK'
  BY <1>9 DEF Abandon, Answered
<1>10. CASE SweepRead
  BY <1>10 DEF SweepRead
<1>11. CASE SweepDelete
  BY <1>11 DEF SweepDelete, NoSweep
<1>12. CASE PurgeTenant
  BY <1>12 DEF PurgeTenant
<1>13. CASE Tick
  BY <1>13 DEF Tick
<1>14. CASE UNCHANGED keyVars
  BY <1>14 DEF keyVars
<1> QED
  BY <1>1, <1>2, <1>3, <1>4, <1>5, <1>6, <1>7, <1>8, <1>9, <1>10, <1>11, <1>12, <1>13, <1>14 DEF KeyNext, Step

\* A row keeps saying the truth about its call.
LEMMA RowsStep == KeyInv /\ [KeyNext]_keyVars => RowsAreClaims'
<1> SUFFICES ASSUME KeyInv, [KeyNext]_keyVars PROVE RowsAreClaims'
  OBVIOUS
<1> USE Durations DEF KeyInv, KeyTypeOK, Row, KeyCall, Answer, Claiming, Running, RowsAreClaims
<1>1. ASSUME NEW r \in Request, Do(r) PROVE RowsAreClaims'
  BY <1>1 DEF Do
<1>2. ASSUME NEW r \in Request, ConsumeOnce(r) PROVE RowsAreClaims'
  BY <1>2 DEF ConsumeOnce, Answered
<1>3. ASSUME NEW r \in Request, Clear(r) PROVE RowsAreClaims'
  BY <1>3 DEF Clear
<1>4. ASSUME NEW r \in Request, Insert(r) PROVE RowsAreClaims'
  BY <1>4 DEF Insert
<1>5. ASSUME NEW r \in Request, Read(r) PROVE RowsAreClaims'
  BY <1>5 DEF Read, Answered, Held
<1>6. ASSUME NEW r \in Request, RunFn(r) PROVE RowsAreClaims'
  BY <1>6 DEF RunFn
<1>7. ASSUME NEW r \in Request, Complete(r) PROVE RowsAreClaims'
  BY <1>7 DEF Complete, Answered, Mine, Recorded
<1>8. ASSUME NEW r \in Request, Release(r) PROVE RowsAreClaims'
  BY <1>8 DEF Release, Answered, Mine
<1>9. ASSUME NEW r \in Request, Abandon(r) PROVE RowsAreClaims'
  BY <1>9 DEF Abandon, Answered
<1>10. CASE SweepRead
  BY <1>10 DEF SweepRead
<1>11. CASE SweepDelete
  BY <1>11 DEF SweepDelete, NoSweep
<1>12. CASE PurgeTenant
  BY <1>12 DEF PurgeTenant
<1>13. CASE Tick
  BY <1>13 DEF Tick
<1>14. CASE UNCHANGED keyVars
  BY <1>14 DEF keyVars
<1> QED
  BY <1>1, <1>2, <1>3, <1>4, <1>5, <1>6, <1>7, <1>8, <1>9, <1>10, <1>11, <1>12, <1>13, <1>14 DEF KeyNext, Step

\* The clock never falls behind a reading.
LEMMA ReadingsStep == KeyInv /\ [KeyNext]_keyVars => ReadingsArePast'
<1> SUFFICES ASSUME KeyInv, [KeyNext]_keyVars PROVE ReadingsArePast'
  OBVIOUS
<1> USE Durations DEF KeyInv, KeyTypeOK, Row, KeyCall, Answer, Claiming, Running, ReadingsArePast
<1>1. ASSUME NEW r \in Request, Do(r) PROVE ReadingsArePast'
  BY <1>1 DEF Do
<1>2. ASSUME NEW r \in Request, ConsumeOnce(r) PROVE ReadingsArePast'
  BY <1>2 DEF ConsumeOnce, Answered
<1>3. ASSUME NEW r \in Request, Clear(r) PROVE ReadingsArePast'
  BY <1>3 DEF Clear
<1>4. ASSUME NEW r \in Request, Insert(r) PROVE ReadingsArePast'
  BY <1>4 DEF Insert
<1>5. ASSUME NEW r \in Request, Read(r) PROVE ReadingsArePast'
  BY <1>5 DEF Read, Answered, Held
<1>6. ASSUME NEW r \in Request, RunFn(r) PROVE ReadingsArePast'
  BY <1>6 DEF RunFn
<1>7. ASSUME NEW r \in Request, Complete(r) PROVE ReadingsArePast'
  BY <1>7 DEF Complete, Answered, Mine, Recorded
<1>8. ASSUME NEW r \in Request, Release(r) PROVE ReadingsArePast'
  BY <1>8 DEF Release, Answered, Mine
<1>9. ASSUME NEW r \in Request, Abandon(r) PROVE ReadingsArePast'
  BY <1>9 DEF Abandon, Answered
<1>10. CASE SweepRead
  BY <1>10 DEF SweepRead
<1>11. CASE SweepDelete
  BY <1>11 DEF SweepDelete, NoSweep
<1>12. CASE PurgeTenant
  BY <1>12 DEF PurgeTenant
<1>13. CASE Tick
  BY <1>13 DEF Tick
<1>14. CASE UNCHANGED keyVars
  BY <1>14 DEF keyVars
<1> QED
  BY <1>1, <1>2, <1>3, <1>4, <1>5, <1>6, <1>7, <1>8, <1>9, <1>10, <1>11, <1>12, <1>13, <1>14 DEF KeyNext, Step

\* Nothing takes the row from a call whose lease has not run out.
LEMMA LeaseStep == KeyInv /\ [KeyNext]_keyVars => LeaseHeld'
<1> SUFFICES ASSUME KeyInv, [KeyNext]_keyVars PROVE LeaseHeld'
  OBVIOUS
<1> USE Durations DEF KeyInv, KeyTypeOK, Row, KeyCall, Answer, Claiming, Running, RowsAreClaims, ReadingsArePast, LeaseHeld
<1>1. ASSUME NEW r \in Request, Do(r) PROVE LeaseHeld'
  BY <1>1 DEF Do
<1>2. ASSUME NEW r \in Request, ConsumeOnce(r) PROVE LeaseHeld'
  BY <1>2 DEF ConsumeOnce, Answered
<1>3. ASSUME NEW r \in Request, Clear(r) PROVE LeaseHeld'
  BY <1>3 DEF Clear
<1>4. ASSUME NEW r \in Request, Insert(r) PROVE LeaseHeld'
  BY <1>4 DEF Insert
<1>5. ASSUME NEW r \in Request, Read(r) PROVE LeaseHeld'
  BY <1>5 DEF Read, Answered, Held
<1>6. ASSUME NEW r \in Request, RunFn(r) PROVE LeaseHeld'
  BY <1>6 DEF RunFn
<1>7. ASSUME NEW r \in Request, Complete(r) PROVE LeaseHeld'
  BY <1>7 DEF Complete, Answered, Mine, Recorded
<1>8. ASSUME NEW r \in Request, Release(r) PROVE LeaseHeld'
  BY <1>8 DEF Release, Answered, Mine
<1>9. ASSUME NEW r \in Request, Abandon(r) PROVE LeaseHeld'
  BY <1>9 DEF Abandon, Answered
<1>10. CASE SweepRead
  BY <1>10 DEF SweepRead
<1>11. CASE SweepDelete
  BY <1>11 DEF SweepDelete, NoSweep
<1>12. CASE PurgeTenant
  BY <1>12 DEF PurgeTenant
<1>13. CASE Tick
  BY <1>13 DEF Tick
<1>14. CASE UNCHANGED keyVars
  BY <1>14 DEF keyVars
<1> QED
  BY <1>1, <1>2, <1>3, <1>4, <1>5, <1>6, <1>7, <1>8, <1>9, <1>10, <1>11, <1>12, <1>13, <1>14 DEF KeyNext, Step

\* The row of a one-time key lasts as long as its window.
LEMMA WindowStep == KeyInv /\ [KeyNext]_keyVars => WindowKept'
<1> SUFFICES ASSUME KeyInv, [KeyNext]_keyVars PROVE WindowKept'
  OBVIOUS
<1> USE Durations DEF KeyInv, KeyTypeOK, Row, KeyCall, Answer, Claiming, Running, RowsAreClaims, ReadingsArePast, WindowKept
<1>1. ASSUME NEW r \in Request, Do(r) PROVE WindowKept'
  BY <1>1 DEF Do
<1>2. ASSUME NEW r \in Request, ConsumeOnce(r) PROVE WindowKept'
  BY <1>2 DEF ConsumeOnce, Answered
<1>3. ASSUME NEW r \in Request, Clear(r) PROVE WindowKept'
  BY <1>3 DEF Clear
<1>4. ASSUME NEW r \in Request, Insert(r) PROVE WindowKept'
  BY <1>4 DEF Insert
<1>5. ASSUME NEW r \in Request, Read(r) PROVE WindowKept'
  BY <1>5 DEF Read, Answered, Held
<1>6. ASSUME NEW r \in Request, RunFn(r) PROVE WindowKept'
  BY <1>6 DEF RunFn
<1>7. ASSUME NEW r \in Request, Complete(r) PROVE WindowKept'
  BY <1>7 DEF Complete, Answered, Mine, Recorded
<1>8. ASSUME NEW r \in Request, Release(r) PROVE WindowKept'
  BY <1>8 DEF Release, Answered, Mine
<1>9. ASSUME NEW r \in Request, Abandon(r) PROVE WindowKept'
  BY <1>9 DEF Abandon, Answered
<1>10. CASE SweepRead
  BY <1>10 DEF SweepRead
<1>11. CASE SweepDelete
  BY <1>11 DEF SweepDelete, NoSweep
<1>12. CASE PurgeTenant
  BY <1>12 DEF PurgeTenant
<1>13. CASE Tick
  BY <1>13 DEF Tick
<1>14. CASE UNCHANGED keyVars
  BY <1>14 DEF keyVars
<1> QED
  BY <1>1, <1>2, <1>3, <1>4, <1>5, <1>6, <1>7, <1>8, <1>9, <1>10, <1>11, <1>12, <1>13, <1>14 DEF KeyNext, Step

\* A call that has answered is over.
LEMMA AnswersStep == KeyInv /\ [KeyNext]_keyVars => AnswersEnd'
<1> SUFFICES ASSUME KeyInv, [KeyNext]_keyVars PROVE AnswersEnd'
  OBVIOUS
<1> USE Durations DEF KeyInv, KeyTypeOK, Row, KeyCall, Answer, Claiming, Running, AnswersEnd
<1>1. ASSUME NEW r \in Request, Do(r) PROVE AnswersEnd'
  BY <1>1 DEF Do
<1>2. ASSUME NEW r \in Request, ConsumeOnce(r) PROVE AnswersEnd'
  BY <1>2 DEF ConsumeOnce, Answered
<1>3. ASSUME NEW r \in Request, Clear(r) PROVE AnswersEnd'
  BY <1>3 DEF Clear
<1>4. ASSUME NEW r \in Request, Insert(r) PROVE AnswersEnd'
  BY <1>4 DEF Insert
<1>5. ASSUME NEW r \in Request, Read(r) PROVE AnswersEnd'
  BY <1>5 DEF Read, Answered, Held
<1>6. ASSUME NEW r \in Request, RunFn(r) PROVE AnswersEnd'
  BY <1>6 DEF RunFn
<1>7. ASSUME NEW r \in Request, Complete(r) PROVE AnswersEnd'
  BY <1>7 DEF Complete, Answered, Mine, Recorded
<1>8. ASSUME NEW r \in Request, Release(r) PROVE AnswersEnd'
  BY <1>8 DEF Release, Answered, Mine
<1>9. ASSUME NEW r \in Request, Abandon(r) PROVE AnswersEnd'
  BY <1>9 DEF Abandon, Answered
<1>10. CASE SweepRead
  BY <1>10 DEF SweepRead
<1>11. CASE SweepDelete
  BY <1>11 DEF SweepDelete, NoSweep
<1>12. CASE PurgeTenant
  BY <1>12 DEF PurgeTenant
<1>13. CASE Tick
  BY <1>13 DEF Tick
<1>14. CASE UNCHANGED keyVars
  BY <1>14 DEF keyVars
<1> QED
  BY <1>1, <1>2, <1>3, <1>4, <1>5, <1>6, <1>7, <1>8, <1>9, <1>10, <1>11, <1>12, <1>13, <1>14 DEF KeyNext, Step

\* The inductive invariant holds in every reachable state.
THEOREM Invariance == KeySpec => []KeyInv
<1>1. KeyInv /\ [KeyNext]_keyVars => KeyInv'
  BY TypeStep, RowsStep, ReadingsStep, LeaseStep, WindowStep, AnswersStep DEF KeyInv
<1> QED
  BY InitIInv, <1>1, PTL DEF KeySpec

\* Two calls do the work of one key at the same time only after a lease has
\* run out, whatever claims, sweeps and delayed statements do.
THEOREM LeasesSeparateRuns == KeySpec => []OneRunPerLease
<1>1. KeyInv => OneRunPerLease
  <2> SUFFICES ASSUME KeyInv, NEW r \in Request, NEW s \in Request, r # s, ~purged,
                      req[r].pc \in Running, req[s].pc \in Running,
                      ~(clock >= req[r].until), ~(clock >= req[s].until)
               PROVE FALSE
    BY DEF OneRunPerLease
  <2>1. clock < req[r].until /\ clock < req[s].until
    BY DEF KeyInv, KeyTypeOK, KeyCall
  <2>2. PICK x \in rows : x.token = r
    BY <2>1 DEF KeyInv, LeaseHeld
  <2>3. PICK y \in rows : y.token = s
    BY <2>1 DEF KeyInv, LeaseHeld
  <2> QED
    BY <2>2, <2>3 DEF KeyInv, RowsAreClaims
<1> QED
  BY Invariance, <1>1, PTL

\* A recorded outcome is kept, unchanged, until its retention ends.
THEOREM OutcomeIsRemembered == KeySpec => RememberedForRetention
<1> DEFINE Kept == \A x \in rows : x.state = "completed" /\ clock < x.expires =>
                      x \in rows' \/ purged'
<1>1. KeyInv /\ [KeyNext]_keyVars => [Kept]_keyVars
  <2> SUFFICES ASSUME KeyInv, [KeyNext]_keyVars, NEW x \in rows, x.state = "completed",
                      clock < x.expires
               PROVE x \in rows' \/ purged'
    OBVIOUS
  <2> USE DEF KeyInv, KeyTypeOK, Row, KeyCall, ReadingsArePast
  <2>1. ASSUME NEW r \in Request, Do(r) \/ ConsumeOnce(r) \/ Read(r) \/ RunFn(r) \/ Abandon(r)
        PROVE x \in rows'
    BY <2>1 DEF Do, ConsumeOnce, Read, RunFn, Abandon
  <2>2. ASSUME NEW r \in Request, Clear(r) PROVE x \in rows'
    BY <2>2 DEF Clear
  <2>3. ASSUME NEW r \in Request, Insert(r) PROVE x \in rows'
    BY <2>3 DEF Insert
  <2>4. ASSUME NEW r \in Request, Complete(r) PROVE x \in rows'
    BY <2>4 DEF Complete, Mine, Recorded
  <2>5. ASSUME NEW r \in Request, Release(r) PROVE x \in rows'
    BY <2>5 DEF Release, Mine
  <2>6. CASE SweepDelete
    BY <2>6 DEF SweepDelete
  <2>7. CASE SweepRead \/ PurgeTenant \/ Tick \/ UNCHANGED keyVars
    BY <2>7 DEF SweepRead, PurgeTenant, Tick, keyVars
  <2> QED
    BY <2>1, <2>2, <2>3, <2>4, <2>5, <2>6, <2>7 DEF KeyNext, Step
<1> QED
  BY Invariance, <1>1, PTL DEF KeySpec, RememberedForRetention

\* A one-time key admits one call while its window lasts.
THEOREM OneAdmission == KeySpec => []AdmittedOnceInWindow
<1>1. KeyInv => AdmittedOnceInWindow
  <2> SUFFICES ASSUME KeyInv, clock <= Until, ~purged, NEW r \in Request, NEW s \in Request,
                      req[r].answer = "admitted", req[s].answer = "admitted"
               PROVE r = s
    BY DEF AdmittedOnceInWindow
  <2> QED
    BY DEF KeyInv, WindowKept, RowsAreClaims, AnswersEnd
<1> QED
  BY Invariance, <1>1, PTL

\* A replay is taken from the row of a call that ran.
LEMMA ReplayStep == KeyInv /\ ReplayIsOfSameRequest /\ [KeyNext]_keyVars => ReplayIsOfSameRequest'
<1> SUFFICES ASSUME KeyInv /\ ReplayIsOfSameRequest, [KeyNext]_keyVars PROVE ReplayIsOfSameRequest'
  OBVIOUS
<1> USE Durations DEF KeyInv, KeyTypeOK, Row, KeyCall, Answer, Claiming, Running, RowsAreClaims, AnswersEnd, ReplayIsOfSameRequest
<1>1. ASSUME NEW r \in Request, Do(r) PROVE ReplayIsOfSameRequest'
  BY <1>1 DEF Do
<1>2. ASSUME NEW r \in Request, ConsumeOnce(r) PROVE ReplayIsOfSameRequest'
  BY <1>2 DEF ConsumeOnce, Answered
<1>3. ASSUME NEW r \in Request, Clear(r) PROVE ReplayIsOfSameRequest'
  BY <1>3 DEF Clear
<1>4. ASSUME NEW r \in Request, Insert(r) PROVE ReplayIsOfSameRequest'
  BY <1>4 DEF Insert
<1>5. ASSUME NEW r \in Request, Read(r) PROVE ReplayIsOfSameRequest'
  BY <1>5 DEF Read, Answered, Held
<1>6. ASSUME NEW r \in Request, RunFn(r) PROVE ReplayIsOfSameRequest'
  BY <1>6 DEF RunFn
<1>7. ASSUME NEW r \in Request, Complete(r) PROVE ReplayIsOfSameRequest'
  BY <1>7 DEF Complete, Answered, Mine, Recorded
<1>8. ASSUME NEW r \in Request, Release(r) PROVE ReplayIsOfSameRequest'
  BY <1>8 DEF Release, Answered, Mine
<1>9. ASSUME NEW r \in Request, Abandon(r) PROVE ReplayIsOfSameRequest'
  BY <1>9 DEF Abandon, Answered
<1>10. CASE SweepRead
  BY <1>10 DEF SweepRead
<1>11. CASE SweepDelete
  BY <1>11 DEF SweepDelete, NoSweep
<1>12. CASE PurgeTenant
  BY <1>12 DEF PurgeTenant
<1>13. CASE Tick
  BY <1>13 DEF Tick
<1>14. CASE UNCHANGED keyVars
  BY <1>14 DEF keyVars
<1> QED
  BY <1>1, <1>2, <1>3, <1>4, <1>5, <1>6, <1>7, <1>8, <1>9, <1>10, <1>11, <1>12, <1>13, <1>14 DEF KeyNext, Step

\* Every replay is the outcome of the same request.
THEOREM ReplaysAreFaithful == KeySpec => []ReplayIsOfSameRequest
<1>1. KeyInit => ReplayIsOfSameRequest
  <2> SUFFICES ASSUME KeyInit, NEW r \in Request PROVE req[r].answer # "replayed"
    BY DEF ReplayIsOfSameRequest
  <2>1. PICK b \in Body : req[r] = [pc |-> "idle", attempt |-> 1, body |-> b, now |-> 0,
                                    until |-> 0, answer |-> "none"]
    BY DEF KeyInit
  <2> QED
    BY <2>1
<1> QED
  BY Invariance, ReplayStep, <1>1, PTL DEF KeySpec

=============================================================================
