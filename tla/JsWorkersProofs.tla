-------------------------- MODULE JsWorkersProofs --------------------------
(***************************************************************************)
(* Proofs about the pool of JavaScript workers, for every number of jobs,  *)
(* tenants, slots and runs per worker, and with no bound on the faults.    *)
(*                                                                         *)
(* What decides the pool's properties is who has a process: the idle list, *)
(* one job, or nobody. The inductive invariant follows every process from  *)
(* one to the other, and every kill a deadline or a cancellation has begun *)
(* to the process it was meant for: when the job is over by then, the      *)
(* process was distrusted and is gone, so the kill reaches nobody. What    *)
(* the workers say is a second invariant (TalkInv), over the first: late   *)
(* replies are told from the replies of the job that runs by its nonce,    *)
(* and a worker is put back only when it has nothing left to say.          *)
(***************************************************************************)
EXTENDS JsWorkers, FiniteSetTheorems, TLAPS

\* TypeOK without the range of the count.
Types ==
    /\ idle \in SUBSET Process
    /\ closed \in BOOLEAN
    /\ proc \in [Process -> ProcessState]
    /\ job \in [Job -> JobState]
    /\ calls \in Nat /\ faults \in Nat

Holding == {"running", "failing", "putting"}

\* A process that was started, or is about to be by nobody.
Known(p) == p = 0 \/ job[p].pc \notin {"queued", "starting"}

\* A process nobody has, which has ended.
Gone(p) ==
    /\ p \notin idle /\ ~proc[p].alive
    /\ \A k \in Job : job[k].pc \in Holding => job[k].worker # p

\* A job and the process it holds, held, or is about to kill.
JobOK(j) ==
    LET p == job[j].worker IN
    /\ job[j].pc \in {"queued", "starting"} => p = None /\ ~job[j].killer
    /\ job[j].pc \in Holding => p \in Process /\ p \notin idle
    /\ p # None => Known(p)
    /\ p # None /\ job[j].pc \in {"putting", "over"} => job[j].attempt # "running"
    /\ job[j].pc = "putting" => proc[p].runs > 0 \/ ~proc[p].healthy
    /\ job[j].pc = "putting" /\ job[j].killer => ~proc[p].healthy
    /\ job[j].killer => /\ p \in Process /\ job[j].attempt # "running"
                        /\ job[j].pc \in Holding \/ Gone(p)
    /\ job[j].pc = "running" /\ job[j].attempt = "running" =>
            proc[p].alive \/ proc[p].died \/ proc[p].late = "killed"

ProcOK(p) ==
    /\ proc[p].served \subseteq {proc[p].tenant}
    /\ p \in idle => Known(p) /\ (proc[p].runs = 0 => proc[p].served = {})
    /\ proc[p].alive => p \in idle \/ \E j \in Job : job[j].pc \in Holding /\ job[j].worker = p

Exclusive ==
    \A j, k \in Job : job[j].pc \in Holding /\ job[k].pc \in Holding
                          /\ job[j].worker = job[k].worker => j = k

Slotted == {j \in Job : HoldsSlot(j)}

Counted ==
    /\ workers = Cardinality(idle) + Cardinality(Slotted)
    /\ workers <= Slots

PoolInv ==
    /\ Types /\ Exclusive /\ Counted
    /\ \A j \in Job : JobOK(j)
    /\ \A p \in Process : ProcOK(p)

-----------------------------------------------------------------------------
(* Finite sets, the constants, one process. *)

LEMMA Finite ==
    /\ IsFiniteSet(Job) /\ IsFiniteSet(Process) /\ Slots \in Nat \ {0}
    /\ None \notin Process /\ 0 \in Process /\ Job \subseteq Process /\ 0 \notin Job
<1>1. IsFiniteSet(Job) /\ Job \subseteq Nat \ {0}
  BY JobAssumption
<1>2. IsFiniteSet(Job \cup {0})
  BY <1>1, FS_AddElement
<1> QED BY <1>1, <1>2, BoundAssumption DEF Process, None

LEMMA WithoutSome ==
    ASSUME NEW S, IsFiniteSet(S), NEW T \in SUBSET S
    PROVE  /\ IsFiniteSet(S \ T) /\ IsFiniteSet(T)
           /\ Cardinality(S) \in Nat /\ Cardinality(T) \in Nat /\ Cardinality(S \ T) \in Nat
           /\ Cardinality(S \ T) = Cardinality(S) - Cardinality(T)
<1>1. IsFiniteSet(T) /\ IsFiniteSet(S \ T)
  BY FS_Subset
<1>2. (S \ T) \cup T = S /\ (S \ T) \cap T = {}
  OBVIOUS
<1>3. Cardinality((S \ T) \cup T) = Cardinality(S \ T) + Cardinality(T)
                                      - Cardinality((S \ T) \cap T)
  BY <1>1, FS_Union
<1>4. Cardinality(S) \in Nat /\ Cardinality(T) \in Nat /\ Cardinality(S \ T) \in Nat
  BY <1>1, FS_CardinalityType
<1>5. Cardinality((S \ T) \cap T) = 0
  BY <1>2, FS_EmptySet
<1>6. Cardinality(S) = Cardinality(S \ T) + Cardinality(T) - 0
  BY <1>2, <1>3, <1>5
<1> QED BY <1>1, <1>4, <1>6

LEMMA SetsAreFinite ==
    ASSUME Types
    PROVE  /\ IsFiniteSet(idle) /\ IsFiniteSet(Slotted)
           /\ Cardinality(idle) \in Nat /\ Cardinality(Slotted) \in Nat
<1>1. IsFiniteSet(idle) /\ IsFiniteSet(Slotted)
  BY Finite, FS_Subset DEF Types, Slotted
<1> QED BY <1>1, FS_CardinalityType

\* What a process can do to itself, and what a kill or a frame does to it: it
\* can only end, it dies of its own doing or is killed, and it is never trusted
\* again once it is not.
Ages(s, t) ==
    /\ t \in ProcessState
    /\ t.served = s.served /\ t.tenant = s.tenant /\ t.runs = s.runs
    /\ t.alive => s.alive
    /\ t.healthy => s.healthy

\* It ended by itself, or a callback of its start ended it; nobody else did.
Excused(s) == s.died \/ s.late = "killed"

Lasts(s, t) == (s.alive => t.alive \/ Excused(t)) /\ (Excused(s) => Excused(t))

LEMMA KilledAges ==
    ASSUME NEW s \in ProcessState
    PROVE  Ages(s, Killed(s)) /\ ~Killed(s).alive /\ Killed(s).died = s.died /\ Killed(s).late = s.late
           /\ Killed(s).healthy = s.healthy
<1>1. PICK t : t = Killed(s)
  OBVIOUS
<1>2. <<>> \in Seq(Frame)
  OBVIOUS
<1>3. t \in ProcessState
  BY <1>1, <1>2 DEF Killed, ProcessState
<1>4. t.served = s.served /\ t.tenant = s.tenant /\ t.runs = s.runs /\ ~t.alive
      /\ t.healthy = s.healthy /\ t.died = s.died /\ t.late = s.late
  BY <1>1 DEF Killed, ProcessState
<1> QED BY <1>1, <1>3, <1>4 DEF Ages

LEMMA SentAges ==
    ASSUME NEW s \in ProcessState, NEW frame \in Frame
    PROVE  Ages(s, Sent(s, frame)) /\ Sent(s, frame).alive = s.alive
           /\ Sent(s, frame).died = s.died /\ Sent(s, frame).late = s.late /\ Sent(s, frame).healthy = s.healthy
<1>1. PICK t : t = Sent(s, frame)
  OBVIOUS
<1>2. Append(s.in, frame) \in Seq(Frame)
  BY DEF ProcessState
<1>3. t \in ProcessState
  BY <1>1, <1>2 DEF Sent, ProcessState
<1>4. t.served = s.served /\ t.tenant = s.tenant /\ t.runs = s.runs /\ t.alive = s.alive
      /\ t.healthy = s.healthy /\ t.died = s.died /\ t.late = s.late
  BY <1>1 DEF Sent, ProcessState
<1> QED BY <1>1, <1>3, <1>4 DEF Ages

LEMMA StoppedIs ==
    /\ Stopped \in ProcessState /\ ~Stopped.alive /\ Stopped.served = {}
    /\ Stopped.runs = 0 /\ Stopped.healthy
<1>1. <<>> \in Seq(Frame) /\ NoTenant \in Tenant
  BY DEF Tenant
<1> QED BY <1>1 DEF Stopped, NoProcess, ProcessState

LEMMA FrameType ==
    ASSUME NEW j \in Job, NEW id \in Nat,
           NEW type \in {"run", "reply", "question", "helper", "done", "bad"}
    PROVE  Msg(type, j, id) \in Frame
BY DEF Msg, Frame

LEMMA ProcIs ==
    ASSUME Types
    PROVE  /\ proc = [p \in Process |-> proc[p]] /\ \A p \in Process : proc[p] \in ProcessState
           /\ job = [j \in Job |-> job[j]] /\ \A j \in Job : job[j] \in JobState
BY DEF Types

-----------------------------------------------------------------------------
(* Steps that leave everybody in place. *)

\* Of a job only what the pool does not look at changes, or it turns out that it
\* fails; processes age.
LEMMA InPlace ==
    ASSUME PoolInv, UNCHANGED <<idle, workers, closed>>, Types',
           \A j \in Job :
              /\ job'[j].pc = job[j].pc \/ (job[j].pc = "running" /\ job'[j].pc = "failing")
              /\ job'[j].worker = job[j].worker /\ job'[j].attempt = job[j].attempt
              /\ job'[j].killer = job[j].killer,
           \A p \in Process : Ages(proc[p], proc'[p]) /\ Lasts(proc[p], proc'[p])
    PROVE  PoolInv'
<1>1. \A j \in Job : (job'[j].pc \in Holding <=> job[j].pc \in Holding)
                     /\ job'[j].worker = job[j].worker
  BY DEF Holding
<1>2. Exclusive'
  BY <1>1 DEF PoolInv, Exclusive
<1>3. Slotted' = Slotted
  BY DEF Slotted, HoldsSlot
<1>4. Counted'
  BY <1>3 DEF PoolInv, Counted
<1>5. \A p : Known(p) /\ p \in Process => Known(p)'
  BY Finite DEF Known, Process
<1>6. \A p \in Process : Gone(p) => Gone(p)'
  BY <1>1 DEF Gone, Ages
<1>7. ASSUME NEW j \in Job PROVE JobOK(j)'
  <2>1. PICK p : p = job[j].worker
    OBVIOUS
  <2>2. p \in Process \cup {None} /\ JobOK(j)
    BY <2>1 DEF PoolInv, Types, JobState
  <2>3. CASE p = None
    BY <1>1, <2>1, <2>2, <2>3, Finite DEF JobOK, Holding
  <2>4. CASE p \in Process
    <3>1. Ages(proc[p], proc'[p]) /\ Lasts(proc[p], proc'[p]) /\ proc[p] \in ProcessState
      BY <2>4 DEF PoolInv, Types
    <3>2. proc[p].healthy \in BOOLEAN /\ proc'[p].healthy \in BOOLEAN
      BY <3>1 DEF Ages, ProcessState
    <3>3. proc'[p].runs = proc[p].runs /\ (proc'[p].healthy => proc[p].healthy)
          /\ (proc[p].alive \/ Excused(proc[p]) => proc'[p].alive \/ Excused(proc'[p]))
      BY <3>1 DEF Ages, Lasts, Excused
    <3>4. job'[j].worker = p
      BY <1>1, <2>1
    <3> QED BY <1>1, <1>5, <1>6, <2>1, <2>2, <2>4, <3>2, <3>3, <3>4
       DEF JobOK, Holding, Excused
  <2> QED BY <2>2, <2>3, <2>4
<1>8. ASSUME NEW p \in Process PROVE ProcOK(p)'
  BY <1>1, <1>5 DEF PoolInv, ProcOK, Ages
<1> QED BY <1>2, <1>4, <1>7, <1>8 DEF PoolInv

\* The steps of the loop and of the callbacks, by what they write into the job's
\* record and into one process.
LEMMA TypesKept ==
    ASSUME Types, idle' \in SUBSET Process, closed' \in BOOLEAN, calls' \in Nat, faults' \in Nat,
           NEW j \in Job, NEW p, NEW s, NEW r \in JobState,
           job' = [job EXCEPT ![j] = r], proc' = [proc EXCEPT ![p] = s],
           p \in Process => s \in ProcessState
    PROVE  Types' /\ job'[j] = r /\ (p \in Process => proc'[p] = s)
           /\ (\A k \in Job \ {j} : job'[k] = job[k])
           /\ (\A q \in Process \ {p} : proc'[q] = proc[q])
BY DEF Types

LEMMA FaultType ==
    ASSUME Types, Fault \/ UNCHANGED faults
    PROVE  faults' \in Nat
BY DEF Types, Fault

LEMMA Stays ==
    ASSUME NEW s \in ProcessState
    PROVE  Ages(s, s) /\ Lasts(s, s)
BY DEF Ages, Lasts, Excused

\* A frame is read off the process's output.
LEMMA FrameRead ==
    ASSUME NEW s \in ProcessState, s.out # <<>>
    PROVE  LET t == [s EXCEPT !.out = Tail(@)] IN
           /\ Ages(s, t) /\ Lasts(s, t) /\ Head(s.out) \in Frame
           /\ t.alive = s.alive /\ t.died = s.died /\ t.late = s.late /\ t.healthy = s.healthy
<1>1. PICK t : t = [s EXCEPT !.out = Tail(@)]
  OBVIOUS
<1>2. Head(s.out) \in Frame /\ Tail(s.out) \in Seq(Frame)
  BY DEF ProcessState
<1>3. t \in ProcessState
  BY <1>1, <1>2 DEF ProcessState
<1>4. t.served = s.served /\ t.tenant = s.tenant /\ t.runs = s.runs /\ t.alive = s.alive
      /\ t.healthy = s.healthy /\ t.died = s.died /\ t.late = s.late
  BY <1>1 DEF ProcessState
<1> QED BY <1>1, <1>2, <1>3, <1>4 DEF Ages, Lasts, Excused

\* What the pool does not look at in a job's record.
SameJob(r, t) ==
    t \in JobState /\ t.worker = r.worker /\ t.attempt = r.attempt /\ t.killer = r.killer

LEMMA OneInPlace ==
    ASSUME PoolInv, UNCHANGED <<idle, workers, closed>>, calls' \in Nat, faults' \in Nat,
           NEW j \in Job, NEW p \in Process, NEW r, NEW s,
           job' = [job EXCEPT ![j] = r], proc' = [proc EXCEPT ![p] = s],
           SameJob(job[j], r),
           r.pc = job[j].pc \/ (job[j].pc = "running" /\ r.pc = "failing"),
           Ages(proc[p], s), Lasts(proc[p], s)
    PROVE  PoolInv'
<1>1. /\ Types' /\ job'[j] = r /\ proc'[p] = s
      /\ (\A k \in Job \ {j} : job'[k] = job[k])
      /\ (\A q \in Process \ {p} : proc'[q] = proc[q])
  BY TypesKept DEF PoolInv, Types, SameJob, Ages
<1>2. ASSUME NEW k \in Job
      PROVE  /\ job'[k].pc = job[k].pc \/ (job[k].pc = "running" /\ job'[k].pc = "failing")
             /\ job'[k].worker = job[k].worker /\ job'[k].attempt = job[k].attempt
             /\ job'[k].killer = job[k].killer
  <2>1. CASE k = j
    BY <1>1, <2>1 DEF SameJob
  <2>2. CASE k # j
    <3>1. job'[k] = job[k]
      BY <1>1, <2>2
    <3> QED BY <3>1
  <2> QED BY <2>1, <2>2
<1>3. ASSUME NEW q \in Process PROVE Ages(proc[q], proc'[q]) /\ Lasts(proc[q], proc'[q])
  <2>1. CASE q = p
    BY <1>1, <2>1
  <2>2. CASE q # p
    BY <1>1, <2>2, Stays, ProcIs DEF PoolInv
  <2> QED BY <2>1, <2>2
<1> QED BY <1>1, <1>2, <1>3, InPlace

LEMMA ReadCallKeeps ==
    ASSUME PoolInv, NEW j \in Job, ReadCall(j)
    PROVE  PoolInv'
<1>1. PICK p, s : p = job[j].worker /\ s = proc[p]
  OBVIOUS
<1>2. job[j].pc = "running" /\ s.out # <<>>
      /\ UNCHANGED <<idle, workers, closed, faults, calls>>
  BY <1>1 DEF ReadCall
<1>3. p \in Process /\ s \in ProcessState /\ job[j] \in JobState
  BY <1>1, <1>2 DEF PoolInv, Types, JobOK, Holding
<1>4. PICK t, frame : t = [s EXCEPT !.out = Tail(@)] /\ frame = Head(s.out)
  OBVIOUS
<1>5. Ages(s, t) /\ Lasts(s, t) /\ t.alive = s.alive /\ t.died = s.died /\ t.late = s.late /\ frame \in Frame
  BY <1>2, <1>3, <1>4, FrameRead
<1>6. frame.id \in Nat
  BY <1>5 DEF Frame
<1>7. PICK u : u = Sent(t, Msg("reply", j, frame.id))
  OBVIOUS
<1>8. Ages(s, u) /\ Lasts(s, u)
  <2>1. Ages(t, u) /\ u.alive = t.alive /\ u.died = t.died /\ u.late = t.late
    BY <1>5, <1>6, <1>7, FrameType, SentAges DEF Ages
  <2> QED BY <1>5, <2>1 DEF Ages, Lasts, Excused
<1>9. PICK r1, r2 : r1 = [job[j] EXCEPT !.replies = @ \cup {frame.id}]
                    /\ r2 = [job[j] EXCEPT !.pc = "failing", !.blame = "eof"]
  OBVIOUS
<1>10. /\ r1 \in JobState /\ r1.pc = job[j].pc /\ r1.worker = job[j].worker
       /\ r1.attempt = job[j].attempt /\ r1.killer = job[j].killer
       /\ r2 \in JobState /\ r2.pc = "failing" /\ r2.worker = job[j].worker
       /\ r2.attempt = job[j].attempt /\ r2.killer = job[j].killer
  BY <1>3, <1>6, <1>9 DEF JobState
<1>11. \/ /\ job' = [job EXCEPT ![j] = r1] /\ proc' = [proc EXCEPT ![p] = t]
       \/ /\ job' = [job EXCEPT ![j] = r2] \/ job' = [job EXCEPT ![j] = job[j]]
          /\ proc' = [proc EXCEPT ![p] = u]
  <2>1. job = [job EXCEPT ![j] = job[j]]
    BY ProcIs DEF PoolInv
  <2>2. CASE frame.type = "helper" /\ job' = [job EXCEPT ![j].replies = @ \cup {frame.id}]
             /\ proc' = [proc EXCEPT ![p] = t]
    BY <1>9, <2>2, ProcIs DEF PoolInv
  <2>3. CASE /\ job' = IF s.alive THEN job
                       ELSE [job EXCEPT ![j].pc = "failing", ![j].blame = "eof"]
             /\ proc' = [proc EXCEPT ![p] = u]
    <3>1. [job EXCEPT ![j].pc = "failing", ![j].blame = "eof"] = [job EXCEPT ![j] = r2]
      BY <1>9, ProcIs DEF PoolInv
    <3> QED BY <2>1, <2>3, <3>1
  <2> QED BY <1>1, <1>4, <1>7, <2>2, <2>3 DEF ReadCall
<1>12. PICK r, v : /\ r \in {r1, r2, job[j]} /\ v \in {t, u}
                   /\ job' = [job EXCEPT ![j] = r] /\ proc' = [proc EXCEPT ![p] = v]
  BY <1>11
<1>13. Ages(s, v) /\ Lasts(s, v) /\ calls' \in Nat /\ faults' \in Nat
  BY <1>2, <1>5, <1>8, <1>12 DEF PoolInv, Types
<1>14. SameJob(job[j], r) /\ (r.pc = job[j].pc \/ (job[j].pc = "running" /\ r.pc = "failing"))
  BY <1>2, <1>3, <1>10, <1>12 DEF SameJob
<1>15. UNCHANGED <<idle, workers, closed>> /\ s = proc[p]
       /\ job' = [job EXCEPT ![j] = r] /\ proc' = [proc EXCEPT ![p] = v]
  BY <1>1, <1>2, <1>12
<1> QED BY <1>3, <1>13, <1>14, <1>15, OneInPlace

LEMMA JobOnly ==
    ASSUME PoolInv, UNCHANGED <<idle, workers, closed, proc>>, calls' \in Nat, faults' \in Nat,
           NEW j \in Job, NEW r, job' = [job EXCEPT ![j] = r], SameJob(job[j], r),
           r.pc = job[j].pc \/ (job[j].pc = "running" /\ r.pc = "failing")
    PROVE  PoolInv'
<1>1. proc' = [proc EXCEPT ![0] = proc[0]] /\ 0 \in Process
  BY ProcIs, Finite DEF PoolInv
<1>2. Ages(proc[0], proc[0]) /\ Lasts(proc[0], proc[0])
  BY Finite, Stays, ProcIs DEF PoolInv
<1> QED BY <1>1, <1>2, OneInPlace

LEMMA ProcOnly ==
    ASSUME PoolInv, UNCHANGED <<idle, workers, closed, job>>, calls' \in Nat, faults' \in Nat,
           NEW p \in Process, NEW s, proc' = [proc EXCEPT ![p] = s],
           Ages(proc[p], s), Lasts(proc[p], s)
    PROVE  PoolInv'
<1>1. Types'
  BY DEF PoolInv, Types, Ages
<1>2. \A q \in Process : Ages(proc[q], proc'[q]) /\ Lasts(proc[q], proc'[q])
  <2> SUFFICES ASSUME NEW q \in Process
               PROVE  Ages(proc[q], proc'[q]) /\ Lasts(proc[q], proc'[q])
    OBVIOUS
  <2>1. CASE q = p
    BY <2>1 DEF PoolInv, Types
  <2>2. CASE q # p
    BY <2>2, Stays, ProcIs DEF PoolInv, Types
  <2> QED BY <2>1, <2>2
<1>3. \A j \in Job :
         /\ job'[j].pc = job[j].pc \/ (job[j].pc = "running" /\ job'[j].pc = "failing")
         /\ job'[j].worker = job[j].worker /\ job'[j].attempt = job[j].attempt
         /\ job'[j].killer = job[j].killer
  OBVIOUS
<1> QED BY <1>1, <1>2, <1>3, InPlace

\* The loop's other reads, and the callbacks that only write a job's record.
LEMMA JobOnlySteps ==
    ASSUME PoolInv, NEW j \in Job, ReadFails(j) \/ DeadlineFires(j) \/ CancelRun(j)
    PROVE  PoolInv'
<1>1. job[j] \in JobState /\ calls \in Nat /\ faults \in Nat
  BY DEF PoolInv, Types
<1>2. CASE ReadFails(j)
  <2>1. PICK r1, r2 : /\ r1 = [job[j] EXCEPT !.pc = "failing", !.blame = "eof"]
                      /\ r2 = [job[j] EXCEPT !.pc = "failing", !.blame = "protocol"]
    OBVIOUS
  <2>2. SameJob(job[j], r1) /\ r1.pc = "failing" /\ SameJob(job[j], r2) /\ r2.pc = "failing"
    BY <1>1, <2>1 DEF SameJob, JobState
  <2>3. \/ job' = [job EXCEPT ![j].pc = "failing", ![j].blame = "eof"]
        \/ job' = [job EXCEPT ![j].pc = "failing", ![j].blame = "protocol"]
    BY <1>2 DEF ReadFails
  <2>4. job' = [job EXCEPT ![j] = r1] \/ job' = [job EXCEPT ![j] = r2]
    BY <2>1, <2>3, ProcIs DEF PoolInv
  <2>5. PICK r \in {r1, r2} : job' = [job EXCEPT ![j] = r]
    BY <2>4
  <2>6. job[j].pc = "running" /\ UNCHANGED <<idle, workers, closed, proc, faults, calls>>
    BY <1>2 DEF ReadFails
  <2>7. SameJob(job[j], r) /\ r.pc = "failing"
    BY <2>2, <2>5
  <2> QED BY <1>1, <2>5, <2>6, <2>7, JobOnly
<1>3. CASE DeadlineFires(j)
  <2>1. PICK r : r = [job[j] EXCEPT !.deadline = "fired"]
    OBVIOUS
  <2>2. SameJob(job[j], r) /\ r.pc = job[j].pc /\ job' = [job EXCEPT ![j] = r]
    BY <1>1, <1>3, <2>1 DEF SameJob, JobState, DeadlineFires
  <2>3. UNCHANGED <<idle, workers, closed, proc>> /\ calls' \in Nat /\ faults' \in Nat
    BY <1>1, <1>3 DEF DeadlineFires
  <2> QED BY <2>2, <2>3, JobOnly
<1>4. CASE CancelRun(j)
  <2>1. PICK r : r = [job[j] EXCEPT !.cancel = "fired"]
    OBVIOUS
  <2>2. SameJob(job[j], r) /\ r.pc = job[j].pc /\ job' = [job EXCEPT ![j] = r]
    BY <1>1, <1>4, <2>1 DEF SameJob, JobState, CancelRun
  <2>3. UNCHANGED <<idle, workers, closed, proc>> /\ calls' \in Nat /\ faults' \in Nat
    BY <1>1, <1>4 DEF CancelRun, Fault
  <2> QED BY <2>2, <2>3, JobOnly
<1> QED BY <1>2, <1>3, <1>4

LEMMA HelperAnswersKeeps ==
    ASSUME PoolInv, NEW j \in Job, NEW id \in job[j].replies, HelperAnswers(j, id)
    PROVE  PoolInv'
<1>1. job[j] \in JobState /\ calls \in Nat /\ faults \in Nat /\ id \in Nat
  BY DEF PoolInv, Types, JobState
<1>2. PICK r, p : r = [job[j] EXCEPT !.replies = @ \ {id}] /\ p = job[j].worker
  OBVIOUS
<1>3. SameJob(job[j], r) /\ r.pc = job[j].pc /\ job' = [job EXCEPT ![j] = r]
  BY <1>1, <1>2 DEF SameJob, JobState, HelperAnswers
<1>4. CASE ~MayWrite(j) \/ p \notin Process
  <2>1. UNCHANGED proc
    BY <1>2, <1>4 DEF HelperAnswers, PoolInv, Types
  <2>2. UNCHANGED <<idle, workers, closed, proc>> /\ calls' \in Nat /\ faults' \in Nat
    BY <1>1, <2>1 DEF HelperAnswers
  <2> QED BY <1>3, <2>2, JobOnly
<1>5. CASE MayWrite(j) /\ p \in Process
  <2>1. PICK s, t : s = proc[p] /\ t = Sent(s, Msg("reply", j, id))
    OBVIOUS
  <2>2. proc' = [proc EXCEPT ![p] = t]
    BY <1>2, <1>5, <2>1 DEF HelperAnswers
  <2>3. s \in ProcessState
    BY <1>5, <2>1, ProcIs DEF PoolInv
  <2>4. Ages(s, t) /\ Lasts(s, t)
    BY <1>1, <2>1, <2>3, FrameType, SentAges DEF Lasts, Excused
  <2>5. UNCHANGED <<idle, workers, closed>> /\ calls' \in Nat /\ faults' \in Nat
    BY <1>1 DEF HelperAnswers
  <2>6. Ages(proc[p], t) /\ Lasts(proc[p], t)
    BY <2>1, <2>4
  <2> QED BY <1>3, <1>5, <2>2, <2>5, <2>6, OneInPlace
<1> QED BY <1>4, <1>5

\* A worker's own steps; what ends one of these is its own doing.
LEMMA WorkerTypes ==
    ASSUME NEW s \in ProcessState, s.in # <<>>
    PROVE  LET t == [s EXCEPT !.in = Tail(@)] IN
           Ages(s, t) /\ t.alive = s.alive /\ t.died = s.died /\ t.late = s.late /\ Head(s.in) \in Frame
<1>1. PICK t : t = [s EXCEPT !.in = Tail(@)]
  OBVIOUS
<1>2. Head(s.in) \in Frame /\ Tail(s.in) \in Seq(Frame)
  BY DEF ProcessState
<1>3. t \in ProcessState
  BY <1>1, <1>2 DEF ProcessState
<1>4. t.served = s.served /\ t.tenant = s.tenant /\ t.runs = s.runs /\ t.alive = s.alive
      /\ t.healthy = s.healthy /\ t.died = s.died /\ t.late = s.late
  BY <1>1 DEF ProcessState
<1> QED BY <1>1, <1>2, <1>3, <1>4 DEF Ages

LEMMA DeathIsItsOwn ==
    ASSUME NEW s \in ProcessState
    PROVE  /\ Ages(s, [Killed(s) EXCEPT !.died = TRUE])
           /\ Lasts(s, [Killed(s) EXCEPT !.died = TRUE])
           /\ Ages(s, Broken(s)) /\ Lasts(s, Broken(s))
<1>1. PICK k : k = Killed(s)
  OBVIOUS
<1>2. Ages(s, k) /\ k \in ProcessState
  BY <1>1, KilledAges DEF Ages
<1>3. PICK t, u : t = [k EXCEPT !.died = TRUE] /\ u = [k EXCEPT !.died = TRUE, !.broke = TRUE]
  OBVIOUS
<1>4. t \in ProcessState /\ u \in ProcessState
  BY <1>2, <1>3 DEF ProcessState
<1>5. /\ t.died /\ t.served = k.served /\ t.tenant = k.tenant /\ t.runs = k.runs
      /\ t.alive = k.alive /\ t.healthy = k.healthy
      /\ u.died /\ u.served = k.served /\ u.tenant = k.tenant /\ u.runs = k.runs
      /\ u.alive = k.alive /\ u.healthy = k.healthy
  BY <1>2, <1>3 DEF ProcessState
<1>6. Ages(s, t) /\ Lasts(s, t) /\ Ages(s, u) /\ Lasts(s, u)
  BY <1>2, <1>4, <1>5 DEF Ages, Lasts, Excused
<1> QED BY <1>1, <1>3, <1>6 DEF Broken

LEMMA ReceiveKeeps ==
    ASSUME PoolInv, NEW p \in Process, Receive(p)
    PROVE  PoolInv'
<1>1. PICK s : s = proc[p]
  OBVIOUS
<1>2. PICK frame, t : frame = Head(s.in) /\ t = [s EXCEPT !.in = Tail(@)]
  OBVIOUS
<1>3. s \in ProcessState /\ s.in # <<>> /\ calls \in Nat /\ faults \in Nat
  BY <1>1, ProcIs DEF PoolInv, Types, Receive
<1>4. Ages(s, t) /\ t.alive = s.alive /\ t.died = s.died /\ t.late = s.late /\ frame \in Frame /\ t \in ProcessState
  BY <1>2, <1>3, WorkerTypes DEF Ages
<1>5. PICK u, v, w : /\ u = [t EXCEPT !.current = frame.nonce, !.ended = None]
                     /\ v = [t EXCEPT !.waiting = {x \in @ : x[1] # frame.id}]
                     /\ w = Broken(t)
  OBVIOUS
<1>6. frame.nonce \in Job
  BY <1>4 DEF Frame
<1>7. /\ u \in ProcessState /\ u.served = t.served /\ u.tenant = t.tenant /\ u.runs = t.runs
      /\ u.alive = t.alive /\ u.healthy = t.healthy /\ u.died = t.died /\ u.late = t.late
  BY <1>4, <1>5, <1>6 DEF ProcessState
<1>8. /\ v \in ProcessState /\ v.served = t.served /\ v.tenant = t.tenant /\ v.runs = t.runs
      /\ v.alive = t.alive /\ v.healthy = t.healthy /\ v.died = t.died /\ v.late = t.late
  BY <1>4, <1>5 DEF ProcessState
<1>9. Ages(t, w) /\ Lasts(t, w)
  BY <1>4, <1>5, DeathIsItsOwn
<1>10. /\ Ages(s, u) /\ Lasts(s, u) /\ Ages(s, v) /\ Lasts(s, v) /\ Ages(s, w) /\ Lasts(s, w)
  BY <1>4, <1>7, <1>8, <1>9 DEF Ages, Lasts, Excused
<1>11. proc' = [proc EXCEPT ![p] =
          CASE frame.type = "run" /\ t.current = None -> u
            [] frame.type = "reply" /\ Expects(t, frame) -> v
            [] OTHER -> w]
       /\ UNCHANGED <<idle, workers, closed, job, faults, calls>>
  BY <1>1, <1>2, <1>5 DEF Receive
<1>12. PICK x \in {u, v, w} : proc' = [proc EXCEPT ![p] = x]
  <2>1. (CASE frame.type = "run" /\ t.current = None -> u
            [] frame.type = "reply" /\ Expects(t, frame) -> v
            [] OTHER -> w) \in {u, v, w}
    OBVIOUS
  <2> QED BY <1>11, <2>1
<1>13. Ages(proc[p], x) /\ Lasts(proc[p], x)
  BY <1>1, <1>10, <1>12
<1>14. UNCHANGED <<idle, workers, closed, job>> /\ calls' \in Nat /\ faults' \in Nat
  BY <1>3, <1>11
<1> QED BY <1>12, <1>13, <1>14, ProcOnly

LEMMA WorkerKeeps ==
    ASSUME PoolInv, NEW p \in Process,
           \/ \E kind \in {"question", "helper"} : AskServer(p, kind)
           \/ FinishJob(p) \/ Die(p) \/ Misbehave(p) \/ IdleTimerFires(p) \/ StartKills(p)
    PROVE  PoolInv'
<1>1. PICK s : s = proc[p]
  OBVIOUS
<1>2. s \in ProcessState /\ calls \in Nat /\ faults \in Nat
  BY <1>1, ProcIs DEF PoolInv, Types
<1>3. s.out \in Seq(Frame) /\ s.lastID \in Nat /\ s.current \in Job \cup {None}
      /\ s.waiting \subseteq Nat \X {"question", "helper"}
  BY <1>2 DEF ProcessState
<1>4. ASSUME NEW kind \in {"question", "helper"}, AskServer(p, kind) PROVE PoolInv'
  <2>1. PICK id, frame : id = s.lastID + 1 /\ frame = Msg(kind, s.current, id)
    OBVIOUS
  <2>2. s.current \in Job /\ id \in Nat
    BY <1>1, <1>3, <1>4, <2>1 DEF AskServer
  <2>3. frame \in Frame
    BY <2>1, <2>2, FrameType
  <2>4. PICK t : t = [s EXCEPT !.lastID = id, !.waiting = @ \cup {<<id, kind>>},
                               !.out = Append(@, frame)]
    OBVIOUS
  <2>5. Append(s.out, frame) \in Seq(Frame)
        /\ s.waiting \cup {<<id, kind>>} \subseteq Nat \X {"question", "helper"}
    BY <1>3, <2>2, <2>3
  <2>6. t \in ProcessState
    BY <1>2, <2>2, <2>4, <2>5 DEF ProcessState
  <2>7. t.served = s.served /\ t.tenant = s.tenant /\ t.runs = s.runs /\ t.alive = s.alive
        /\ t.healthy = s.healthy /\ t.died = s.died /\ t.late = s.late
    BY <1>2, <2>4 DEF ProcessState
  <2>8. Ages(proc[p], t) /\ Lasts(proc[p], t)
    BY <1>1, <2>6, <2>7 DEF Ages, Lasts, Excused
  <2>9. proc' = [proc EXCEPT ![p] = t]
    BY <1>1, <1>4, <2>1, <2>4, ProcIs DEF AskServer, PoolInv
  <2>10. UNCHANGED <<idle, workers, closed, job>> /\ calls' \in Nat /\ faults' \in Nat
    BY <1>2, <1>4 DEF AskServer
  <2> QED BY <2>8, <2>9, <2>10, ProcOnly
<1>5. CASE FinishJob(p)
  <2>1. PICK frame : frame = Msg("done", s.current, 0)
    OBVIOUS
  <2>2. s.current \in Job
    BY <1>1, <1>3, <1>5 DEF FinishJob
  <2>3. frame \in Frame
    BY <2>1, <2>2, FrameType
  <2>4. PICK t : t = [s EXCEPT !.ended = s.current, !.current = None, !.waiting = {},
                               !.out = Append(@, frame)]
    OBVIOUS
  <2>5. Append(s.out, frame) \in Seq(Frame)
    BY <1>3, <2>3
  <2>6. t \in ProcessState
    BY <1>2, <1>3, <2>4, <2>5 DEF ProcessState
  <2>7. t.served = s.served /\ t.tenant = s.tenant /\ t.runs = s.runs /\ t.alive = s.alive
        /\ t.healthy = s.healthy /\ t.died = s.died /\ t.late = s.late
    BY <1>2, <2>4 DEF ProcessState
  <2>8. Ages(proc[p], t) /\ Lasts(proc[p], t)
    BY <1>1, <2>6, <2>7 DEF Ages, Lasts, Excused
  <2>9. proc' = [proc EXCEPT ![p] = t]
    BY <1>1, <1>5, <2>1, <2>4, ProcIs DEF FinishJob, PoolInv
  <2>10. UNCHANGED <<idle, workers, closed, job>> /\ calls' \in Nat /\ faults' \in Nat
    BY <1>2, <1>5 DEF FinishJob
  <2> QED BY <2>8, <2>9, <2>10, ProcOnly
<1>6. CASE Die(p)
  <2>1. PICK t : t = [Killed(s) EXCEPT !.died = TRUE]
    OBVIOUS
  <2>2. Ages(proc[p], t) /\ Lasts(proc[p], t)
    BY <1>1, <1>2, <2>1, DeathIsItsOwn
  <2>3. proc' = [proc EXCEPT ![p] = t]
    BY <1>1, <1>6, <2>1 DEF Die
  <2>4. UNCHANGED <<idle, workers, closed, job>> /\ calls' \in Nat /\ faults' \in Nat
    BY <1>2, <1>6 DEF Die, Fault
  <2> QED BY <2>2, <2>3, <2>4, ProcOnly
<1>7. CASE Misbehave(p)
  <2>1. PICK k : k = CHOOSE j \in Job : Holds(j, p)
    OBVIOUS
  <2>2. k \in Job
    BY <1>7, <2>1 DEF Misbehave
  <2>3. PICK frame : frame = Msg("bad", k, 0)
    OBVIOUS
  <2>4. frame \in Frame
    BY <2>2, <2>3, FrameType
  <2>5. PICK t : t = [s EXCEPT !.bad = TRUE, !.out = Append(@, frame)]
    OBVIOUS
  <2>6. Append(s.out, frame) \in Seq(Frame)
    BY <1>3, <2>4
  <2>7. t \in ProcessState
    BY <1>2, <2>5, <2>6 DEF ProcessState
  <2>8. t.served = s.served /\ t.tenant = s.tenant /\ t.runs = s.runs /\ t.alive = s.alive
        /\ t.healthy = s.healthy /\ t.died = s.died /\ t.late = s.late
    BY <1>2, <2>5 DEF ProcessState
  <2>9. Ages(proc[p], t) /\ Lasts(proc[p], t)
    BY <1>1, <2>7, <2>8 DEF Ages, Lasts, Excused
  <2>10. proc' = [proc EXCEPT ![p] = t]
    BY <1>1, <1>7, <2>1, <2>3, <2>5, ProcIs DEF Misbehave, PoolInv
  <2>11. UNCHANGED <<idle, workers, closed, job>> /\ calls' \in Nat /\ faults' \in Nat
    BY <1>2, <1>7 DEF Misbehave, Fault
  <2> QED BY <2>9, <2>10, <2>11, ProcOnly
<1>8. CASE IdleTimerFires(p)
  <2>1. PICK t : t = [s EXCEPT !.timer = "off", !.retiring = TRUE]
    OBVIOUS
  <2>2. t \in ProcessState
    BY <1>2, <2>1 DEF ProcessState
  <2>3. t.served = s.served /\ t.tenant = s.tenant /\ t.runs = s.runs /\ t.alive = s.alive
        /\ t.healthy = s.healthy /\ t.died = s.died /\ t.late = s.late
    BY <1>2, <2>1 DEF ProcessState
  <2>4. Ages(proc[p], t) /\ Lasts(proc[p], t)
    BY <1>1, <2>2, <2>3 DEF Ages, Lasts, Excused
  <2>5. proc' = [proc EXCEPT ![p] = t]
    BY <1>1, <1>8, <2>1, ProcIs DEF IdleTimerFires, PoolInv
  <2>6. UNCHANGED <<idle, workers, closed, job>> /\ calls' \in Nat /\ faults' \in Nat
    BY <1>2, <1>8 DEF IdleTimerFires
  <2> QED BY <2>4, <2>5, <2>6, ProcOnly
<1>9. CASE StartKills(p)
  <2>1. PICK k, t : k = Killed(s) /\ t = [k EXCEPT !.late = "killed"]
    OBVIOUS
  <2>2. Ages(s, k) /\ k \in ProcessState
    BY <1>2, <2>1, KilledAges DEF Ages
  <2>3. /\ t \in ProcessState /\ t.served = k.served /\ t.tenant = k.tenant /\ t.runs = k.runs
        /\ t.alive = k.alive /\ t.healthy = k.healthy /\ t.late = "killed"
    BY <2>1, <2>2 DEF ProcessState
  <2>4. Ages(proc[p], t) /\ Lasts(proc[p], t)
    BY <1>1, <2>2, <2>3 DEF Ages, Lasts, Excused
  <2>5. proc' = [proc EXCEPT ![p] = t]
    BY <1>1, <1>9, <2>1 DEF StartKills
  <2>6. UNCHANGED <<idle, workers, closed, job>> /\ calls' \in Nat /\ faults' \in Nat
    BY <1>2, <1>9 DEF StartKills
  <2> QED BY <2>4, <2>5, <2>6, ProcOnly
<1> QED BY <1>4, <1>5, <1>6, <1>7, <1>8, <1>9

-----------------------------------------------------------------------------
(* Steps that move a process from one hand to the next. *)

\* One job moves (or none, when j is none): nobody else's process is touched.
LEMMA CoreStep ==
    ASSUME PoolInv, Types', Counted', NEW j,
           \A k \in Job \ {j} : job'[k] = job[k],
           j \in Job => JobOK(j)',
           j \in Job /\ job'[j].pc \in {"queued", "starting"}
               => job[j].pc \in {"queued", "starting"},
           \A k \in Job \ {j} : job[k].pc \in Holding =>
               /\ job[k].worker \notin idle' /\ proc'[job[k].worker] = proc[job[k].worker]
               /\ j \in Job /\ job'[j].pc \in Holding => job[k].worker # job'[j].worker,
           \A p \in Process : Known(p) /\ Gone(p) => Gone(p)',
           \A p \in Process : ProcOK(p)'
    PROVE  PoolInv'
<1>1. \A p \in Process : Known(p) => Known(p)'
  BY DEF Known, Process
<1>2. Exclusive'
  <2>1. ASSUME NEW k \in Job, NEW l \in Job, job'[k].pc \in Holding, job'[l].pc \in Holding,
               job'[k].worker = job'[l].worker
        PROVE  k = l
    <3>1. CASE k # j /\ l # j
      BY <2>1, <3>1 DEF PoolInv, Exclusive
    <3>2. CASE k = j /\ l # j
      BY <2>1, <3>2
    <3>3. CASE k # j /\ l = j
      BY <2>1, <3>3
    <3> QED BY <3>1, <3>2, <3>3
  <2> QED BY <2>1 DEF Exclusive
<1>3. ASSUME NEW k \in Job, k # j PROVE JobOK(k)'
  <2>1. job'[k] = job[k] /\ JobOK(k) /\ job[k].worker \in Process \cup {None}
    BY <1>3 DEF PoolInv, Types, JobState
  <2>2. PICK p : p = job[k].worker
    OBVIOUS
  <2>3. job[k].pc \in Holding => p \notin idle' /\ proc'[p] = proc[p]
    BY <1>3, <2>2
  <2>4. p # None => Known(p)'
    BY <1>1, <2>1, <2>2 DEF JobOK
  <2>5. job[k].killer => job[k].pc \in Holding \/ Gone(p)'
    BY <2>1, <2>2, Finite DEF JobOK
  <2> QED BY <2>1, <2>2, <2>3, <2>4, <2>5 DEF JobOK, Holding
<1>4. \A k \in Job : JobOK(k)'
  BY <1>3
<1> QED BY <1>2, <1>4 DEF PoolInv

\* A process nobody moved keeps its place.
LEMMA ProcStays ==
    ASSUME PoolInv, NEW p \in Process, Known(p) => Known(p)',
           proc'[p].served = proc[p].served, proc'[p].tenant = proc[p].tenant,
           proc'[p].runs = proc[p].runs, proc'[p].alive => proc[p].alive,
           p \in idle' => p \in idle,
           proc'[p].alive /\ p \in idle => p \in idle',
           \A k \in Job : job[k].pc \in Holding /\ job[k].worker = p /\ proc'[p].alive
               => job'[k].pc \in Holding /\ job'[k].worker = p
    PROVE  ProcOK(p)'
BY DEF PoolInv, ProcOK

LEMMA StoppedStays ==
    ASSUME NEW p \in Process, proc'[p] = Stopped, p \notin idle'
    PROVE  ProcOK(p)'
BY StoppedIs DEF ProcOK

LEMMA HeldIs ==
    ASSUME PoolInv, NEW k \in Job, job[k].pc \in Holding
    PROVE  /\ job[k].worker \in Process /\ job[k].worker \notin idle
           /\ Known(job[k].worker) /\ ~Gone(job[k].worker)
           /\ proc[job[k].worker] \in ProcessState
<1>1. JobOK(k)
  BY DEF PoolInv
<1>2. job[k].worker \in Process /\ job[k].worker \notin idle
  BY <1>1 DEF JobOK
<1>3. job[k].worker # None
  BY <1>2, Finite
<1> QED BY <1>1, <1>2, <1>3, ProcIs DEF JobOK, Gone, PoolInv

LEMMA SlotsKept ==
    ASSUME Types, NEW j \in Job, \A k \in Job \ {j} : job'[k] = job[k]
    PROVE  /\ HoldsSlot(j) /\ HoldsSlot(j)' => Slotted' = Slotted
           /\ ~HoldsSlot(j) /\ ~HoldsSlot(j)' => Slotted' = Slotted
           /\ HoldsSlot(j) /\ ~HoldsSlot(j)' =>
                 Slotted' = Slotted \ {j}
                 /\ Cardinality(Slotted') + 1 = Cardinality(Slotted)
                 /\ Cardinality(Slotted') \in Nat
           /\ ~HoldsSlot(j) /\ HoldsSlot(j)' =>
                 Slotted' = Slotted \cup {j}
                 /\ Cardinality(Slotted') = Cardinality(Slotted) + 1
                 /\ Cardinality(Slotted') \in Nat
<1>0. \A k \in Job \ {j} : HoldsSlot(k)' <=> HoldsSlot(k)
  BY DEF HoldsSlot
<1>1. IsFiniteSet(Slotted) /\ Cardinality(Slotted) \in Nat
  BY SetsAreFinite
<1>2. ASSUME HoldsSlot(j), ~HoldsSlot(j)'
      PROVE  Slotted' = Slotted \ {j} /\ Cardinality(Slotted') + 1 = Cardinality(Slotted)
             /\ Cardinality(Slotted') \in Nat
  <2>1. Slotted' = Slotted \ {j} /\ j \in Slotted
    BY <1>0, <1>2 DEF Slotted
  <2>2. PICK S, T : S = Slotted /\ T = Slotted \ {j}
    OBVIOUS
  <2>3. IsFiniteSet(T) /\ Cardinality(T) = Cardinality(S) - 1
    BY <1>1, <2>1, <2>2, FS_RemoveElement
  <2>4. Cardinality(T) \in Nat
    BY <2>3, FS_CardinalityType
  <2>5. Slotted' = T
    BY <2>1, <2>2
  <2>6. Cardinality(T) + 1 = Cardinality(S)
    BY <1>1, <2>2, <2>3
  <2> QED BY <2>1, <2>2, <2>4, <2>5, <2>6
<1>3. ASSUME ~HoldsSlot(j), HoldsSlot(j)'
      PROVE  Slotted' = Slotted \cup {j} /\ Cardinality(Slotted') = Cardinality(Slotted) + 1
             /\ Cardinality(Slotted') \in Nat
  <2>1. Slotted' = Slotted \cup {j} /\ j \notin Slotted
    BY <1>0, <1>3 DEF Slotted
  <2>2. PICK S, T : S = Slotted /\ T = Slotted \cup {j}
    OBVIOUS
  <2>3. IsFiniteSet(T) /\ Cardinality(T) = Cardinality(S) + 1
    BY <1>1, <2>1, <2>2, FS_AddElement
  <2>4. Cardinality(T) \in Nat
    BY <2>3, FS_CardinalityType
  <2> QED BY <2>1, <2>2, <2>3, <2>4
<1>4. HoldsSlot(j) /\ HoldsSlot(j)' => Slotted' = Slotted
  BY <1>0 DEF Slotted
<1>5. ~HoldsSlot(j) /\ ~HoldsSlot(j)' => Slotted' = Slotted
  BY <1>0 DEF Slotted
<1> QED BY <1>2, <1>3, <1>4, <1>5

\* A job's record is replaced; the rest of what the steps share.
LEMMA JobBecomes ==
    ASSUME Types, NEW j \in Job, NEW r, job' = [job EXCEPT ![j] = r]
    PROVE  job'[j] = r /\ \A k \in Job \ {j} : job'[k] = job[k]
BY DEF Types

\* A job that leaves without ever having had a worker.
LEMMA LeavesUnstarted ==
    ASSUME PoolInv, NEW j \in Job, job[j].pc \in {"queued", "starting"},
           job' = [job EXCEPT ![j].pc = "over", ![j].cancel = "spent"],
           UNCHANGED <<idle, closed, proc, calls>>, faults' \in Nat, Counted'
    PROVE  PoolInv'
<1>1. PICK r : r = [job[j] EXCEPT !.pc = "over", !.cancel = "spent"]
  OBVIOUS
<1>2. job[j] \in JobState
  BY ProcIs DEF PoolInv
<1>3. r \in JobState /\ r.pc = "over" /\ r.worker = job[j].worker /\ r.killer = job[j].killer
  BY <1>1, <1>2 DEF JobState
<1>4. job' = [job EXCEPT ![j] = r]
  BY <1>1, ProcIs DEF PoolInv
<1>5. job'[j] = r /\ \A k \in Job \ {j} : job'[k] = job[k]
  BY <1>4, JobBecomes DEF PoolInv
<1>6. Types'
  BY <1>3, <1>4 DEF PoolInv, Types
<1>7. r.worker = None /\ ~r.killer
  BY <1>3 DEF PoolInv, JobOK
<1>8. JobOK(j)'
  BY <1>3, <1>5, <1>7 DEF JobOK, Holding
<1>9. \A p \in Process : Known(p) => Known(p)'
  BY <1>3, <1>5 DEF Known, Process
<1>10. \A k \in Job : job'[k].pc \in Holding => job[k].pc \in Holding /\ job'[k] = job[k]
  BY <1>3, <1>5 DEF Holding
<1>11. \A k \in Job : job[k].pc \in Holding => job'[k] = job[k]
  BY <1>5 DEF Holding
<1>12. \A p \in Process : Gone(p) => Gone(p)'
  BY <1>10 DEF Gone
<1>13. \A p \in Process : ProcOK(p)'
  BY <1>9, <1>11, ProcStays
<1>14. \A k \in Job \ {j} : job[k].pc \in Holding =>
          /\ job[k].worker \notin idle' /\ proc'[job[k].worker] = proc[job[k].worker]
          /\ j \in Job /\ job'[j].pc \in Holding => job[k].worker # job'[j].worker
  BY <1>3, <1>5, HeldIs DEF Holding
<1>15. job'[j].pc \notin {"queued", "starting"}
  BY <1>3, <1>5
<1> QED BY <1>5, <1>6, <1>8, <1>12, <1>13, <1>14, <1>15, CoreStep

LEMMA GiveUpKeeps ==
    ASSUME PoolInv, NEW j \in Job, GiveUp(j)
    PROVE  PoolInv'
<1>1. job[j].pc = "queued" /\ job' = [job EXCEPT ![j].pc = "over", ![j].cancel = "spent"]
      /\ UNCHANGED <<idle, workers, closed, proc, faults, calls>>
  BY DEF GiveUp
<1>2. job'[j].pc = "over" /\ \A k \in Job \ {j} : job'[k] = job[k]
  BY <1>1 DEF PoolInv, Types, JobState
<1>3. Slotted' = Slotted
  BY <1>1, <1>2, SlotsKept DEF PoolInv, HoldsSlot
<1>4. Counted'
  BY <1>1, <1>3 DEF PoolInv, Counted
<1>5. faults' \in Nat
  BY <1>1 DEF PoolInv, Types
<1> QED BY <1>1, <1>4, <1>5, LeavesUnstarted

LEMMA StartFailsKeeps ==
    ASSUME PoolInv, NEW j \in Job, StartFails(j)
    PROVE  PoolInv'
<1>1. job[j].pc = "starting" /\ job' = [job EXCEPT ![j].pc = "over", ![j].cancel = "spent"]
      /\ UNCHANGED <<idle, closed, proc, calls>> /\ workers' = workers - 1
  BY DEF StartFails
<1>2. job'[j].pc = "over" /\ \A k \in Job \ {j} : job'[k] = job[k]
  BY <1>1 DEF PoolInv, Types, JobState
<1>3. Cardinality(Slotted') + 1 = Cardinality(Slotted) /\ Cardinality(Slotted') \in Nat
      /\ Cardinality(Slotted) \in Nat /\ Cardinality(idle) \in Nat
  BY <1>1, <1>2, SlotsKept, SetsAreFinite DEF PoolInv, HoldsSlot
<1>4. workers = Cardinality(idle) + Cardinality(Slotted) /\ workers <= Slots /\ Slots \in Nat
  BY Finite DEF PoolInv, Counted
<1>5. workers' = Cardinality(idle) + Cardinality(Slotted') /\ workers' <= Slots
  BY <1>1, <1>3, <1>4
<1>6. Counted'
  BY <1>1, <1>5 DEF Counted
<1>7. faults' \in Nat
  BY DEF PoolInv, Types, StartFails, Fault
<1> QED BY <1>1, <1>6, <1>7, LeavesUnstarted

\* A fresh process is the job's, and was nobody's before.
LEMMA StartWorkerKeeps ==
    ASSUME PoolInv, NEW j \in Job, StartWorker(j)
    PROVE  PoolInv'
<1>1. job[j].pc = "starting" /\ UNCHANGED <<idle, workers, closed, calls>> /\ faults' \in Nat
  BY FaultType DEF StartWorker, PoolInv
<1>2. PICK r : r = [job[j] EXCEPT !.pc = "running", !.worker = j, !.open = TRUE]
  OBVIOUS
<1>3. job[j] \in JobState /\ j \in Process /\ ~job[j].killer
  BY <1>1, Finite, ProcIs DEF PoolInv, JobOK
<1>4. r \in JobState /\ r.pc = "running" /\ r.worker = j /\ r.killer = job[j].killer
  BY <1>2, <1>3 DEF JobState
<1>5. job' = [job EXCEPT ![j] = r]
  BY <1>2, ProcIs DEF PoolInv, StartWorker
<1>5a. PICK late \in {"none", "begun"} :
          proc' = [proc EXCEPT ![j] =
              Sent([NoProcess EXCEPT !.alive = TRUE, !.tenant = TenantOf[j],
                                     !.served = {TenantOf[j]}, !.late = late],
                   Msg("run", j, 0))]
  BY DEF StartWorker
<1>6. PICK t : t = [NoProcess EXCEPT !.alive = TRUE, !.tenant = TenantOf[j],
                                     !.served = {TenantOf[j]}, !.late = late]
  OBVIOUS
<1>7. NoProcess \in ProcessState /\ TenantOf[j] \in Tenant
  BY <1>3, StoppedIs DEF Stopped, Tenant
<1>8. t \in ProcessState
  BY <1>6, <1>7 DEF ProcessState
<1>9. t.alive /\ t.served = {TenantOf[j]} /\ t.tenant = TenantOf[j]
  BY <1>6, <1>7 DEF ProcessState
<1>10. PICK s : s = Sent(t, Msg("run", j, 0))
  OBVIOUS
<1>11. s \in ProcessState /\ s.alive /\ s.served = {TenantOf[j]} /\ s.tenant = TenantOf[j]
  BY <1>8, <1>9, <1>10, FrameType, SentAges DEF Ages
<1>12. proc' = [proc EXCEPT ![j] = s]
  BY <1>5a, <1>6, <1>10
<1>13. /\ Types' /\ job'[j] = r /\ proc'[j] = s
       /\ (\A k \in Job \ {j} : job'[k] = job[k])
       /\ (\A q \in Process \ {j} : proc'[q] = proc[q])
  BY <1>1, <1>3, <1>4, <1>5, <1>11, <1>12, TypesKept DEF PoolInv, Types
<1>14. ~Known(j)
  BY <1>1, Finite DEF Known
<1>15. j \notin idle /\ \A k \in Job : job[k].worker # j
  BY <1>3, <1>14, Finite DEF PoolInv, ProcOK, JobOK
<1>16. JobOK(j)'
  BY <1>1, <1>3, <1>4, <1>11, <1>13, <1>15, Finite DEF JobOK, Holding, Known
<1>17. ASSUME NEW k \in Job \ {j}, job[k].pc \in Holding
       PROVE  /\ job[k].worker \notin idle' /\ proc'[job[k].worker] = proc[job[k].worker]
              /\ job[k].worker # job'[j].worker
  BY <1>1, <1>4, <1>13, <1>15, <1>17, HeldIs
<1>18. ASSUME NEW p \in Process, Known(p), Gone(p) PROVE Gone(p)'
  <2>1. p # j
    BY <1>14, <1>18
  <2>2. \A k \in Job : job'[k].pc \in Holding => job'[k].worker # p
    BY <1>4, <1>13, <1>18, <2>1 DEF Gone
  <2> QED BY <1>1, <1>13, <1>18, <2>1, <2>2 DEF Gone
<1>19. \A p \in Process : Known(p) => Known(p)'
  BY <1>4, <1>13 DEF Known, Process
<1>20. ASSUME NEW p \in Process PROVE ProcOK(p)'
  <2>1. CASE p = j
    BY <1>1, <1>4, <1>11, <1>13, <1>15, <2>1 DEF ProcOK, Holding
  <2>2. CASE p # j
    <3>1. proc'[p] = proc[p]
      BY <1>13, <2>2
    <3>2. \A k \in Job : job[k].pc \in Holding => job'[k] = job[k]
      BY <1>1, <1>13 DEF Holding
    <3> QED BY <1>1, <1>19, <3>1, <3>2, ProcStays
  <2> QED BY <2>1, <2>2
<1>21. Slotted' = Slotted
  BY <1>1, <1>4, <1>13, SlotsKept DEF PoolInv, HoldsSlot
<1>22. Counted'
  BY <1>1, <1>21 DEF PoolInv, Counted
<1>23. job'[j].pc \notin {"queued", "starting"}
  BY <1>4, <1>13
<1> QED BY <1>13, <1>16, <1>17, <1>18, <1>20, <1>22, <1>23, CoreStep

\* A job that holds its process and changes it, or its own record, in place.
LEMMA HolderStep ==
    ASSUME PoolInv, NEW j \in Job, NEW p, p = job[j].worker, NEW r, NEW s,
           job[j].pc \in Holding, r \in JobState, r.pc \in Holding, r.worker = p,
           job' = [job EXCEPT ![j] = r], proc' = [proc EXCEPT ![p] = s],
           s \in ProcessState, s.served = proc[p].served, s.tenant = proc[p].tenant,
           UNCHANGED <<idle, workers, closed, calls>>, faults' \in Nat,
           r.pc = "putting" => r.attempt # "running" /\ (s.runs > 0 \/ ~s.healthy),
           r.pc = "putting" /\ r.killer => ~s.healthy,
           r.killer => r.attempt # "running",
           r.pc = "running" /\ r.attempt = "running" => s.alive \/ s.died
    PROVE  PoolInv'
<1>1. p \in Process /\ p \notin idle /\ Known(p) /\ p # None
  BY HeldIs, Finite
<1>2. /\ Types' /\ job'[j] = r /\ proc'[p] = s
      /\ (\A k \in Job \ {j} : job'[k] = job[k])
      /\ (\A q \in Process \ {p} : proc'[q] = proc[q])
  BY <1>1, TypesKept DEF PoolInv, Types
<1>3. \A q \in Process : Known(q) => Known(q)'
  BY <1>2 DEF Known, Process, Holding
<1>4. JobOK(j)'
  BY <1>1, <1>2, <1>3 DEF JobOK, Holding
<1>5. ASSUME NEW k \in Job \ {j}, job[k].pc \in Holding
      PROVE  /\ job[k].worker \notin idle' /\ proc'[job[k].worker] = proc[job[k].worker]
             /\ job[k].worker # job'[j].worker
  <2>1. job[k].worker # p
    BY <1>5 DEF PoolInv, Exclusive
  <2> QED BY <1>2, <1>5, <2>1, HeldIs
<1>6. \A k \in Job : job'[k].pc \in Holding => job[k].pc \in Holding /\ job'[k].worker = job[k].worker
  BY <1>2
<1>7. \A k \in Job : job[k].pc \in Holding => job'[k].pc \in Holding /\ job'[k].worker = job[k].worker
  BY <1>2
<1>8. ASSUME NEW q \in Process, Gone(q) PROVE Gone(q)'
  <2>1. q # p
    BY <1>8 DEF Gone
  <2> QED BY <1>2, <1>6, <1>8, <2>1 DEF Gone
<1>9. ASSUME NEW q \in Process PROVE ProcOK(q)'
  <2>1. CASE q = p
    BY <1>1, <1>2, <2>1 DEF PoolInv, ProcOK
  <2>2. CASE q # p
    BY <1>2, <1>3, <1>7, <2>2, ProcStays
  <2> QED BY <2>1, <2>2
<1>10. HoldsSlot(j) /\ HoldsSlot(j)'
  BY <1>2 DEF HoldsSlot, Holding
<1>11. Slotted' = Slotted
  BY <1>2, <1>10, SlotsKept DEF PoolInv
<1>12. Counted'
  BY <1>11 DEF PoolInv, Counted
<1>13. job'[j].pc \notin {"queued", "starting"}
  BY <1>2 DEF Holding
<1> QED BY <1>2, <1>4, <1>5, <1>8, <1>9, <1>12, <1>13, CoreStep

LEMMA KillClaimsKeeps ==
    ASSUME PoolInv, NEW j \in Job, KillClaims(j)
    PROVE  PoolInv'
<1>1. job[j].worker # None /\ UNCHANGED <<idle, workers, closed, proc, faults, calls>>
  BY DEF KillClaims
<1>2. job[j] \in JobState /\ JobOK(j) /\ calls \in Nat /\ faults \in Nat
  BY ProcIs DEF PoolInv, Types
<1>3. CASE ~Claims(j)
  <2>1. PICK killer : killer = (job[j].killer \/ Claims(j))
    OBVIOUS
  <2>2. job[j].killer \in BOOLEAN
    BY <1>2 DEF JobState
  <2>3. killer = job[j].killer
    BY <1>3, <2>1, <2>2
  <2>4. PICK r1, r2 :
            /\ r1 = [job[j] EXCEPT !.deadline = "spent", !.attempt = job[j].attempt,
                                   !.killer = killer]
            /\ r2 = [job[j] EXCEPT !.cancel = "spent", !.attempt = job[j].attempt,
                                   !.killer = killer]
    OBVIOUS
  <2>5. SameJob(job[j], r1) /\ r1.pc = job[j].pc /\ SameJob(job[j], r2) /\ r2.pc = job[j].pc
    BY <1>2, <2>3, <2>4 DEF SameJob, JobState
  <2>6. job' = [job EXCEPT ![j] = r1] \/ job' = [job EXCEPT ![j] = r2]
    BY <1>3, <2>1, <2>4, ProcIs DEF KillClaims, PoolInv
  <2>7. PICK r \in {r1, r2} : job' = [job EXCEPT ![j] = r]
    BY <2>6
  <2>8. SameJob(job[j], r) /\ r.pc = job[j].pc
    BY <2>5, <2>7
  <2>9. UNCHANGED <<idle, workers, closed, proc>> /\ calls' \in Nat /\ faults' \in Nat
    BY <1>1, <1>2
  <2> QED BY <2>7, <2>8, <2>9, JobOnly
<1>4. CASE Claims(j)
  <2>1. job[j].attempt = "running"
    BY <1>4 DEF Claims
  <2>2. job[j].pc \in Holding /\ job[j].pc # "putting"
    <3>1. job[j].pc \notin {"queued", "starting", "putting", "over"}
      BY <1>1, <1>2, <2>1 DEF JobOK
    <3> QED BY <1>2, <3>1 DEF JobState, Holding
  <2>3. PICK r1, r2 :
            /\ r1 = [job[j] EXCEPT !.deadline = "spent", !.attempt = "deadline", !.killer = TRUE]
            /\ r2 = [job[j] EXCEPT !.cancel = "spent", !.attempt = "cancelled", !.killer = TRUE]
    OBVIOUS
  <2>4. job' = [job EXCEPT ![j] = r1] \/ job' = [job EXCEPT ![j] = r2]
    BY <1>4, <2>3, ProcIs DEF KillClaims, PoolInv
  <2>5. /\ r1 \in JobState /\ r1.pc = job[j].pc /\ r1.worker = job[j].worker
        /\ r1.attempt = "deadline"
        /\ r2 \in JobState /\ r2.pc = job[j].pc /\ r2.worker = job[j].worker
        /\ r2.attempt = "cancelled"
    BY <1>2, <2>3 DEF JobState
  <2>6. PICK r \in {r1, r2} : job' = [job EXCEPT ![j] = r]
    BY <2>4
  <2>7. r \in JobState /\ r.pc = job[j].pc /\ r.worker = job[j].worker /\ r.attempt # "running"
    BY <2>5, <2>6
  <2>8. PICK p, s : p = job[j].worker /\ s = proc[p]
    OBVIOUS
  <2>9. p \in Process /\ s \in ProcessState
    BY <2>2, <2>8, HeldIs
  <2>10. proc' = [proc EXCEPT ![p] = s]
    BY <1>1, <2>8, <2>9, ProcIs DEF PoolInv
  <2>11. UNCHANGED <<idle, workers, closed, calls>> /\ faults' \in Nat
    BY <1>1, <1>2
  <2>12. r.pc \in Holding /\ r.pc # "putting" /\ s.served = proc[p].served
         /\ s.tenant = proc[p].tenant /\ r.worker = p
    BY <2>2, <2>7, <2>8
  <2> QED BY <2>2, <2>6, <2>7, <2>8, <2>9, <2>10, <2>11, <2>12, HolderStep
<1> QED BY <1>3, <1>4

\* A kill reaches the job's own process, or one that is gone.
LEMMA KillKeeps ==
    ASSUME PoolInv, NEW j \in Job, Kill(j)
    PROVE  PoolInv'
<1>1. job[j].killer /\ UNCHANGED <<idle, workers, closed, faults, calls>>
  BY DEF Kill
<1>2. job[j] \in JobState /\ JobOK(j) /\ calls \in Nat /\ faults \in Nat
  BY ProcIs DEF PoolInv, Types
<1>3. PICK p, r, s : p = job[j].worker /\ r = [job[j] EXCEPT !.killer = FALSE] /\ s = Killed(proc[p])
  OBVIOUS
<1>4. p \in Process /\ job[j].attempt # "running" /\ (job[j].pc \in Holding \/ Gone(p))
  BY <1>1, <1>2, <1>3 DEF JobOK
<1>5. r \in JobState /\ r.pc = job[j].pc /\ r.worker = p /\ r.attempt = job[j].attempt /\ ~r.killer
  BY <1>2, <1>3 DEF JobState
<1>6. job' = [job EXCEPT ![j] = r] /\ proc' = [proc EXCEPT ![p] = s]
  BY <1>3, ProcIs DEF Kill, PoolInv
<1>7. /\ s \in ProcessState /\ s.served = proc[p].served /\ s.tenant = proc[p].tenant
      /\ s.runs = proc[p].runs /\ s.healthy = proc[p].healthy /\ ~s.alive
  BY <1>3, <1>4, KilledAges, ProcIs DEF Ages, PoolInv
<1>8. CASE job[j].pc \in Holding
  <2>1. UNCHANGED <<idle, workers, closed, calls>> /\ faults' \in Nat
    BY <1>1, <1>2
  <2>2. job[j].pc = "putting" => proc[p].runs > 0 \/ ~proc[p].healthy
    BY <1>2, <1>3 DEF JobOK
  <2>3. r.pc = "putting" => r.attempt # "running" /\ (s.runs > 0 \/ ~s.healthy)
    BY <1>4, <1>5, <1>7, <2>2
  <2>4. r.attempt # "running" /\ ~r.killer /\ r.pc \in Holding
    BY <1>4, <1>5, <1>8
  <2> QED BY <1>3, <1>5, <1>6, <1>7, <1>8, <2>1, <2>3, <2>4, HolderStep
<1>9. CASE job[j].pc \notin Holding
  <2>1. Gone(p)
    BY <1>4, <1>9
  <2>2. /\ Types' /\ job'[j] = r /\ proc'[p] = s
        /\ (\A k \in Job \ {j} : job'[k] = job[k])
        /\ (\A q \in Process \ {p} : proc'[q] = proc[q])
    BY <1>1, <1>4, <1>5, <1>6, <1>7, TypesKept DEF PoolInv, Types
  <2>3. \A q \in Process : Known(q) => Known(q)'
    BY <1>5, <2>2 DEF Known, Process
  <2>4. \A k \in Job : job'[k].pc = job[k].pc /\ job'[k].worker = job[k].worker
    <3>1. SUFFICES ASSUME NEW k \in Job
                   PROVE  job'[k].pc = job[k].pc /\ job'[k].worker = job[k].worker
      OBVIOUS
    <3>2. CASE k = j
      BY <1>3, <1>5, <2>2, <3>2
    <3>3. CASE k # j
      BY <2>2, <3>3
    <3> QED BY <3>2, <3>3
  <2>5. JobOK(j)'
    BY <1>2, <1>3, <1>4, <1>5, <1>9, <2>2, <2>3 DEF JobOK, Holding
  <2>6. \A k \in Job \ {j} : job[k].pc \in Holding =>
            /\ job[k].worker \notin idle' /\ proc'[job[k].worker] = proc[job[k].worker]
            /\ j \in Job /\ job'[j].pc \in Holding => job[k].worker # job'[j].worker
    BY <1>1, <1>5, <1>9, <2>1, <2>2, HeldIs DEF Gone
  <2>7. \A q \in Process : Gone(q) => Gone(q)'
    <3>1. SUFFICES ASSUME NEW q \in Process, Gone(q) PROVE Gone(q)'
      OBVIOUS
    <3>2. ~proc'[q].alive
      <4>1. CASE q = p
        BY <1>7, <2>2, <4>1
      <4>2. CASE q # p
        BY <2>2, <3>1, <4>2 DEF Gone
      <4> QED BY <4>1, <4>2
    <3> QED BY <1>1, <2>4, <3>1, <3>2 DEF Gone
  <2>8. ASSUME NEW q \in Process PROVE ProcOK(q)'
    <3>1. proc'[q].served = proc[q].served /\ proc'[q].tenant = proc[q].tenant
          /\ proc'[q].runs = proc[q].runs /\ (proc'[q].alive => proc[q].alive)
      <4>1. CASE q = p
        BY <1>7, <2>2, <4>1
      <4>2. CASE q # p
        BY <2>2, <4>2
      <4> QED BY <4>1, <4>2
    <3> QED BY <1>1, <2>3, <2>4, <3>1, ProcStays
  <2>9. Slotted' = Slotted
    BY <2>4 DEF Slotted, HoldsSlot
  <2>10. Counted'
    BY <1>1, <2>9 DEF PoolInv, Counted
  <2>11. job'[j].pc \in {"queued", "starting"} => job[j].pc \in {"queued", "starting"}
    BY <2>4
  <2> QED BY <2>2, <2>5, <2>6, <2>7, <2>8, <2>10, <2>11, CoreStep
<1> QED BY <1>8, <1>9

\* A result: the worker has run a job, and is trusted only when no kill was
\* claimed before.
LEMMA ReadDoneKeeps ==
    ASSUME PoolInv, NEW j \in Job, NEW spoiled \in BOOLEAN, ReadDone(j, spoiled)
    PROVE  PoolInv'
<1>1. job[j].pc = "running" /\ UNCHANGED <<idle, workers, closed, calls>>
  BY DEF ReadDone
<1>2. PICK p, s : p = job[j].worker /\ s = proc[p]
  OBVIOUS
<1>3. p \in Process /\ s \in ProcessState /\ job[j] \in JobState /\ s.out # <<>> /\ JobOK(j)
  BY <1>1, <1>2, HeldIs, ProcIs DEF PoolInv, ReadDone, Holding
<1>4. PICK left \in BOOLEAN :
         proc' = [proc EXCEPT ![p].out = Tail(s.out), ![p].runs = @ + 1,
                              ![p].healthy = @ /\ StaysHealthy(j, spoiled, left)]
  BY <1>2 DEF ReadDone
<1>5. PICK healthy : healthy = (s.healthy /\ StaysHealthy(j, spoiled, left))
  OBVIOUS
<1>6. healthy \in BOOLEAN /\ (healthy => job[j].attempt = "running")
  BY <1>5 DEF StaysHealthy
<1>7. PICK t : t = [s EXCEPT !.out = Tail(s.out), !.runs = @ + 1, !.healthy = healthy]
  OBVIOUS
<1>8. Tail(s.out) \in Seq(Frame) /\ s.runs + 1 \in Nat /\ s.runs \in Nat
  BY <1>3 DEF ProcessState
<1>9. t \in ProcessState
  BY <1>3, <1>6, <1>7, <1>8 DEF ProcessState
<1>10. t.served = s.served /\ t.tenant = s.tenant /\ t.runs = s.runs + 1 /\ t.healthy = healthy
  BY <1>3, <1>7 DEF ProcessState
<1>11. proc' = [proc EXCEPT ![p] = t]
  BY <1>2, <1>4, <1>5, <1>7, ProcIs DEF PoolInv
<1>12. PICK attempt : attempt = IF job[j].attempt = "running" THEN "finished" ELSE job[j].attempt
  OBVIOUS
<1>13. PICK r : r = [job[j] EXCEPT !.pc = "putting", !.open = FALSE, !.attempt = attempt]
  OBVIOUS
<1>14. attempt \in {"finished", "deadline", "cancelled", "broken"}
  BY <1>3, <1>12 DEF JobState
<1>15. r \in JobState /\ r.pc = "putting" /\ r.worker = p /\ r.attempt # "running"
       /\ r.killer = job[j].killer
  BY <1>2, <1>3, <1>13, <1>14 DEF JobState
<1>16. job' = [job EXCEPT ![j] = r]
  BY <1>12, <1>13, ProcIs DEF ReadDone, PoolInv
<1>17. r.killer => ~t.healthy
  BY <1>3, <1>6, <1>10, <1>15 DEF JobOK
<1>18. t.runs > 0
  BY <1>8, <1>10
<1>19. faults' \in Nat
  BY FaultType DEF ReadDone, PoolInv
<1>20. job[j].pc \in Holding /\ r.pc \in Holding /\ t.served = proc[p].served
       /\ t.tenant = proc[p].tenant
  BY <1>1, <1>2, <1>10, <1>15 DEF Holding
<1> QED BY <1>1, <1>2, <1>9, <1>11, <1>15, <1>16, <1>17, <1>18, <1>19, <1>20, HolderStep

LEMMA FailKeeps ==
    ASSUME PoolInv, NEW j \in Job, Fail(j)
    PROVE  PoolInv'
<1>1. job[j].pc = "failing" /\ UNCHANGED <<idle, workers, closed, faults, calls>>
  BY DEF Fail
<1>2. PICK p, k : p = job[j].worker /\ k = Killed(proc[p])
  OBVIOUS
<1>3. p \in Process /\ job[j] \in JobState /\ JobOK(j)
  BY <1>1, <1>2, HeldIs, ProcIs DEF PoolInv, Holding
<1>4. k \in ProcessState /\ k.served = proc[p].served /\ k.tenant = proc[p].tenant
  BY <1>2, <1>3, KilledAges, ProcIs DEF PoolInv, Ages
<1>5. PICK t : t = [k EXCEPT !.healthy = FALSE]
  OBVIOUS
<1>6. t \in ProcessState /\ t.served = proc[p].served /\ t.tenant = proc[p].tenant /\ ~t.healthy
  BY <1>4, <1>5 DEF ProcessState
<1>7. proc' = [proc EXCEPT ![p] = t]
  BY <1>2, <1>5, ProcIs DEF Fail, PoolInv
<1>8. PICK attempt : attempt = IF job[j].attempt = "running" THEN "broken" ELSE job[j].attempt
  OBVIOUS
<1>9. PICK r : r = [job[j] EXCEPT !.pc = "putting", !.open = FALSE, !.attempt = attempt,
                                  !.blame = "none"]
  OBVIOUS
<1>10. attempt \in {"finished", "deadline", "cancelled", "broken"}
  BY <1>3, <1>8 DEF JobState
<1>11. r \in JobState /\ r.pc = "putting" /\ r.worker = p /\ r.attempt # "running"
  BY <1>2, <1>3, <1>9, <1>10 DEF JobState
<1>12. job' = [job EXCEPT ![j] = r]
  BY <1>8, <1>9, ProcIs DEF Fail, PoolInv
<1>13. UNCHANGED <<idle, workers, closed, calls>> /\ faults' \in Nat
  BY <1>1 DEF PoolInv, Types
<1>14. job[j].pc \in Holding /\ r.pc \in Holding
  BY <1>1, <1>11 DEF Holding
<1> QED BY <1>2, <1>6, <1>7, <1>11, <1>12, <1>13, <1>14, HolderStep

\* The worker goes back to the list, or ends: then a kill that is late finds
\* it gone.
LEMMA PutKeeps ==
    ASSUME PoolInv, NEW j \in Job, Put(j)
    PROVE  PoolInv'
<1>1. job[j].pc = "putting" /\ UNCHANGED <<closed, faults, calls>>
  BY DEF Put
<1>2. PICK p, begun : p = job[j].worker
                      /\ begun = (job[j].killer \/ "fired" \in {job[j].deadline, job[j].cancel})
  OBVIOUS
<1>3. p \in Process /\ p \notin idle /\ Known(p) /\ ~Gone(p) /\ proc[p] \in ProcessState
      /\ job[j] \in JobState /\ JobOK(j) /\ ProcOK(p) /\ p # None
  BY <1>1, <1>2, HeldIs, Finite, ProcIs DEF PoolInv, Holding
<1>4. PICK deadline, cancel, worker :
          /\ deadline = IF job[j].deadline = "fired" THEN job[j].deadline ELSE "spent"
          /\ cancel = IF job[j].cancel = "fired" THEN job[j].cancel ELSE "spent"
          /\ worker = IF begun THEN job[j].worker ELSE None
  OBVIOUS
<1>5. PICK r : r = [job[j] EXCEPT !.pc = "over", !.deadline = deadline, !.cancel = cancel,
                                  !.worker = worker]
  OBVIOUS
<1>6. job' = [job EXCEPT ![j] = r]
  BY <1>2, <1>4, <1>5, ProcIs DEF Put, PoolInv
<1>7. deadline \in {"fired", "spent"} /\ cancel \in {"fired", "spent"} /\ worker \in {p, None}
  BY <1>2, <1>4
<1>8. r \in JobState /\ r.pc = "over" /\ r.worker = worker /\ r.attempt = job[j].attempt
      /\ r.killer = job[j].killer
  BY <1>3, <1>5, <1>7 DEF JobState
<1>9. /\ job[j].attempt # "running" /\ (job[j].killer => ~proc[p].healthy /\ worker = p)
      /\ (proc[p].runs > 0 \/ ~proc[p].healthy)
  BY <1>1, <1>2, <1>3, <1>4 DEF JobOK
<1>10. /\ job'[j] = r /\ (\A k \in Job \ {j} : job'[k] = job[k])
  BY <1>6, JobBecomes DEF PoolInv
<1>11. \A q \in Process : Known(q) => Known(q)'
  BY <1>8, <1>10 DEF Known, Process
<1>12. \A k \in Job \ {j} : job[k].pc \in Holding => job[k].worker # p
  BY <1>1, <1>2 DEF PoolInv, Exclusive, Holding
<1>13. \A k \in Job : job'[k].pc \in Holding => k # j /\ job'[k] = job[k]
  BY <1>8, <1>10 DEF Holding
<1>14. Cardinality(Slotted') + 1 = Cardinality(Slotted) /\ Cardinality(Slotted') \in Nat
       /\ Cardinality(Slotted) \in Nat /\ Cardinality(idle) \in Nat /\ IsFiniteSet(idle)
  BY <1>1, <1>8, <1>10, SlotsKept, SetsAreFinite DEF PoolInv, HoldsSlot
<1>15. workers = Cardinality(idle) + Cardinality(Slotted) /\ workers <= Slots /\ Slots \in Nat
  BY Finite DEF PoolInv, Counted
<1>16. CASE Spent(p) \/ closed
  <2>1. workers' = workers - 1 /\ proc' = [proc EXCEPT ![p] = Stopped] /\ UNCHANGED idle
    BY <1>2, <1>16 DEF Put
  <2>2. /\ Types' /\ proc'[p] = Stopped /\ (\A q \in Process \ {p} : proc'[q] = proc[q])
    <3>1. PICK s : s = Stopped
      OBVIOUS
    <3>2. s \in ProcessState /\ proc' = [proc EXCEPT ![p] = s]
      BY <2>1, <3>1, StoppedIs
    <3>3. Types /\ idle' \in SUBSET Process /\ closed' \in BOOLEAN /\ calls' \in Nat
          /\ faults' \in Nat /\ r \in JobState
      BY <1>1, <1>8, <2>1 DEF PoolInv, Types
    <3>4. job' = [job EXCEPT ![j] = r] /\ p \in Process
      BY <1>3, <1>6
    <3>5. proc' \in [Process -> ProcessState] /\ proc'[p] = s
          /\ (\A q \in Process \ {p} : proc'[q] = proc[q])
      BY <3>2, <3>3, <3>4 DEF Types
    <3>6. Types'
      BY <3>3, <3>4, <3>5 DEF Types
    <3> QED BY <3>1, <3>5, <3>6
  <2>3. workers' = Cardinality(idle) + Cardinality(Slotted') /\ workers' <= Slots
    BY <1>14, <1>15, <2>1
  <2>4. Counted'
    BY <2>1, <2>3 DEF Counted
  <2>5. Gone(p)'
    BY <1>3, <1>12, <1>13, <2>1, <2>2, StoppedIs DEF Gone
  <2>6. JobOK(j)'
    BY <1>3, <1>7, <1>8, <1>9, <1>10, <1>11, <2>5 DEF JobOK, Holding
  <2>7. \A k \in Job \ {j} : job[k].pc \in Holding =>
            /\ job[k].worker \notin idle' /\ proc'[job[k].worker] = proc[job[k].worker]
            /\ j \in Job /\ job'[j].pc \in Holding => job[k].worker # job'[j].worker
    BY <1>8, <1>10, <1>12, <2>1, <2>2, HeldIs DEF Holding
  <2>8. \A q \in Process : Gone(q) => Gone(q)'
    BY <1>3, <1>13, <2>1, <2>2 DEF Gone
  <2>9. ASSUME NEW q \in Process PROVE ProcOK(q)'
    <3>1. CASE q = p
      BY <1>3, <2>1, <2>2, <3>1, StoppedStays
    <3>2. CASE q # p
      <4>1. \A k \in Job : job[k].pc \in Holding /\ job[k].worker = q => job'[k] = job[k]
        BY <1>2, <1>10, <3>2
      <4> QED BY <1>11, <2>1, <2>2, <3>2, <4>1, ProcStays
    <3> QED BY <3>1, <3>2
  <2>10. job'[j].pc \notin {"queued", "starting"}
    BY <1>8, <1>10
  <2> QED BY <1>10, <2>2, <2>4, <2>6, <2>7, <2>8, <2>9, <2>10, CoreStep
<1>17. CASE ~(Spent(p) \/ closed)
  <2>1. PICK since : since = Cardinality({k \in Job : job[k].pc = "over"}) + 1
    OBVIOUS
  <2>2. since \in Nat
    <3>1. IsFiniteSet({k \in Job : job[k].pc = "over"})
      BY Finite, FS_Subset
    <3> QED BY <2>1, <3>1, FS_CardinalityType
  <2>3. PICK s : s = [proc[p] EXCEPT !.timer = "armed", !.since = since]
    OBVIOUS
  <2>4. idle' = idle \cup {p} /\ proc' = [proc EXCEPT ![p] = s] /\ UNCHANGED workers
    BY <1>2, <1>17, <2>1, <2>3, ProcIs DEF Put, PoolInv
  <2>5. s \in ProcessState
    BY <1>3, <2>2, <2>3 DEF ProcessState
  <2>6. s.served = proc[p].served /\ s.tenant = proc[p].tenant /\ s.runs = proc[p].runs
        /\ s.alive = proc[p].alive /\ s.healthy = proc[p].healthy
    BY <1>3, <2>3 DEF ProcessState
  <2>7. /\ Types' /\ proc'[p] = s /\ (\A q \in Process \ {p} : proc'[q] = proc[q])
    <3>1. idle' \in SUBSET Process
      BY <1>3, <2>4 DEF PoolInv, Types
    <3> QED BY <1>1, <1>6, <1>8, <2>4, <2>5, <3>1, TypesKept DEF PoolInv, Types
  <2>8. Cardinality(idle') = Cardinality(idle) + 1
    BY <1>3, <1>14, <2>4, FS_AddElement
  <2>9. workers' = Cardinality(idle') + Cardinality(Slotted') /\ workers' <= Slots
    BY <1>14, <1>15, <2>4, <2>8
  <2>10. Counted'
    BY <2>9 DEF Counted
  <2>11. proc[p].healthy /\ ~job[j].killer /\ proc[p].runs # 0
    <3>1. proc[p].healthy
      BY <1>17 DEF Spent
    <3> QED BY <1>9, <3>1
  <2>12. JobOK(j)'
    BY <1>3, <1>7, <1>8, <1>9, <1>10, <1>11, <2>11 DEF JobOK, Holding
  <2>13. \A k \in Job \ {j} : job[k].pc \in Holding =>
            /\ job[k].worker \notin idle' /\ proc'[job[k].worker] = proc[job[k].worker]
            /\ j \in Job /\ job'[j].pc \in Holding => job[k].worker # job'[j].worker
    BY <1>8, <1>10, <1>12, <2>4, <2>7, HeldIs DEF Holding
  <2>14. \A q \in Process : Gone(q) => Gone(q)'
    <3>1. SUFFICES ASSUME NEW q \in Process, Gone(q) PROVE Gone(q)'
      OBVIOUS
    <3>2. q # p
      BY <1>3, <3>1
    <3> QED BY <1>13, <2>4, <2>7, <3>1, <3>2 DEF Gone
  <2>15. ASSUME NEW q \in Process PROVE ProcOK(q)'
    <3>1. CASE q = p
      BY <1>3, <1>11, <2>4, <2>6, <2>7, <2>11, <3>1 DEF ProcOK
    <3>2. CASE q # p
      <4>1. \A k \in Job : job[k].pc \in Holding /\ job[k].worker = q => job'[k] = job[k]
        BY <1>2, <1>10, <3>2
      <4>2. q \in idle' <=> q \in idle
        BY <2>4, <3>2
      <4> QED BY <1>11, <2>7, <3>2, <4>1, <4>2, ProcStays
    <3> QED BY <3>1, <3>2
  <2>16. job'[j].pc \notin {"queued", "starting"}
    BY <1>8, <1>10
  <2> QED BY <1>10, <2>7, <2>10, <2>12, <2>13, <2>14, <2>15, <2>16, CoreStep
<1> QED BY <1>16, <1>17

-----------------------------------------------------------------------------
(* Steps that take workers out of the idle list. *)

\* Idle workers are stopped; at most one job that has no worker yet moves on
\* without one.
LEMMA DroppedKeeps ==
    ASSUME PoolInv, Types', Counted', NEW gone \in SUBSET idle, Dropped(gone), NEW j,
           \A k \in Job \ {j} : job'[k] = job[k],
           j \in Job => /\ job[j].pc = "queued" /\ job'[j].pc \in {"starting", "over"}
                        /\ job'[j].worker = job[j].worker /\ job'[j].killer = job[j].killer
    PROVE  PoolInv'
<1>1. /\ idle' = idle \ gone
      /\ \A q \in Process : proc'[q] = IF q \in gone THEN Stopped ELSE proc[q]
  BY DEF Dropped
<1>2. gone \subseteq Process
  BY DEF PoolInv, Types
<1>3. \A q \in Process : Known(q) => Known(q)'
  <2>1. SUFFICES ASSUME NEW q \in Process, Known(q) PROVE Known(q)'
    OBVIOUS
  <2>2. CASE q = 0
    BY <2>2 DEF Known
  <2>3. CASE q # 0 /\ q = j
    BY <2>1, <2>3 DEF Known, Process
  <2>4. CASE q # 0 /\ q # j
    BY <2>1, <2>4 DEF Known, Process
  <2> QED BY <2>2, <2>3, <2>4
<1>4. \A k \in Job : job'[k].pc \in Holding => k # j /\ job'[k] = job[k]
  BY DEF Holding
<1>5. j \in Job => JobOK(j)'
  <2>1. SUFFICES ASSUME j \in Job PROVE JobOK(j)'
    OBVIOUS
  <2>2. job[j].worker = None /\ ~job[j].killer
    BY <2>1 DEF PoolInv, JobOK
  <2>3. job'[j].worker = None /\ ~job'[j].killer /\ job'[j].pc \in {"starting", "over"}
    BY <2>1, <2>2
  <2> QED BY <2>3 DEF JobOK, Holding
<1>6. \A k \in Job \ {j} : job[k].pc \in Holding =>
          /\ job[k].worker \notin idle' /\ proc'[job[k].worker] = proc[job[k].worker]
          /\ j \in Job /\ job'[j].pc \in Holding => job[k].worker # job'[j].worker
  BY <1>1, <1>4, HeldIs
<1>7. \A q \in Process : Gone(q) => Gone(q)'
  BY <1>1, <1>4 DEF Gone
<1>8. ASSUME NEW q \in Process PROVE ProcOK(q)'
  <2>1. CASE q \in gone
    BY <1>1, <2>1, StoppedStays
  <2>2. CASE q \notin gone
    <3>1. \A k \in Job : job[k].pc \in Holding /\ job[k].worker = q => job'[k] = job[k]
      BY DEF Holding
    <3>2. proc'[q] = proc[q] /\ (q \in idle' <=> q \in idle)
      BY <1>1, <2>2
    <3> QED BY <1>3, <3>1, <3>2, ProcStays
  <2> QED BY <2>1, <2>2
<1>9. j \in Job /\ job'[j].pc \in {"queued", "starting"} => job[j].pc \in {"queued", "starting"}
  OBVIOUS
<1> QED BY <1>5, <1>6, <1>7, <1>8, <1>9, CoreStep

LEMMA DroppedTypes ==
    ASSUME Types, NEW gone \in SUBSET idle, Dropped(gone), closed' \in BOOLEAN,
           calls' \in Nat, faults' \in Nat, job' \in [Job -> JobState]
    PROVE  Types'
<1>1. PICK s : s = Stopped
  OBVIOUS
<1>2. s \in ProcessState
  BY <1>1, StoppedIs
<1>3. proc' = [q \in Process |-> IF q \in gone THEN s ELSE proc[q]] /\ idle' = idle \ gone
  BY <1>1 DEF Dropped
<1>4. proc' \in [Process -> ProcessState]
  BY <1>2, <1>3 DEF Types
<1> QED BY <1>3, <1>4 DEF Types

LEMMA CloseKeeps ==
    ASSUME PoolInv, Close
    PROVE  PoolInv'
<1>1. UNCHANGED <<job, calls>> /\ Dropped(idle) /\ closed' = TRUE
      /\ workers' = workers - Cardinality(idle) /\ faults' \in Nat
  BY DEF Close, Fault, PoolInv, Types
<1>2. Types'
  BY <1>1, DroppedTypes DEF PoolInv, Types
<1>3. idle' = {} /\ Cardinality(idle') = 0
  BY <1>1, FS_EmptySet DEF Dropped
<1>4. Slotted' = Slotted
  BY <1>1 DEF Slotted, HoldsSlot
<1>5. Cardinality(idle) \in Nat /\ Cardinality(Slotted) \in Nat /\ Slots \in Nat
  BY SetsAreFinite, Finite DEF PoolInv
<1>6. workers = Cardinality(idle) + Cardinality(Slotted) /\ workers <= Slots
  BY DEF PoolInv, Counted
<1>7. workers' = 0 + Cardinality(Slotted) /\ workers' <= Slots
  BY <1>1, <1>5, <1>6
<1>8. Counted'
  BY <1>3, <1>4, <1>7 DEF Counted
<1>9. None \notin Job /\ \A k \in Job \ {None} : job'[k] = job[k]
  BY <1>1, Finite
<1> QED BY <1>1, <1>2, <1>8, <1>9, DroppedKeeps

LEMMA RetireKeeps ==
    ASSUME PoolInv, NEW p \in Process, Retire(p)
    PROVE  PoolInv'
<1>1. UNCHANGED <<closed, job, faults, calls>>
  BY DEF Retire
<1>2. proc[p] \in ProcessState /\ proc = [q \in Process |-> proc[q]]
  BY ProcIs DEF PoolInv
<1>3. CASE p \in idle
  <2>1. idle' = idle \ {p} /\ workers' = workers - 1 /\ proc' = [proc EXCEPT ![p] = Stopped]
    BY <1>3 DEF Retire
  <2>2. Dropped({p})
    BY <1>2, <2>1 DEF Dropped
  <2>3. Types'
    BY <1>1, <1>3, <2>2, DroppedTypes DEF PoolInv, Types
  <2>4. IsFiniteSet(idle) /\ Cardinality(idle) \in Nat /\ Cardinality(Slotted) \in Nat
        /\ Slots \in Nat
    BY SetsAreFinite, Finite DEF PoolInv
  <2>5. Cardinality(idle') = Cardinality(idle) - 1
    BY <1>3, <2>1, <2>4, FS_RemoveElement
  <2>6. workers = Cardinality(idle) + Cardinality(Slotted) /\ workers <= Slots
    BY DEF PoolInv, Counted
  <2>7. workers' = Cardinality(idle') + Cardinality(Slotted) /\ workers' <= Slots
    BY <2>1, <2>4, <2>5, <2>6
  <2>8. Slotted' = Slotted
    BY <1>1 DEF Slotted, HoldsSlot
  <2>9. Counted'
    BY <2>7, <2>8 DEF Counted
  <2>10. None \notin Job /\ {p} \in SUBSET idle /\ \A k \in Job \ {None} : job'[k] = job[k]
    BY <1>1, <1>3, Finite
  <2> QED BY <2>2, <2>3, <2>9, <2>10, DroppedKeeps
<1>4. CASE p \notin idle
  <2>1. PICK s : s = [proc[p] EXCEPT !.retiring = FALSE]
    OBVIOUS
  <2>2. Ages(proc[p], s) /\ Lasts(proc[p], s)
    BY <1>2, <2>1 DEF Ages, Lasts, Excused, ProcessState
  <2>3. proc' = [proc EXCEPT ![p] = s] /\ UNCHANGED <<idle, workers>>
    BY <1>2, <1>4, <2>1 DEF Retire
  <2>4. UNCHANGED <<idle, workers, closed, job>> /\ calls' \in Nat /\ faults' \in Nat
    BY <1>1, <2>3 DEF PoolInv, Types
  <2> QED BY <2>2, <2>3, <2>4, ProcOnly
<1> QED BY <1>3, <1>4

LEMMA TakeFreshKeeps ==
    ASSUME PoolInv, NEW j \in Job, TakeFresh(j)
    PROVE  PoolInv'
<1>1. PICK dead, rest, counted : /\ dead = MetDead(j) /\ rest = idle \ dead
                                 /\ counted = workers - Cardinality(dead)
  OBVIOUS
<1>2. /\ job[j].pc = "queued" /\ Cardinality(Slotted) < Slots
      /\ job' = [job EXCEPT ![j].pc = IF closed THEN "over" ELSE "starting"]
      /\ UNCHANGED <<closed, faults, calls>>
  BY DEF TakeFresh, Acquire, Slotted
<1>3. \/ closed /\ workers' = counted /\ Dropped(dead)
      \/ ~closed /\ ~(AtCap(counted) /\ rest # {}) /\ workers' = counted + 1 /\ Dropped(dead)
      \/ /\ ~closed /\ AtCap(counted)
         /\ \E first \in rest : workers' = counted /\ Dropped(dead \cup {first})
  BY <1>1 DEF TakeFresh
<1>4. dead \in SUBSET idle
  BY <1>1 DEF MetDead
<1>5. PICK pc \in {"over", "starting"} : pc = IF closed THEN "over" ELSE "starting"
  OBVIOUS
<1>6. PICK r : r = [job[j] EXCEPT !.pc = pc]
  OBVIOUS
<1>7. job[j] \in JobState
  BY ProcIs DEF PoolInv
<1>8. r \in JobState /\ r.pc = pc /\ r.worker = job[j].worker /\ r.killer = job[j].killer
  BY <1>5, <1>6, <1>7 DEF JobState
<1>9. job' = [job EXCEPT ![j] = r]
  BY <1>2, <1>5, <1>6, ProcIs DEF PoolInv
<1>10. job'[j] = r /\ (\A k \in Job \ {j} : job'[k] = job[k])
  BY <1>9, JobBecomes DEF PoolInv
<1>11. job' \in [Job -> JobState] /\ closed' \in BOOLEAN /\ calls' \in Nat /\ faults' \in Nat
  BY <1>2, <1>8, <1>9 DEF PoolInv, Types
<1>12. /\ IsFiniteSet(idle) /\ IsFiniteSet(rest) /\ Cardinality(rest) \in Nat
       /\ Cardinality(dead) \in Nat /\ Cardinality(idle) \in Nat
       /\ Cardinality(rest) = Cardinality(idle) - Cardinality(dead)
  BY <1>1, <1>4, SetsAreFinite, WithoutSome DEF PoolInv
<1>13. /\ Cardinality(Slotted) \in Nat /\ Slots \in Nat /\ workers <= Slots
       /\ workers = Cardinality(idle) + Cardinality(Slotted)
  BY SetsAreFinite, Finite DEF PoolInv, Counted
<1>14. counted = Cardinality(rest) + Cardinality(Slotted) /\ counted <= Slots /\ counted \in Nat
  BY <1>1, <1>12, <1>13
<1>15. pc = "starting" => /\ Cardinality(Slotted') = Cardinality(Slotted) + 1
                          /\ Cardinality(Slotted') \in Nat
  BY <1>2, <1>8, <1>10, SlotsKept DEF PoolInv, HoldsSlot
<1>16. pc = "over" => Slotted' = Slotted
  BY <1>2, <1>8, <1>10, SlotsKept DEF PoolInv, HoldsSlot
<1>17. ASSUME NEW gone \in SUBSET idle, Dropped(gone),
              workers' = Cardinality(idle \ gone) + Cardinality(Slotted'), workers' <= Slots
       PROVE  PoolInv'
  <2>1. Types'
    BY <1>11, <1>17, DroppedTypes DEF PoolInv
  <2>2. Counted'
    BY <1>17 DEF Counted, Dropped
  <2>3. job[j].pc = "queued" /\ job'[j].pc \in {"starting", "over"}
        /\ job'[j].worker = job[j].worker /\ job'[j].killer = job[j].killer
    BY <1>2, <1>8, <1>10
  <2> QED BY <1>10, <1>17, <2>1, <2>2, <2>3, DroppedKeeps
<1>18. CASE closed /\ workers' = counted /\ Dropped(dead)
  <2>1. workers' = Cardinality(rest) + Cardinality(Slotted') /\ workers' <= Slots
    BY <1>5, <1>14, <1>16, <1>18
  <2> QED BY <1>1, <1>4, <1>17, <1>18, <2>1
<1>19. CASE ~closed /\ ~(AtCap(counted) /\ rest # {}) /\ workers' = counted + 1 /\ Dropped(dead)
  <2>1. workers' = Cardinality(rest) + Cardinality(Slotted')
    BY <1>5, <1>12, <1>13, <1>14, <1>15, <1>19
  <2>2. counted < Slots
    <3>1. CASE ~AtCap(counted)
      BY <1>13, <1>14, <3>1 DEF AtCap
    <3>2. CASE rest = {}
      <4>1. Cardinality(rest) = 0
        BY <3>2, FS_EmptySet
      <4> QED BY <1>2, <1>13, <1>14, <4>1
    <3> QED BY <1>19, <3>1, <3>2
  <2>3. workers' <= Slots
    BY <1>13, <1>14, <1>19, <2>2
  <2> QED BY <1>1, <1>4, <1>17, <1>19, <2>1, <2>3
<1>20. CASE /\ ~closed /\ AtCap(counted)
            /\ \E first \in rest : workers' = counted /\ Dropped(dead \cup {first})
  <2>1. PICK first \in rest : workers' = counted /\ Dropped(dead \cup {first})
    BY <1>20
  <2>2. idle \ (dead \cup {first}) = rest \ {first} /\ dead \cup {first} \in SUBSET idle
    BY <1>1, <1>4, <2>1
  <2>3. Cardinality(rest \ {first}) = Cardinality(rest) - 1
    BY <1>12, <2>1, FS_RemoveElement
  <2>4. workers' = Cardinality(rest \ {first}) + Cardinality(Slotted') /\ workers' <= Slots
    BY <1>5, <1>12, <1>13, <1>14, <1>15, <1>20, <2>1, <2>3
  <2>5. workers' = Cardinality(idle \ (dead \cup {first})) + Cardinality(Slotted')
    BY <2>2, <2>4
  <2> QED BY <1>17, <2>1, <2>2, <2>4, <2>5
<1> QED BY <1>3, <1>18, <1>19, <1>20

\* A worker that has run nothing, or only this tenant's jobs.
LEMMA TakeIdleKeeps ==
    ASSUME PoolInv, NEW j \in Job, TakeIdle(j)
    PROVE  PoolInv'
<1>1. PICK dead : dead = MetDead(j)
  OBVIOUS
<1>2. PICK p \in Usable(j) : /\ Handed(j, p, proc[p])
                             /\ idle' = idle \ (dead \cup {p})
  BY <1>1 DEF TakeIdle
<1>3. /\ job[j].pc = "queued" /\ workers' = workers - Cardinality(dead)
      /\ UNCHANGED <<closed, calls, faults>>
  BY <1>1 DEF TakeIdle, Acquire
<1>4. p \in idle /\ proc[p].alive /\ Fits(p, j) /\ dead \in SUBSET idle /\ p \notin dead
  BY <1>1, <1>2 DEF Usable, MetDead
<1>5. /\ p \in Process /\ p # None /\ proc[p] \in ProcessState /\ ProcOK(p) /\ Known(p)
      /\ job[j] \in JobState /\ JobOK(j) /\ dead \subseteq Process
  BY <1>4, Finite, ProcIs DEF PoolInv, Types, ProcOK
<1>6. PICK t : t = [proc[p] EXCEPT !.tenant = TenantOf[j], !.timer = "off", !.since = 0,
                                   !.served = @ \cup {TenantOf[j]}]
  OBVIOUS
<1>7. TenantOf[j] \in Tenant /\ proc[p].served \subseteq Tenant
  BY <1>5, Finite DEF Tenant, ProcessState
<1>8. t \in ProcessState
  BY <1>5, <1>6, <1>7 DEF ProcessState
<1>9. /\ t.tenant = TenantOf[j] /\ t.served = proc[p].served \cup {TenantOf[j]}
      /\ t.alive
  BY <1>4, <1>5, <1>6 DEF ProcessState
<1>10. PICK s : s = Sent(t, Msg("run", j, 0))
  OBVIOUS
<1>11. s \in ProcessState /\ s.tenant = TenantOf[j] /\ s.alive
       /\ s.served = proc[p].served \cup {TenantOf[j]}
  BY <1>8, <1>9, <1>10, FrameType, SentAges DEF Ages
<1>12. s.served \subseteq {s.tenant}
  <2>1. CASE proc[p].tenant = TenantOf[j]
    BY <1>5, <1>11, <2>1 DEF ProcOK
  <2>2. CASE proc[p].runs = 0
    BY <1>4, <1>5, <1>11, <2>2 DEF ProcOK
  <2> QED BY <1>4, <2>1, <2>2 DEF Fits
<1>13. PICK r, stopped : /\ r = [job[j] EXCEPT !.pc = "running", !.worker = p, !.open = TRUE]
                         /\ stopped = Stopped
  OBVIOUS
<1>14. /\ r \in JobState /\ r.pc = "running" /\ r.worker = p /\ r.killer = job[j].killer
  BY <1>5, <1>13 DEF JobState
<1>15. job' = [job EXCEPT ![j] = r]
  BY <1>2, <1>13, ProcIs DEF Handed, PoolInv
<1>16. proc' = [q \in Process |-> IF q = p THEN s ELSE IF q \in dead THEN stopped ELSE proc[q]]
  BY <1>1, <1>2, <1>6, <1>10, <1>13 DEF Handed
<1>17. job'[j] = r /\ (\A k \in Job \ {j} : job'[k] = job[k])
  BY <1>15, JobBecomes DEF PoolInv
<1>18. /\ proc'[p] = s /\ (\A q \in dead : proc'[q] = Stopped)
       /\ (\A q \in Process \ (dead \cup {p}) : proc'[q] = proc[q])
  BY <1>4, <1>5, <1>13, <1>16
<1>19. Types'
  <2>1. stopped \in ProcessState
    BY <1>13, StoppedIs
  <2>2. proc' \in [Process -> ProcessState]
    BY <1>11, <1>16, <2>1 DEF PoolInv, Types
  <2>3. job' \in [Job -> JobState]
    BY <1>14, <1>15 DEF PoolInv, Types
  <2> QED BY <1>2, <1>3, <2>2, <2>3 DEF PoolInv, Types
<1>20. Counted'
  <2>1. IsFiniteSet(idle) /\ Slots \in Nat /\ Cardinality(Slotted) \in Nat
    BY SetsAreFinite, Finite DEF PoolInv
  <2>2. /\ IsFiniteSet(idle \ dead) /\ Cardinality(idle \ dead) \in Nat
        /\ Cardinality(dead) \in Nat /\ Cardinality(idle) \in Nat
        /\ Cardinality(idle \ dead) = Cardinality(idle) - Cardinality(dead)
    BY <1>4, <2>1, WithoutSome
  <2>3. idle' = (idle \ dead) \ {p} /\ p \in idle \ dead
    BY <1>2, <1>4
  <2>4. Cardinality(idle') = Cardinality(idle \ dead) - 1
    BY <2>2, <2>3, FS_RemoveElement
  <2>5. Cardinality(Slotted') = Cardinality(Slotted) + 1
    BY <1>3, <1>14, <1>17, SlotsKept DEF PoolInv, HoldsSlot
  <2>6. workers = Cardinality(idle) + Cardinality(Slotted) /\ workers <= Slots
    BY DEF PoolInv, Counted
  <2>7. workers' = Cardinality(idle') + Cardinality(Slotted') /\ workers' <= Slots
    BY <1>3, <2>1, <2>2, <2>4, <2>5, <2>6
  <2> QED BY <2>7 DEF Counted
<1>21. \A q \in Process : Known(q) => Known(q)'
  BY <1>14, <1>17 DEF Known, Process
<1>22. JobOK(j)'
  <2>1. ~r.killer
    BY <1>3, <1>5, <1>14 DEF JobOK
  <2>2. p \notin idle' /\ Known(p)'
    BY <1>2, <1>5, <1>21
  <2> QED BY <1>5, <1>11, <1>14, <1>17, <1>18, <2>1, <2>2 DEF JobOK, Holding
<1>23. \A k \in Job \ {j} : job[k].pc \in Holding =>
          /\ job[k].worker \notin idle' /\ proc'[job[k].worker] = proc[job[k].worker]
          /\ j \in Job /\ job'[j].pc \in Holding => job[k].worker # job'[j].worker
  <2>1. SUFFICES ASSUME NEW k \in Job \ {j}, job[k].pc \in Holding
                 PROVE  /\ job[k].worker \notin idle'
                        /\ proc'[job[k].worker] = proc[job[k].worker]
                        /\ job[k].worker # p
    BY <1>14, <1>17
  <2>2. job[k].worker \in Process /\ job[k].worker \notin idle
    BY <2>1, HeldIs
  <2> QED BY <1>2, <1>4, <1>18, <2>2
<1>24. \A q \in Process : Gone(q) => Gone(q)'
  <2>1. SUFFICES ASSUME NEW q \in Process, Gone(q) PROVE Gone(q)'
    OBVIOUS
  <2>2. q # p /\ q \notin dead /\ q \notin idle
    BY <1>4, <2>1 DEF Gone
  <2>3. proc'[q] = proc[q] /\ q \notin idle'
    BY <1>2, <1>18, <2>2
  <2>4. \A k \in Job : job'[k].pc \in Holding => job'[k].worker # q
    BY <1>14, <1>17, <2>1, <2>2 DEF Gone
  <2> QED BY <2>1, <2>3, <2>4 DEF Gone
<1>25. ASSUME NEW q \in Process PROVE ProcOK(q)'
  <2>1. CASE q = p
    <3>1. p \notin idle' /\ job'[j].pc \in Holding /\ job'[j].worker = p
      BY <1>2, <1>14, <1>17 DEF Holding
    <3> QED BY <1>12, <1>18, <2>1, <3>1 DEF ProcOK
  <2>2. CASE q \in dead
    BY <1>2, <1>18, <2>2, StoppedStays
  <2>3. CASE q # p /\ q \notin dead
    <3>1. \A k \in Job : job[k].pc \in Holding /\ job[k].worker = q => job'[k] = job[k]
      BY <1>3, <1>17 DEF Holding
    <3>2. proc'[q] = proc[q] /\ (q \in idle' <=> q \in idle)
      BY <1>2, <1>18, <2>3
    <3> QED BY <1>21, <3>1, <3>2, ProcStays
  <2> QED BY <2>1, <2>2, <2>3
<1>26. job'[j].pc \notin {"queued", "starting"}
  BY <1>14, <1>17
<1> QED BY <1>17, <1>19, <1>20, <1>22, <1>23, <1>24, <1>25, <1>26, CoreStep

-----------------------------------------------------------------------------
LEMMA InitPool ==
    ASSUME Init
    PROVE  PoolInv
<1>1. /\ idle = {0} /\ workers = 1 /\ closed = FALSE /\ job = [j \in Job |-> NewJob]
      /\ calls = 0 /\ faults \in Nat
  BY BoundAssumption DEF Init
<1>1a. PICK late : late = IF faults = 1 THEN "begun" ELSE "none"
  OBVIOUS
<1> DEFINE Started(r, t) == [p \in Process |->
               IF p # 0 THEN NoProcess
               ELSE [NoProcess EXCEPT !.alive = TRUE, !.timer = "armed", !.late = late,
                        !.runs = r, !.tenant = t, !.served = {t} \ {NoTenant}]]
           First(r) == IF r = 0 THEN NoTenant ELSE TenantOf[0]
<1>2a. PICK runs \in {0, 1} : proc = Started(runs, First(runs))
  BY <1>1a DEF Init
<1>2b. PICK tenant : tenant = First(runs)
  OBVIOUS
<1>2. runs \in {0, 1} /\ tenant = First(runs) /\ proc = Started(runs, tenant)
  BY <1>2a, <1>2b
<1>3. PICK s, none : /\ s = [NoProcess EXCEPT !.alive = TRUE, !.timer = "armed",
                                !.late = late, !.runs = runs, !.tenant = tenant, !.served = {tenant} \ {NoTenant}]
                     /\ none = NoProcess
  OBVIOUS
<1>4. tenant \in Tenant
  BY <1>2, Finite DEF Tenant
<1>5. none \in ProcessState /\ ~none.alive /\ none.served = {}
  BY <1>3, StoppedIs DEF Stopped
<1>6. s = [none EXCEPT !.alive = TRUE, !.timer = "armed", !.late = late, !.runs = runs,
                       !.tenant = tenant, !.served = {tenant} \ {NoTenant}]
  BY <1>3
<1>7. s \in ProcessState
  <2>1. PICK served : served = {tenant} \ {NoTenant}
    OBVIOUS
  <2>2. served \in SUBSET Tenant /\ runs \in Nat
    BY <1>2, <1>4, <2>1
  <2>3. s = [none EXCEPT !.alive = TRUE, !.timer = "armed", !.late = late, !.runs = runs,
                         !.tenant = tenant, !.served = served]
    BY <1>6, <2>1
  <2>4. late \in {"none", "begun", "killed"}
    BY <1>1a
  <2> QED BY <1>4, <1>5, <2>2, <2>3, <2>4 DEF ProcessState
<1>8. s.alive /\ s.runs = runs /\ s.tenant = tenant /\ s.served = {tenant} \ {NoTenant}
  BY <1>5, <1>6 DEF ProcessState
<1>9. proc = [p \in Process |-> IF p # 0 THEN none ELSE s]
  BY <1>2, <1>3
<1>10. PICK new : new = NewJob
  OBVIOUS
<1>11. new \in JobState /\ new.pc = "queued" /\ new.worker = None /\ new.killer = FALSE
  BY <1>10 DEF NewJob, JobState
<1>12. \A j \in Job : job[j] = new
  BY <1>1, <1>10
<1>13. Types
  <2>1. proc \in [Process -> ProcessState] /\ job \in [Job -> JobState]
    BY <1>1, <1>5, <1>7, <1>9, <1>10, <1>11
  <2> QED BY <1>1, <2>1, Finite DEF Types
<1>14. Slotted = {}
  BY <1>11, <1>12 DEF Slotted, HoldsSlot
<1>15. Cardinality(idle) = 1 /\ Cardinality(Slotted) = 0
  BY <1>1, <1>14, FS_EmptySet, FS_Singleton
<1>16. Counted
  BY <1>1, <1>15, Finite DEF Counted
<1>17. Exclusive
  BY <1>11, <1>12 DEF Exclusive, Holding
<1>18. \A j \in Job : JobOK(j)
  BY <1>11, <1>12 DEF JobOK, Holding
<1>19. ASSUME NEW p \in Process PROVE ProcOK(p)
  <2>1. CASE p = 0
    <3>1. proc[p] = s /\ p \in idle
      BY <1>1, <1>9, <2>1
    <3>2. runs = 0 => s.served = {}
      BY <1>2, <1>8
    <3> QED BY <1>8, <2>1, <3>1, <3>2 DEF ProcOK, Known
  <2>2. CASE p # 0
    BY <1>1, <1>5, <1>9, <2>2 DEF ProcOK
  <2> QED BY <2>1, <2>2
<1> QED BY <1>13, <1>16, <1>17, <1>18, <1>19 DEF PoolInv

LEMMA NextPool ==
    ASSUME PoolInv, [Next]_vars
    PROVE  PoolInv'
<1>1. CASE UNCHANGED vars
  BY <1>1 DEF vars, PoolInv, Types, Exclusive, Counted, Slotted, HoldsSlot, JobOK, ProcOK,
              Known, Gone
<1>2. ASSUME NEW j \in Job, ServerStep(j) PROVE PoolInv'
  BY <1>2, GiveUpKeeps, TakeIdleKeeps, TakeFreshKeeps, StartWorkerKeeps, StartFailsKeeps,
     ReadCallKeeps, ReadDoneKeeps, JobOnlySteps, FailKeeps, PutKeeps DEF ServerStep
<1>3. ASSUME NEW j \in Job, \/ \E id \in job[j].replies : HelperAnswers(j, id)
                            \/ DeadlineFires(j) \/ CancelRun(j) \/ KillClaims(j) \/ Kill(j)
      PROVE PoolInv'
  BY <1>3, HelperAnswersKeeps, JobOnlySteps, KillClaimsKeeps, KillKeeps
<1>4. ASSUME NEW p \in Process,
             \/ StartKills(p) \/ IdleTimerFires(p) \/ Retire(p) \/ Receive(p)
             \/ \E kind \in {"question", "helper"} : AskServer(p, kind)
             \/ FinishJob(p) \/ Die(p) \/ Misbehave(p)
      PROVE PoolInv'
  BY <1>4, RetireKeeps, ReceiveKeeps, WorkerKeeps
<1> QED BY <1>1, <1>2, <1>3, <1>4, CloseKeeps DEF Next

\* Who has each process, and which kills are still on their way to it. The
\* invariant behind the three theorems below.
THEOREM PoolInvariant == Spec => []PoolInv
<1>1. Init => PoolInv
  BY InitPool
<1>2. PoolInv /\ [Next]_vars => PoolInv'
  BY NextPool
<1> QED BY <1>1, <1>2, PTL DEF Spec

\* The pool counts exactly the workers that are idle, starting or held by a job
\* and never more than its cap, and every process that runs is one of them, for
\* every number of jobs, slots and faults (take, start, put, retire, Close).
THEOREM CountIsTrue == Spec => []PoolAccounting
<1>1. PoolInv => PoolAccounting
  <2> SUFFICES ASSUME PoolInv PROVE PoolAccounting
    OBVIOUS
  <2>1. Cardinality(idle) \in Nat /\ Cardinality(Slotted) \in Nat /\ Slots \in Nat
    BY SetsAreFinite, Finite DEF PoolInv
  <2>2. workers \in 0..Slots /\ workers = Cardinality(idle) + Cardinality(Slotted)
    BY <2>1 DEF PoolInv, Counted
  <2>3. \A p \in Process : proc[p].alive => p \in idle \/ \E j \in Job : Holds(j, p)
    BY DEF PoolInv, ProcOK, Holds, Holding
  <2>4. TypeOK
    BY <2>2 DEF PoolInv, Types, TypeOK
  <2> QED BY <2>2, <2>3, <2>4 DEF PoolAccounting, Slotted
<1> QED BY <1>1, PoolInvariant, PTL

\* No process is ever handed jobs of two tenants, is in the idle list while a
\* job holds it, or is held by two jobs (take's test, Process.stop, put).
THEOREM TenantsStayApart == Spec => []OneTenantPerProcess
<1>1. PoolInv => OneTenantPerProcess
  <2> SUFFICES ASSUME PoolInv PROVE OneTenantPerProcess
    OBVIOUS
  <2>1. ASSUME NEW p \in Process PROVE Cardinality(proc[p].served) <= 1
    <3>1. PICK one, served : one = {proc[p].tenant} /\ served = proc[p].served
      OBVIOUS
    <3>2. served \subseteq one
      BY <3>1 DEF PoolInv, ProcOK
    <3>3. IsFiniteSet(one) /\ Cardinality(one) = 1
      BY <3>1, FS_Singleton
    <3>4. Cardinality(served) <= Cardinality(one)
      BY <3>2, <3>3, FS_Subset
    <3> QED BY <3>1, <3>3, <3>4
  <2>2. ASSUME NEW j \in Job, NEW k \in Job, NEW p \in Process, Holds(j, p)
        PROVE  p \notin idle /\ (Holds(k, p) => j = k)
    BY <2>2, HeldIs DEF Holds, Holding, PoolInv, Exclusive
  <2> QED BY <2>1, <2>2 DEF OneTenantPerProcess
<1> QED BY <1>1, PoolInvariant, PTL

\* A job whose attempt nobody has claimed has a worker that runs, that ended by
\* itself, or that a callback of its own start ended, for every order of timers,
\* evictions and late kills (killIfClaimed, awaitReady, retire, take's eviction,
\* Close).
THEOREM OnlyItsOwnKills == Spec => []NobodyElseKills
<1>1. PoolInv => NobodyElseKills
  BY DEF PoolInv, JobOK, NobodyElseKills
<1> QED BY <1>1, PoolInvariant, PTL

(***************************************************************************)
(* The protocol. What a worker and its job have said to each other is in   *)
(* one of four phases: the worker rests, its job is on its way, the job    *)
(* runs with each of its calls in one place, or the job has ended with its *)
(* result the last thing said.                                             *)
(***************************************************************************)

\* The calls a worker waits for, by id.
Asked(s) == {x[1] : x \in s.waiting}
CallTypes == {"question", "helper"}

\* A process that broke the protocol of its own doing, and only such a one,
\* may have written this frame.
IsBad(s, frame) == frame.type = "bad" /\ s.bad

AllBad(s) == \A i \in DOMAIN s.out : IsBad(s, s.out[i])

\* What a job can read from its worker.
Speaks(s, j) ==
    \A i \in DOMAIN s.out :
        IsBad(s, s.out[i]) \/ (s.out[i].nonce = j /\ s.out[i].type \in CallTypes \cup {"done"})

\* Between two jobs: late replies of the last one are on their way.
LateReplies(s, last) ==
    \A i \in 1 .. last : s.in[i].type = "reply" /\ s.in[i].nonce = s.ended

Rests(s) ==
    /\ s.current = None /\ s.waiting = {}
    /\ LateReplies(s, Len(s.in)) /\ AllBad(s)

\* The job's first frame is on its way, the last one there.
Awaits(s, j, replies) ==
    /\ s.current = None /\ s.waiting = {}
    /\ s.in # <<>> /\ LateReplies(s, Len(s.in) - 1)
    /\ s.in[Len(s.in)].type = "run" /\ s.in[Len(s.in)].nonce = j
    /\ AllBad(s) /\ replies = {}

\* The job runs: a call that waits is in one place, not yet read, being
\* answered, or answered.
Runs(s, j, replies) ==
    /\ s.current = j
    /\ \A x \in Asked(s) : x <= s.lastID
    /\ replies \subseteq Asked(s)
    /\ \A i \in DOMAIN s.in :
          /\ s.in[i].type = "reply" /\ s.in[i].nonce = j
          /\ s.in[i].id \in Asked(s) \ replies
    /\ \A i \in DOMAIN s.out : ~IsBad(s, s.out[i]) =>
          /\ s.out[i].type \in CallTypes /\ s.out[i].nonce = j
          /\ s.out[i].id \in Asked(s) \ replies
    /\ \A i, k \in DOMAIN s.in : s.in[i].id = s.in[k].id => i = k
    /\ \A i, k \in DOMAIN s.out :
          ~IsBad(s, s.out[i]) /\ ~IsBad(s, s.out[k]) /\ s.out[i].id = s.out[k].id => i = k
    /\ \A i \in DOMAIN s.in, k \in DOMAIN s.out :
          ~IsBad(s, s.out[k]) => s.in[i].id # s.out[k].id

\* The job has ended, and the result is the last of what it said.
Ended(s, j) ==
    /\ s.current = None /\ s.waiting = {} /\ s.ended = j
    /\ LateReplies(s, Len(s.in)) /\ Speaks(s, j)
    /\ \A i, k \in DOMAIN s.out : i < k /\ s.out[i].type = "done" => IsBad(s, s.out[k])

Talks(s, j, replies) == Awaits(s, j, replies) \/ Runs(s, j, replies) \/ Ended(s, j)

\* The protocol, as job r and its worker s stand.
JobTalks(r, s, j) ==
    /\ r.open <=> r.pc \in {"running", "failing"}
    /\ r.pc \in {"queued", "starting"} => r.replies = {}
    /\ r.pc \in {"running", "failing"} =>
          Speaks(s, j) /\ (s.alive => Talks(s, j, r.replies))
    /\ r.pc = "failing" /\ r.blame = "protocol" => s.bad
    /\ r.pc = "putting" /\ s.alive => Rests(s)

TalkOK(j) == JobTalks(job[j], proc[job[j].worker], j)

QuietOK(p) ==
    /\ ~proc[p].broke
    /\ p \in idle /\ proc[p].alive => Rests(proc[p])

TalkInv == (\A j \in Job : TalkOK(j)) /\ (\A p \in Process : QuietOK(p))

-----------------------------------------------------------------------------
(* Frames. *)

LEMMA Appended ==
    ASSUME NEW q \in Seq(Frame), NEW frame \in Frame, NEW u, u = Append(q, frame)
    PROVE  /\ Len(q) \in Nat /\ DOMAIN q = 1 .. Len(q) /\ Len(u) = Len(q) + 1
           /\ DOMAIN u = 1 .. (Len(q) + 1) /\ u # <<>>
           /\ u[Len(q) + 1] = frame /\ \A i \in DOMAIN q : u[i] = q[i]
           /\ \A i \in DOMAIN u : i \in DOMAIN q \/ i = Len(q) + 1
OBVIOUS

LEMMA Beheaded ==
    ASSUME NEW q \in Seq(Frame), q # <<>>, NEW u, u = Tail(q)
    PROVE  /\ Len(q) \in Nat /\ Len(q) > 0 /\ DOMAIN q = 1 .. Len(q)
           /\ Len(u) = Len(q) - 1 /\ DOMAIN u = 1 .. (Len(q) - 1)
           /\ Head(q) = q[1] /\ 1 \in DOMAIN q
           /\ \A i \in DOMAIN u : i + 1 \in DOMAIN q /\ u[i] = q[i + 1] /\ i + 1 # 1
           /\ \A i, k \in DOMAIN u : i + 1 = k + 1 => i = k
OBVIOUS

\* The worker's own half of two states agrees.
SameLink(s, t) ==
    /\ t.current = s.current /\ t.ended = s.ended /\ t.lastID = s.lastID
    /\ t.waiting = s.waiting /\ t.bad = s.bad

LEMMA AskedKept ==
    ASSUME NEW s, NEW t, t.waiting = s.waiting
    PROVE  Asked(t) = Asked(s)
BY DEF Asked

\* The reply to a call that is being answered, late or not.
LEMMA ReplySent ==
    ASSUME NEW s \in ProcessState, NEW t \in ProcessState, SameLink(s, t), NEW j \in Job,
           NEW replies, NEW frame \in Frame, frame.type = "reply", frame.nonce = j,
           t.in = Append(s.in, frame), t.out = s.out, Talks(s, j, replies)
    PROVE  /\ Ended(s, j) => Ended(t, j)
           /\ frame.id \in replies => Talks(t, j, replies \ {frame.id})
<1>1. s.in \in Seq(Frame)
  BY DEF ProcessState
<1>2. PICK n : n = Len(s.in)
  OBVIOUS
<1>3. /\ n \in Nat /\ DOMAIN s.in = 1 .. n /\ Len(t.in) = n + 1
      /\ DOMAIN t.in = 1 .. (n + 1)
      /\ t.in[n + 1] = frame /\ \A i \in DOMAIN s.in : t.in[i] = s.in[i]
      /\ \A i \in DOMAIN t.in : i \in DOMAIN s.in \/ i = n + 1
  BY <1>1, <1>2, Appended
<1>4. Asked(t) = Asked(s)
  BY AskedKept DEF SameLink
<1>5. \A f : IsBad(t, f) <=> IsBad(s, f)
  BY DEF SameLink, IsBad
<1>6. ASSUME Ended(s, j) PROVE Ended(t, j)
  <2>1. LateReplies(t, Len(t.in))
    BY <1>2, <1>3, <1>6 DEF Ended, LateReplies, SameLink
  <2>2. Speaks(t, j)
    BY <1>5, <1>6 DEF Ended, Speaks
  <2> QED BY <1>5, <1>6, <2>1, <2>2 DEF Ended, SameLink
<1>7. ASSUME frame.id \in replies, Runs(s, j, replies) PROVE Runs(t, j, replies \ {frame.id})
  <2>1. PICK left : left = replies \ {frame.id}
    OBVIOUS
  <2>2. /\ t.current = j /\ \A x \in Asked(t) : x <= t.lastID
        /\ left \subseteq Asked(t) /\ frame.id \in Asked(t)
    BY <1>4, <1>7, <2>1 DEF Runs, SameLink
  <2>3. \A i \in DOMAIN s.in : /\ s.in[i].type = "reply" /\ s.in[i].nonce = j
                               /\ s.in[i].id \in Asked(t) \ left /\ s.in[i].id # frame.id
    BY <1>4, <1>7, <2>1 DEF Runs
  <2>4. \A i \in DOMAIN t.in : /\ t.in[i].type = "reply" /\ t.in[i].nonce = j
                               /\ t.in[i].id \in Asked(t) \ left
    BY <1>3, <2>1, <2>2, <2>3
  <2>5. \A i \in DOMAIN t.out : ~IsBad(t, t.out[i]) =>
            /\ t.out[i].type \in CallTypes /\ t.out[i].nonce = j
            /\ t.out[i].id \in Asked(t) \ left /\ t.out[i].id # frame.id
    BY <1>4, <1>5, <1>7, <2>1 DEF Runs
  <2>6. \A i, k \in DOMAIN t.in : t.in[i].id = t.in[k].id => i = k
    <3>1. \A i, k \in DOMAIN s.in : s.in[i].id = s.in[k].id => i = k
      BY <1>7 DEF Runs
    <3> QED BY <1>3, <2>3, <3>1
  <2>7. \A i, k \in DOMAIN t.out :
            ~IsBad(t, t.out[i]) /\ ~IsBad(t, t.out[k]) /\ t.out[i].id = t.out[k].id => i = k
    BY <1>5, <1>7 DEF Runs
  <2>8. \A i \in DOMAIN t.in, k \in DOMAIN t.out :
            ~IsBad(t, t.out[k]) => t.in[i].id # t.out[k].id
    <3>1. \A i \in DOMAIN s.in, k \in DOMAIN t.out :
              ~IsBad(t, t.out[k]) => s.in[i].id # t.out[k].id
      BY <1>5, <1>7 DEF Runs
    <3> QED BY <1>3, <2>5, <3>1
  <2> QED BY <2>1, <2>2, <2>4, <2>5, <2>6, <2>7, <2>8 DEF Runs
<1>8. ASSUME frame.id \in replies PROVE ~Awaits(s, j, replies)
  BY <1>8 DEF Awaits
<1> QED BY <1>6, <1>7, <1>8 DEF Talks

\* A call is read.
LEMMA CallRead ==
    ASSUME NEW s \in ProcessState, NEW t \in ProcessState, SameLink(s, t), NEW j \in Job,
           NEW replies, s.out # <<>>, NEW frame, frame = Head(s.out),
           frame.type \in CallTypes, t.in = s.in, t.out = Tail(s.out), Talks(s, j, replies)
    PROVE  /\ Talks(t, j, replies \cup {frame.id})
           /\ frame.id \in replies => Ended(t, j)
<1>1. s.out \in Seq(Frame)
  BY DEF ProcessState
<1>2. PICK n : n = Len(s.out)
  OBVIOUS
<1>3. /\ n \in Nat /\ n > 0 /\ DOMAIN s.out = 1 .. n
      /\ frame = s.out[1] /\ 1 \in DOMAIN s.out
      /\ \A i \in DOMAIN t.out : i + 1 \in DOMAIN s.out /\ t.out[i] = s.out[i + 1] /\ i + 1 # 1
      /\ \A i, k \in DOMAIN t.out : i + 1 = k + 1 => i = k
      /\ DOMAIN t.out = 1 .. (n - 1)
  BY <1>1, <1>2, Beheaded
<1>4. Asked(t) = Asked(s) /\ \A f : IsBad(t, f) <=> IsBad(s, f)
  BY AskedKept DEF SameLink, IsBad
<1>5. ~IsBad(s, frame)
  BY DEF IsBad, CallTypes
<1>6. ASSUME Ended(s, j) PROVE Ended(t, j)
  <2>1. LateReplies(t, Len(t.in))
    BY <1>6 DEF Ended, LateReplies, SameLink
  <2>2. Speaks(t, j)
    BY <1>3, <1>4, <1>6 DEF Ended, Speaks
  <2>3. \A i, k \in DOMAIN t.out : i < k /\ t.out[i].type = "done" => IsBad(t, t.out[k])
    <3>1. \A i, k \in DOMAIN s.out : i < k /\ s.out[i].type = "done" => IsBad(s, s.out[k])
      BY <1>6 DEF Ended
    <3>2. \A i, k \in DOMAIN t.out : i < k => i + 1 < k + 1
      BY <1>3
    <3> QED BY <1>3, <1>4, <3>1, <3>2
  <2> QED BY <1>6, <2>1, <2>2, <2>3 DEF Ended, SameLink
<1>7. ASSUME Runs(s, j, replies)
      PROVE  Runs(t, j, replies \cup {frame.id}) /\ frame.id \notin replies
  <2>1. PICK more : more = replies \cup {frame.id}
    OBVIOUS
  <2>2. /\ t.current = j /\ \A x \in Asked(t) : x <= t.lastID
        /\ more \subseteq Asked(t) /\ frame.id \notin replies
    BY <1>3, <1>4, <1>5, <1>7, <2>1 DEF Runs, SameLink
  <2>3. \A i \in DOMAIN t.in : /\ t.in[i].type = "reply" /\ t.in[i].nonce = j
                               /\ t.in[i].id \in Asked(t) \ more
    BY <1>3, <1>4, <1>5, <1>7, <2>1 DEF Runs
  <2>4. \A i \in DOMAIN t.out : ~IsBad(t, t.out[i]) =>
            /\ t.out[i].type \in CallTypes /\ t.out[i].nonce = j
            /\ t.out[i].id \in Asked(t) \ replies /\ t.out[i].id # frame.id
    <3>1. \A i \in DOMAIN s.out : ~IsBad(s, s.out[i]) =>
            /\ s.out[i].type \in CallTypes /\ s.out[i].nonce = j
            /\ s.out[i].id \in Asked(s) \ replies
      BY <1>7 DEF Runs
    <3>2. \A i, k \in DOMAIN s.out :
              ~IsBad(s, s.out[i]) /\ ~IsBad(s, s.out[k]) /\ s.out[i].id = s.out[k].id => i = k
      BY <1>7 DEF Runs
    <3> QED BY <1>3, <1>4, <1>5, <3>1, <3>2
  <2>5. \A i, k \in DOMAIN t.in : t.in[i].id = t.in[k].id => i = k
    BY <1>7 DEF Runs
  <2>6. \A i, k \in DOMAIN t.out :
            ~IsBad(t, t.out[i]) /\ ~IsBad(t, t.out[k]) /\ t.out[i].id = t.out[k].id => i = k
    <3>1. \A i, k \in DOMAIN s.out :
              ~IsBad(s, s.out[i]) /\ ~IsBad(s, s.out[k]) /\ s.out[i].id = s.out[k].id => i = k
      BY <1>7 DEF Runs
    <3> QED BY <1>3, <1>4, <3>1
  <2>7. \A i \in DOMAIN t.in, k \in DOMAIN t.out :
            ~IsBad(t, t.out[k]) => t.in[i].id # t.out[k].id
    <3>1. \A i \in DOMAIN s.in, k \in DOMAIN s.out :
              ~IsBad(s, s.out[k]) => s.in[i].id # s.out[k].id
      BY <1>7 DEF Runs
    <3> QED BY <1>3, <1>4, <3>1
  <2>8. \A i \in DOMAIN t.out : ~IsBad(t, t.out[i]) =>
            /\ t.out[i].type \in CallTypes /\ t.out[i].nonce = j
            /\ t.out[i].id \in Asked(t) \ more
    BY <2>1, <2>4
  <2> QED BY <2>1, <2>2, <2>3, <2>5, <2>6, <2>7, <2>8 DEF Runs
<1>8. ~Awaits(s, j, replies)
  BY <1>3, <1>5 DEF Awaits, AllBad
<1> QED BY <1>6, <1>7, <1>8 DEF Talks

\* The result is read: nothing that a later job could take for its own is left.
LEMMA DoneRead ==
    ASSUME NEW s \in ProcessState, NEW t \in ProcessState, SameLink(s, t), NEW j \in Job,
           NEW replies, s.out # <<>>, Head(s.out).type = "done",
           t.in = s.in, t.out = Tail(s.out), Talks(s, j, replies)
    PROVE  Rests(t)
<1>1. s.out \in Seq(Frame)
  BY DEF ProcessState
<1>2. PICK n : n = Len(s.out)
  OBVIOUS
<1>3. /\ n \in Nat /\ n > 0 /\ DOMAIN s.out = 1 .. n
      /\ Head(s.out) = s.out[1] /\ 1 \in DOMAIN s.out
      /\ \A i \in DOMAIN t.out : i + 1 \in DOMAIN s.out /\ t.out[i] = s.out[i + 1] /\ i + 1 # 1
      /\ DOMAIN t.out = 1 .. (n - 1)
  BY <1>1, <1>2, Beheaded
<1>4. \A f : IsBad(t, f) <=> IsBad(s, f)
  BY DEF SameLink, IsBad
<1>5. ~IsBad(s, s.out[1]) /\ s.out[1].type \notin CallTypes
  BY <1>3 DEF IsBad, CallTypes
<1>6. Ended(s, j)
  BY <1>3, <1>5 DEF Talks, Awaits, AllBad, Runs
<1>7. AllBad(t)
  <2>1. \A i, k \in DOMAIN s.out : i < k /\ s.out[i].type = "done" => IsBad(s, s.out[k])
    BY <1>6 DEF Ended
  <2>2. \A i \in DOMAIN t.out : 1 < i + 1
    BY <1>3
  <2> QED BY <1>3, <1>4, <2>1, <2>2 DEF AllBad
<1>8. LateReplies(t, Len(t.in))
  BY <1>6 DEF Ended, LateReplies, SameLink
<1> QED BY <1>6, <1>7, <1>8 DEF Rests, Ended, SameLink

\* A worker that rests is sent a job.
LEMMA RunSent ==
    ASSUME NEW s \in ProcessState, NEW t \in ProcessState, SameLink(s, t), NEW j \in Job,
           NEW frame \in Frame, frame.type = "run", frame.nonce = j,
           t.in = Append(s.in, frame), t.out = s.out, Rests(s)
    PROVE  Awaits(t, j, {}) /\ Speaks(t, j)
<1>1. s.in \in Seq(Frame)
  BY DEF ProcessState
<1>2. PICK n : n = Len(s.in)
  OBVIOUS
<1>3. /\ n \in Nat /\ DOMAIN s.in = 1 .. n /\ Len(t.in) = n + 1 /\ t.in # <<>>
      /\ t.in[n + 1] = frame /\ \A i \in DOMAIN s.in : t.in[i] = s.in[i]
  BY <1>1, <1>2, Appended
<1>4. LateReplies(t, Len(t.in) - 1)
  BY <1>2, <1>3 DEF Rests, LateReplies, SameLink
<1>5. AllBad(t)
  BY DEF Rests, AllBad, IsBad, SameLink
<1> QED BY <1>3, <1>4, <1>5 DEF Rests, Awaits, SameLink, Speaks, AllBad

\* The running code makes a call.
LEMMA Asks ==
    ASSUME NEW s \in ProcessState, NEW t \in ProcessState, NEW j \in Job, NEW replies,
           NEW kind \in CallTypes, NEW id, id = s.lastID + 1, s.current # None,
           t.current = s.current, t.ended = s.ended, t.bad = s.bad, t.in = s.in,
           t.lastID = id, t.waiting = s.waiting \cup {<<id, kind>>},
           t.out = Append(s.out, Msg(kind, s.current, id)),
           Talks(s, j, replies), Speaks(s, j)
    PROVE  Talks(t, j, replies) /\ Speaks(t, j)
<1>1. s.out \in Seq(Frame) /\ s.lastID \in Nat /\ id \in Nat /\ j \in Nat /\ j # None
  BY JobAssumption DEF ProcessState, None
<1>2. Runs(s, j, replies) /\ s.current = j
  BY DEF Talks, Awaits, Ended, Runs
<1>3. PICK frame : frame = Msg(kind, j, id)
  OBVIOUS
<1>4. /\ frame \in Frame /\ frame.type = kind /\ frame.nonce = j /\ frame.id = id
      /\ t.out = Append(s.out, frame)
  BY <1>1, <1>2, <1>3 DEF Msg, Frame, CallTypes
<1>5. PICK n : n = Len(s.out)
  OBVIOUS
<1>6. /\ n \in Nat /\ DOMAIN s.out = 1 .. n /\ DOMAIN t.out = 1 .. (n + 1)
      /\ t.out[n + 1] = frame /\ \A i \in DOMAIN s.out : t.out[i] = s.out[i]
      /\ \A i \in DOMAIN t.out : i \in DOMAIN s.out \/ i = n + 1
  BY <1>1, <1>4, <1>5, Appended
<1>7. Asked(t) = Asked(s) \cup {id}
  <2>1. <<id, kind>>[1] = id /\ t.waiting = s.waiting \cup {<<id, kind>>}
    OBVIOUS
  <2>2. ASSUME NEW x \in t.waiting PROVE x[1] \in Asked(s) \cup {id}
    BY <2>1, <2>2 DEF Asked
  <2>3. Asked(s) \subseteq Asked(t)
    BY <2>1 DEF Asked
  <2>4. id \in Asked(t)
    BY <2>1, Zenon DEF Asked
  <2>5. Asked(t) \subseteq Asked(s) \cup {id}
    BY <2>2 DEF Asked
  <2> QED BY <2>3, <2>4, <2>5
<1>8. \A x \in Asked(s) : x <= s.lastID
  BY <1>2 DEF Runs
<1>9. Asked(s) \subseteq Nat
  BY DEF Asked, ProcessState
<1>10. id \notin Asked(s) /\ \A x \in Asked(t) : x <= t.lastID
  BY <1>1, <1>7, <1>8, <1>9
<1>11. replies \subseteq Asked(s) /\ replies \subseteq Asked(t) /\ id \notin replies
  BY <1>2, <1>7, <1>10 DEF Runs
<1>12. \A f : IsBad(t, f) <=> IsBad(s, f)
  BY DEF IsBad
<1>13. \A i \in DOMAIN t.in : /\ t.in[i].type = "reply" /\ t.in[i].nonce = j
                              /\ t.in[i].id \in Asked(t) \ replies /\ t.in[i].id # id
  BY <1>2, <1>7, <1>10 DEF Runs
<1>14. \A i \in DOMAIN s.out : ~IsBad(t, s.out[i]) =>
          /\ s.out[i].type \in CallTypes /\ s.out[i].nonce = j
          /\ s.out[i].id \in Asked(s) \ replies
  BY <1>2, <1>12 DEF Runs
<1>15. \A i \in DOMAIN t.out : ~IsBad(t, t.out[i]) =>
          /\ t.out[i].type \in CallTypes /\ t.out[i].nonce = j
          /\ t.out[i].id \in Asked(t) \ replies
  BY <1>4, <1>6, <1>7, <1>11, <1>14
<1>16. \A i, k \in DOMAIN t.in : t.in[i].id = t.in[k].id => i = k
  BY <1>2 DEF Runs
<1>17. \A i, k \in DOMAIN t.out :
          ~IsBad(t, t.out[i]) /\ ~IsBad(t, t.out[k]) /\ t.out[i].id = t.out[k].id => i = k
  <2>1. \A i, k \in DOMAIN s.out :
            ~IsBad(t, s.out[i]) /\ ~IsBad(t, s.out[k]) /\ s.out[i].id = s.out[k].id => i = k
    BY <1>2, <1>12 DEF Runs
  <2> QED BY <1>4, <1>6, <1>10, <1>14, <2>1
<1>18. \A i \in DOMAIN t.in, k \in DOMAIN t.out :
          ~IsBad(t, t.out[k]) => t.in[i].id # t.out[k].id
  <2>1. \A i \in DOMAIN t.in, k \in DOMAIN s.out :
            ~IsBad(t, s.out[k]) => t.in[i].id # s.out[k].id
    BY <1>2, <1>12 DEF Runs
  <2> QED BY <1>4, <1>6, <1>13, <2>1
<1>19. Runs(t, j, replies)
  BY <1>2, <1>10, <1>11, <1>13, <1>15, <1>16, <1>17, <1>18 DEF Runs
<1>20. Speaks(t, j)
  BY <1>15 DEF Speaks
<1> QED BY <1>19, <1>20 DEF Talks

\* The code ends, and its calls that wait are abandoned.
LEMMA Finishes ==
    ASSUME NEW s \in ProcessState, NEW t \in ProcessState, NEW j \in Job, NEW replies,
           s.current # None, t.current = None, t.ended = s.current, t.bad = s.bad,
           t.in = s.in, t.waiting = {}, t.out = Append(s.out, Msg("done", s.current, 0)),
           Talks(s, j, replies), Speaks(s, j)
    PROVE  Talks(t, j, replies) /\ Speaks(t, j)
<1>1. s.out \in Seq(Frame) /\ s.in \in Seq(Frame) /\ j \in Nat /\ j # None
  BY JobAssumption DEF ProcessState, None
<1>2. Runs(s, j, replies) /\ s.current = j
  BY DEF Talks, Awaits, Ended, Runs
<1>3. PICK frame : frame = Msg("done", j, 0)
  OBVIOUS
<1>4. /\ frame \in Frame /\ frame.type = "done" /\ frame.nonce = j
      /\ t.out = Append(s.out, frame)
  BY <1>1, <1>2, <1>3 DEF Msg, Frame
<1>5. PICK n : n = Len(s.out)
  OBVIOUS
<1>6. /\ n \in Nat /\ DOMAIN s.out = 1 .. n /\ DOMAIN t.out = 1 .. (n + 1)
      /\ t.out[n + 1] = frame /\ \A i \in DOMAIN s.out : t.out[i] = s.out[i]
      /\ \A i \in DOMAIN t.out : i \in DOMAIN s.out \/ i = n + 1
  BY <1>1, <1>4, <1>5, Appended
<1>7. \A f : IsBad(t, f) <=> IsBad(s, f)
  BY DEF IsBad
<1>8. \A i \in DOMAIN s.out : IsBad(t, s.out[i]) \/
          (s.out[i].nonce = j /\ s.out[i].type \in CallTypes)
  BY <1>2, <1>7 DEF Runs
<1>9. Speaks(t, j)
  BY <1>4, <1>6, <1>8 DEF Speaks
<1>10. \A i \in DOMAIN s.out : s.out[i].type # "done"
  BY <1>8 DEF IsBad, CallTypes
<1>11. \A i, k \in DOMAIN t.out : i < k /\ t.out[i].type = "done" => IsBad(t, t.out[k])
  BY <1>6, <1>10
<1>12. \A i \in DOMAIN t.in : t.in[i].type = "reply" /\ t.in[i].nonce = t.ended
  BY <1>2 DEF Runs
<1>13. DOMAIN t.in = 1 .. Len(t.in)
  BY <1>1
<1>14. LateReplies(t, Len(t.in))
  BY <1>12, <1>13 DEF LateReplies
<1> QED BY <1>2, <1>9, <1>11, <1>14 DEF Talks, Ended

\* A worker writes a frame that is not of the protocol.
LEMMA Misbehaves ==
    ASSUME NEW s \in ProcessState, NEW t \in ProcessState, NEW j \in Job, NEW replies,
           NEW frame \in Frame, frame.type = "bad", t.bad = TRUE,
           t.current = s.current, t.ended = s.ended, t.lastID = s.lastID,
           t.waiting = s.waiting, t.in = s.in, t.out = Append(s.out, frame)
    PROVE  /\ Rests(s) => Rests(t)
           /\ Talks(s, j, replies) => Talks(t, j, replies)
           /\ Speaks(s, j) => Speaks(t, j)
<1>1. s.out \in Seq(Frame) /\ s.in \in Seq(Frame)
  BY DEF ProcessState
<1>2. PICK n : n = Len(s.out)
  OBVIOUS
<1>3. /\ n \in Nat /\ DOMAIN s.out = 1 .. n /\ DOMAIN t.out = 1 .. (n + 1)
      /\ t.out[n + 1] = frame /\ \A i \in DOMAIN s.out : t.out[i] = s.out[i]
      /\ \A i \in DOMAIN t.out : i \in DOMAIN s.out \/ i = n + 1
  BY <1>1, <1>2, Appended
<1>4. IsBad(t, frame) /\ \A f : IsBad(s, f) => IsBad(t, f)
  BY DEF IsBad
<1>5. \A k : LateReplies(s, k) => LateReplies(t, k)
  BY DEF LateReplies
<1>6. AllBad(s) => AllBad(t)
  BY <1>3, <1>4 DEF AllBad
<1>7. Speaks(s, j) => Speaks(t, j)
  BY <1>3, <1>4 DEF Speaks
<1>8. Rests(s) => Rests(t)
  BY <1>5, <1>6 DEF Rests
<1>9. Awaits(s, j, replies) => Awaits(t, j, replies)
  BY <1>5, <1>6 DEF Awaits
<1>10. Ended(s, j) => Ended(t, j)
  <2>1. ASSUME \A i, k \in DOMAIN s.out : i < k /\ s.out[i].type = "done" => IsBad(s, s.out[k])
        PROVE  \A i, k \in DOMAIN t.out : i < k /\ t.out[i].type = "done" => IsBad(t, t.out[k])
    BY <1>3, <1>4, <2>1
  <2> QED BY <1>5, <1>7, <2>1 DEF Ended
<1>11. Asked(t) = Asked(s)
  BY AskedKept
<1>12. ASSUME Runs(s, j, replies) PROVE Runs(t, j, replies)
  <2>1. \A i \in DOMAIN t.out : ~IsBad(t, t.out[i]) =>
            i \in DOMAIN s.out /\ t.out[i] = s.out[i] /\ ~IsBad(s, s.out[i])
    BY <1>3, <1>4
  <2>2. \A i \in DOMAIN t.out : ~IsBad(t, t.out[i]) =>
            /\ t.out[i].type \in CallTypes /\ t.out[i].nonce = j
            /\ t.out[i].id \in Asked(t) \ replies
    <3>1. \A i \in DOMAIN s.out : ~IsBad(s, s.out[i]) =>
              /\ s.out[i].type \in CallTypes /\ s.out[i].nonce = j
              /\ s.out[i].id \in Asked(s) \ replies
      BY <1>12 DEF Runs
    <3> QED BY <1>11, <2>1, <3>1
  <2>3. \A i, k \in DOMAIN t.out :
            ~IsBad(t, t.out[i]) /\ ~IsBad(t, t.out[k]) /\ t.out[i].id = t.out[k].id => i = k
    <3>1. \A i, k \in DOMAIN s.out :
              ~IsBad(s, s.out[i]) /\ ~IsBad(s, s.out[k]) /\ s.out[i].id = s.out[k].id => i = k
      BY <1>12 DEF Runs
    <3> QED BY <2>1, <3>1
  <2>4. \A i \in DOMAIN t.in, k \in DOMAIN t.out :
            ~IsBad(t, t.out[k]) => t.in[i].id # t.out[k].id
    <3>1. \A i \in DOMAIN s.in, k \in DOMAIN s.out :
              ~IsBad(s, s.out[k]) => s.in[i].id # s.out[k].id
      BY <1>12 DEF Runs
    <3> QED BY <2>1, <3>1
  <2>5. \A i \in DOMAIN t.in : /\ t.in[i].type = "reply" /\ t.in[i].nonce = j
                               /\ t.in[i].id \in Asked(t) \ replies
    BY <1>11, <1>12 DEF Runs
  <2>6. \A i, k \in DOMAIN t.in : t.in[i].id = t.in[k].id => i = k
    BY <1>12 DEF Runs
  <2>7. /\ t.current = j /\ \A x \in Asked(t) : x <= t.lastID
        /\ replies \subseteq Asked(t)
    BY <1>11, <1>12 DEF Runs
  <2> QED BY <2>2, <2>3, <2>4, <2>5, <2>6, <2>7 DEF Runs
<1> QED BY <1>7, <1>8, <1>9, <1>10, <1>12 DEF Talks

\* What the worker makes of the frame it reads.
Routed(s) ==
    LET frame == Head(s.in)
        rest == [s EXCEPT !.in = Tail(@)] IN
    CASE frame.type = "run" /\ rest.current = None ->
           [rest EXCEPT !.current = frame.nonce, !.ended = None]
      [] frame.type = "reply" /\ Expects(rest, frame) ->
           [rest EXCEPT !.waiting = {x \in @ : x[1] # frame.id}]
      [] OTHER -> Broken(rest)

\* A reply that is late is dropped, one that is waited for ends its call.
LEMMA ReplyRouted ==
    ASSUME NEW s \in ProcessState, s.in # <<>>, Head(s.in).type = "reply",
           \/ Head(s.in).nonce = s.ended
           \/ Head(s.in).nonce = s.current /\ Head(s.in).id \in Asked(s),
           NEW t, t = Routed(s)
    PROVE  /\ t.in = Tail(s.in) /\ t.out = s.out /\ t.broke = s.broke /\ t.alive = s.alive
           /\ t.current = s.current /\ t.ended = s.ended /\ t.lastID = s.lastID
           /\ t.bad = s.bad /\ t.waiting = {x \in s.waiting : x[1] # Head(s.in).id}
<1>1. PICK frame : frame = Head(s.in)
  OBVIOUS
<1>2. PICK rest : rest = [s EXCEPT !.in = Tail(@)]
  OBVIOUS
<1>3. /\ rest.in = Tail(s.in) /\ rest.out = s.out /\ rest.broke = s.broke
      /\ rest.alive = s.alive /\ rest.current = s.current /\ rest.ended = s.ended
      /\ rest.lastID = s.lastID /\ rest.bad = s.bad /\ rest.waiting = s.waiting
  BY <1>2 DEF ProcessState
<1>4. Expects(rest, frame)
  <2>1. frame.id \in Asked(s) => \E x \in s.waiting : x[1] = frame.id
    BY DEF Asked
  <2> QED BY <1>1, <1>3, <2>1 DEF Expects
<1>5. frame.type = "reply" /\ frame.type # "run"
  BY <1>1
<1>6. t = [rest EXCEPT !.waiting = {x \in @ : x[1] # frame.id}]
  BY <1>1, <1>2, <1>4, <1>5, Zenon DEF Routed
<1>7. /\ t.in = rest.in /\ t.out = rest.out /\ t.broke = rest.broke /\ t.alive = rest.alive
      /\ t.current = rest.current /\ t.ended = rest.ended /\ t.lastID = rest.lastID
      /\ t.bad = rest.bad /\ t.waiting = {x \in rest.waiting : x[1] # frame.id}
  BY <1>2, <1>6 DEF ProcessState
<1> QED BY <1>1, <1>3, <1>7

LEMMA RunRouted ==
    ASSUME NEW s \in ProcessState, s.in # <<>>, Head(s.in).type = "run",
           s.current = None, NEW t, t = Routed(s)
    PROVE  /\ t.in = Tail(s.in) /\ t.out = s.out /\ t.broke = s.broke /\ t.alive = s.alive
           /\ t.current = Head(s.in).nonce /\ t.ended = None /\ t.lastID = s.lastID
           /\ t.bad = s.bad /\ t.waiting = s.waiting
<1>1. PICK frame : frame = Head(s.in)
  OBVIOUS
<1>2. PICK rest : rest = [s EXCEPT !.in = Tail(@)]
  OBVIOUS
<1>3. /\ rest.in = Tail(s.in) /\ rest.out = s.out /\ rest.broke = s.broke
      /\ rest.alive = s.alive /\ rest.current = s.current /\ rest.ended = s.ended
      /\ rest.lastID = s.lastID /\ rest.bad = s.bad /\ rest.waiting = s.waiting
  BY <1>2 DEF ProcessState
<1>4. frame.type = "run" /\ frame.type # "reply"
  BY <1>1
<1>5. t = [rest EXCEPT !.current = frame.nonce, !.ended = None]
  BY <1>1, <1>2, <1>3, <1>4, Zenon DEF Routed
<1>6. /\ t.in = rest.in /\ t.out = rest.out /\ t.broke = rest.broke /\ t.alive = rest.alive
      /\ t.current = frame.nonce /\ t.ended = None /\ t.lastID = rest.lastID
      /\ t.bad = rest.bad /\ t.waiting = rest.waiting
  BY <1>2, <1>5 DEF ProcessState
<1> QED BY <1>1, <1>3, <1>6

\* The head of a queue of late replies.
LEMMA LateHead ==
    ASSUME NEW s \in ProcessState, s.in # <<>>, NEW last \in Nat, last > 0, last <= Len(s.in),
           LateReplies(s, last), NEW t, t = Routed(s), s.waiting = {}
    PROVE  /\ t.in = Tail(s.in) /\ t.out = s.out /\ t.broke = s.broke /\ t.alive = s.alive
           /\ SameLink(s, t) /\ LateReplies(t, last - 1)
<1>1. s.in \in Seq(Frame)
  BY DEF ProcessState
<1>2. PICK tail : tail = Tail(s.in)
  OBVIOUS
<1>3. PICK n : n = Len(s.in)
  OBVIOUS
<1>4. /\ n \in Nat /\ Head(s.in) = s.in[1] /\ 1 \in DOMAIN s.in
      /\ DOMAIN tail = 1 .. (n - 1)
      /\ \A i \in DOMAIN tail : i + 1 \in DOMAIN s.in /\ tail[i] = s.in[i + 1] /\ i + 1 # 1
  BY <1>1, <1>2, <1>3, Beheaded
<1>5. Head(s.in).type = "reply" /\ Head(s.in).nonce = s.ended
  BY <1>4 DEF LateReplies
<1>6. /\ t.in = tail /\ t.out = s.out /\ t.broke = s.broke /\ t.alive = s.alive
      /\ t.current = s.current /\ t.ended = s.ended /\ t.lastID = s.lastID
      /\ t.bad = s.bad /\ t.waiting = {x \in s.waiting : x[1] # Head(s.in).id}
  BY <1>2, <1>5, ReplyRouted
<1>7. t.waiting = s.waiting
  BY <1>6
<1>8. ASSUME NEW i \in 1 .. last - 1
      PROVE  i \in DOMAIN tail /\ i + 1 \in 1 .. last /\ tail[i] = s.in[i + 1]
  BY <1>3, <1>4
<1>9. LateReplies(t, last - 1)
  BY <1>6, <1>8 DEF LateReplies
<1> QED BY <1>2, <1>6, <1>7, <1>9 DEF SameLink

LEMMA RestsReceives ==
    ASSUME NEW s \in ProcessState, s.in # <<>>, NEW t, t = Routed(s), Rests(s)
    PROVE  Rests(t) /\ t.broke = s.broke /\ t.alive = s.alive
<1>1. PICK n : n = Len(s.in)
  OBVIOUS
<1>2. n \in Nat /\ n > 0
  BY <1>1 DEF ProcessState
<1>3. LateReplies(s, n) /\ s.waiting = {}
  BY <1>1 DEF Rests
<1>4. /\ t.in = Tail(s.in) /\ t.out = s.out /\ t.broke = s.broke /\ t.alive = s.alive
      /\ SameLink(s, t) /\ LateReplies(t, n - 1)
  BY <1>1, <1>2, <1>3, LateHead
<1>5. Len(t.in) = n - 1
  BY <1>1, <1>4 DEF ProcessState
<1>6. AllBad(t)
  BY <1>4 DEF Rests, AllBad, IsBad, SameLink
<1> QED BY <1>4, <1>5, <1>6 DEF Rests, SameLink

LEMMA Receives ==
    ASSUME NEW s \in ProcessState, NEW j \in Job, NEW replies, s.in # <<>>,
           NEW t, t = Routed(s), Talks(s, j, replies)
    PROVE  /\ Talks(t, j, replies) /\ (Speaks(s, j) => Speaks(t, j))
           /\ t.broke = s.broke /\ t.alive = s.alive
<1>1. s.in \in Seq(Frame) /\ s.out \in Seq(Frame) /\ s.lastID \in Nat
  BY DEF ProcessState
<1>2. PICK n : n = Len(s.in)
  OBVIOUS
<1>3. PICK tail : tail = Tail(s.in)
  OBVIOUS
<1>4. /\ n \in Nat /\ n > 0 /\ Head(s.in) = s.in[1] /\ 1 \in DOMAIN s.in
      /\ DOMAIN s.in = 1 .. n
      /\ Len(tail) = n - 1 /\ DOMAIN tail = 1 .. (n - 1)
      /\ \A i \in DOMAIN tail : i + 1 \in DOMAIN s.in /\ tail[i] = s.in[i + 1] /\ i + 1 # 1
      /\ \A i, k \in DOMAIN tail : i + 1 = k + 1 => i = k
  BY <1>1, <1>2, <1>3, Beheaded
<1>5. ASSUME t.out = s.out, t.bad = s.bad
      PROVE  /\ \A f : IsBad(t, f) <=> IsBad(s, f)
             /\ AllBad(s) => AllBad(t)
             /\ Speaks(s, j) => Speaks(t, j)
  BY <1>5 DEF IsBad, AllBad, Speaks
<1>6. CASE Awaits(s, j, replies) /\ n = 1
  <2>1. Head(s.in).type = "run" /\ Head(s.in).nonce = j /\ s.current = None
    BY <1>2, <1>4, <1>6 DEF Awaits
  <2>2. /\ t.in = tail /\ t.out = s.out /\ t.broke = s.broke /\ t.alive = s.alive
        /\ t.current = j /\ t.ended = None /\ t.lastID = s.lastID
        /\ t.bad = s.bad /\ t.waiting = s.waiting
    BY <1>3, <2>1, RunRouted
  <2>3. Asked(t) = {} /\ replies = {} /\ DOMAIN t.in = {}
    BY <1>4, <1>6, <2>2 DEF Awaits, Asked
  <2>4. AllBad(t) /\ (Speaks(s, j) => Speaks(t, j))
    BY <1>5, <1>6, <2>2 DEF Awaits
  <2>5. Runs(t, j, replies)
    BY <2>2, <2>3, <2>4 DEF Runs, AllBad
  <2> QED BY <2>2, <2>4, <2>5 DEF Talks
<1>7. CASE Awaits(s, j, replies) /\ n # 1
  <2>1. LateReplies(s, n - 1) /\ n - 1 \in Nat /\ n - 1 > 0 /\ n - 1 <= Len(s.in) /\ s.waiting = {}
    <3>1. n - 1 \in Nat /\ n - 1 > 0 /\ n - 1 <= n
      BY <1>4, <1>7
    <3> QED BY <1>2, <1>7, <3>1 DEF Awaits
  <2>2. /\ t.in = tail /\ t.out = s.out /\ t.broke = s.broke /\ t.alive = s.alive
        /\ SameLink(s, t) /\ LateReplies(t, n - 1 - 1)
    BY <1>3, <2>1, LateHead
  <2>3. Len(t.in) = n - 1 /\ t.in # <<>> /\ t.in[n - 1] = s.in[n]
    <3>1. n - 1 \in DOMAIN tail /\ tail # <<>>
      BY <1>1, <1>3, <1>4, <2>1
    <3> QED BY <1>4, <2>2, <3>1
  <2>4. AllBad(t) /\ (Speaks(s, j) => Speaks(t, j))
    BY <1>5, <1>7, <2>2 DEF Awaits, SameLink
  <2>5. Awaits(t, j, replies)
    BY <1>2, <1>7, <2>2, <2>3, <2>4 DEF Awaits, SameLink
  <2> QED BY <2>2, <2>4, <2>5 DEF Talks
<1>8. CASE Ended(s, j)
  <2>1. LateReplies(s, n) /\ s.waiting = {}
    BY <1>2, <1>8 DEF Ended
  <2>2. /\ t.in = tail /\ t.out = s.out /\ t.broke = s.broke /\ t.alive = s.alive
        /\ SameLink(s, t) /\ LateReplies(t, n - 1)
    BY <1>2, <1>3, <1>4, <2>1, LateHead
  <2>3. Speaks(t, j) /\ \A f : IsBad(t, f) <=> IsBad(s, f)
    BY <1>5, <1>8, <2>2 DEF Ended, SameLink
  <2>4. Ended(t, j)
    BY <1>4, <1>8, <2>2, <2>3 DEF Ended, SameLink
  <2> QED BY <2>2, <2>3, <2>4 DEF Talks
<1>9. CASE Runs(s, j, replies)
  <2>1. PICK id : id = Head(s.in).id
    OBVIOUS
  <2>2. Head(s.in).type = "reply" /\ Head(s.in).nonce = j /\ s.current = j
        /\ id \in Asked(s) \ replies
    BY <1>4, <1>9, <2>1 DEF Runs
  <2>3. /\ t.in = tail /\ t.out = s.out /\ t.broke = s.broke /\ t.alive = s.alive
        /\ t.current = s.current /\ t.ended = s.ended /\ t.lastID = s.lastID
        /\ t.bad = s.bad /\ t.waiting = {x \in s.waiting : x[1] # id}
    BY <1>3, <2>1, <2>2, ReplyRouted
  <2>4. Asked(t) = Asked(s) \ {id}
    BY <2>3 DEF Asked
  <2>5. \A f : IsBad(t, f) <=> IsBad(s, f)
    BY <1>5, <2>3
  <2>6. /\ t.current = j /\ \A x \in Asked(t) : x <= t.lastID
        /\ replies \subseteq Asked(t)
    BY <1>9, <2>2, <2>3, <2>4 DEF Runs
  <2>7. \A i, k \in DOMAIN s.in : s.in[i].id = s.in[k].id => i = k
    BY <1>9 DEF Runs
  <2>8. \A i, k \in DOMAIN t.in : t.in[i].id = t.in[k].id => i = k
    BY <1>4, <2>3, <2>7
  <2>9. \A i \in DOMAIN t.in : /\ t.in[i].type = "reply" /\ t.in[i].nonce = j
                               /\ t.in[i].id \in Asked(t) \ replies
    <3>1. \A i \in DOMAIN s.in : /\ s.in[i].type = "reply" /\ s.in[i].nonce = j
                                 /\ s.in[i].id \in Asked(s) \ replies
      BY <1>9 DEF Runs
    <3>2. \A i \in DOMAIN t.in : t.in[i].id # id
      BY <1>4, <2>1, <2>3, <2>7
    <3> QED BY <1>4, <2>3, <2>4, <3>1, <3>2
  <2>10. \A i \in DOMAIN s.in, k \in DOMAIN s.out :
            ~IsBad(s, s.out[k]) => s.in[i].id # s.out[k].id
    BY <1>9 DEF Runs
  <2>11. \A i \in DOMAIN t.out : ~IsBad(t, t.out[i]) =>
            /\ t.out[i].type \in CallTypes /\ t.out[i].nonce = j
            /\ t.out[i].id \in Asked(t) \ replies
    <3>1. \A i \in DOMAIN s.out : ~IsBad(s, s.out[i]) =>
            /\ s.out[i].type \in CallTypes /\ s.out[i].nonce = j
            /\ s.out[i].id \in Asked(s) \ replies
      BY <1>9 DEF Runs
    <3>2. \A k \in DOMAIN s.out : ~IsBad(s, s.out[k]) => s.out[k].id # id
      BY <1>4, <2>1, <2>10
    <3> QED BY <2>3, <2>4, <2>5, <3>1, <3>2
  <2>12. \A i, k \in DOMAIN t.out :
            ~IsBad(t, t.out[i]) /\ ~IsBad(t, t.out[k]) /\ t.out[i].id = t.out[k].id => i = k
    BY <1>9, <2>3, <2>5 DEF Runs
  <2>13. \A i \in DOMAIN t.in, k \in DOMAIN t.out :
            ~IsBad(t, t.out[k]) => t.in[i].id # t.out[k].id
    BY <1>4, <2>3, <2>5, <2>10
  <2>14. Runs(t, j, replies)
    BY <2>6, <2>8, <2>9, <2>11, <2>12, <2>13 DEF Runs
  <2> QED BY <1>5, <2>3, <2>14 DEF Talks
<1> QED BY <1>6, <1>7, <1>8, <1>9 DEF Talks

-----------------------------------------------------------------------------
(* The protocol through the steps. *)

\* A job without a process reads nothing.
LEMMA Unheld ==
    ASSUME NEW r, NEW s, NEW t, NEW j, r.pc \notin Holding, JobTalks(r, s, j)
    PROVE  JobTalks(r, t, j)
BY DEF JobTalks, Holding

LEMMA TalkStep ==
    ASSUME PoolInv, TalkInv, NEW j, NEW P \in SUBSET Process,
           \A k \in Job \ {j} : job'[k] = job[k],
           \A q \in Process \ P : proc'[q] = proc[q] /\ (q \in idle' => q \in idle),
           \A k \in Job \ {j} : job[k].pc \in Holding => job[k].worker \notin P,
           j \in Job => TalkOK(j)',
           \A q \in P : QuietOK(q)'
    PROVE  TalkInv'
<1>1. ASSUME NEW k \in Job PROVE TalkOK(k)'
  <2>1. CASE k = j
    BY <2>1
  <2>2. CASE k # j
    <3>1. job'[k] = job[k] /\ TalkOK(k)
      BY <2>2 DEF TalkInv
    <3>2. PICK r, s, t : r = job[k] /\ s = proc[r.worker] /\ t = proc'[r.worker]
      OBVIOUS
    <3>3. JobTalks(r, s, k)
      BY <3>1, <3>2 DEF TalkOK
    <3>4. JobTalks(r, t, k)
      <4>1. CASE r.pc \in Holding
        <5>1. t = s
          BY <2>2, <3>2, <4>1, HeldIs
        <5> QED BY <3>3, <5>1
      <4>2. CASE r.pc \notin Holding
        BY <3>3, <4>2, Unheld
      <4> QED BY <4>1, <4>2
    <3> QED BY <3>1, <3>2, <3>4 DEF TalkOK
  <2> QED BY <2>1, <2>2
<1>2. ASSUME NEW q \in Process PROVE QuietOK(q)'
  <2>1. CASE q \in P
    BY <2>1
  <2>2. CASE q \notin P
    BY <2>2 DEF TalkInv, QuietOK
  <2> QED BY <2>1, <2>2
<1> QED BY <1>1, <1>2 DEF TalkInv

\* A job and the process it holds go on with each other.
LEMMA TalkHeld ==
    ASSUME PoolInv, TalkInv, NEW j \in Job, job[j].pc \in Holding,
           NEW p, p = job[j].worker, NEW r, NEW s,
           job' = [job EXCEPT ![j] = r], proc' = [proc EXCEPT ![p] = s], UNCHANGED idle,
           r.worker = p, JobTalks(r, s, j), s.broke = proc[p].broke
    PROVE  TalkInv'
<1>1. p \in Process /\ p \notin idle
  BY HeldIs
<1>2. /\ job'[j] = r /\ (\A k \in Job \ {j} : job'[k] = job[k])
      /\ proc'[p] = s /\ (\A q \in Process \ {p} : proc'[q] = proc[q])
  BY <1>1 DEF PoolInv, Types
<1>3. \A k \in Job \ {j} : job[k].pc \in Holding => job[k].worker \notin {p}
  BY DEF PoolInv, Exclusive
<1>4. TalkOK(j)'
  BY <1>2 DEF TalkOK
<1>5. QuietOK(p)'
  BY <1>1, <1>2 DEF TalkInv, QuietOK
<1>6. PICK P : P = {p}
  OBVIOUS
<1>7. /\ P \in SUBSET Process /\ \A q \in P : QuietOK(q)'
      /\ \A q \in Process \ P : proc'[q] = proc[q] /\ (q \in idle' => q \in idle)
      /\ \A k \in Job \ {j} : job[k].pc \in Holding => job[k].worker \notin P
  BY <1>1, <1>2, <1>3, <1>5, <1>6
<1> QED BY <1>2, <1>4, <1>7, TalkStep

\* A job without a process changes its record.
LEMMA TalkUnheld ==
    ASSUME PoolInv, TalkInv, NEW j \in Job, NEW r, job' = [job EXCEPT ![j] = r],
           r.pc \notin Holding, ~r.open, r.pc \in {"queued", "starting"} => r.replies = {},
           UNCHANGED <<idle, proc>>
    PROVE  TalkInv'
<1>1. job'[j] = r /\ (\A k \in Job \ {j} : job'[k] = job[k])
  BY JobBecomes DEF PoolInv
<1>2. \A s : JobTalks(r, s, j)
  BY DEF JobTalks, Holding
<1>3. TalkOK(j)'
  BY <1>1, <1>2 DEF TalkOK
<1> QED BY <1>1, <1>3, TalkStep

\* What a job may do to its record without a word to its worker.
LEMMA TalkSilent ==
    ASSUME PoolInv, TalkInv, NEW j \in Job, NEW r, job' = [job EXCEPT ![j] = r],
           r.pc = job[j].pc, r.worker = job[j].worker, r.open = job[j].open,
           r.replies = job[j].replies, r.blame = job[j].blame,
           UNCHANGED <<idle, proc>>
    PROVE  TalkInv'
<1>1. job'[j] = r /\ (\A k \in Job \ {j} : job'[k] = job[k])
  BY JobBecomes DEF PoolInv
<1>2. TalkOK(j)'
  BY <1>1 DEF TalkInv, TalkOK, JobTalks
<1>3. PICK P : P = {}
  OBVIOUS
<1>4. /\ P \in SUBSET Process /\ \A q \in P : QuietOK(q)'
      /\ \A q \in Process \ P : proc'[q] = proc[q] /\ (q \in idle' => q \in idle)
      /\ \A k \in Job \ {j} : job[k].pc \in Holding => job[k].worker \notin P
  BY <1>3
<1> QED BY <1>1, <1>2, <1>4, TalkStep

\* A process changes nothing that the protocol looks at.
Alike(s, t) ==
    SameLink(s, t) /\ t.in = s.in /\ t.out = s.out /\ t.broke = s.broke /\ t.alive = s.alive

LEMMA AlikeTalks ==
    ASSUME NEW s, NEW t, Alike(s, t)
    PROVE  /\ Rests(s) => Rests(t)
           /\ \A j : Speaks(s, j) => Speaks(t, j)
           /\ \A j, replies : Talks(s, j, replies) => Talks(t, j, replies)
           /\ \A r, j : JobTalks(r, s, j) => JobTalks(r, t, j)
<1>1. \A f : IsBad(t, f) <=> IsBad(s, f)
  BY DEF Alike, SameLink, IsBad
<1>2. \A last : LateReplies(s, last) <=> LateReplies(t, last)
  BY DEF Alike, SameLink, LateReplies
<1>3. AllBad(s) <=> AllBad(t)
  BY <1>1 DEF Alike, AllBad
<1>4. Rests(s) => Rests(t)
  BY <1>2, <1>3 DEF Alike, SameLink, Rests
<1>5. \A j : Speaks(s, j) => Speaks(t, j)
  BY <1>1 DEF Alike, Speaks
<1>6. Asked(t) = Asked(s)
  BY DEF Alike, SameLink, Asked
<1>7. ASSUME NEW j, NEW replies PROVE Talks(s, j, replies) => Talks(t, j, replies)
  <2>1. Awaits(s, j, replies) => Awaits(t, j, replies)
    BY <1>2, <1>3 DEF Alike, SameLink, Awaits
  <2>2. Runs(s, j, replies) => Runs(t, j, replies)
    BY <1>1, <1>6 DEF Alike, SameLink, Runs
  <2>3. Ended(s, j) => Ended(t, j)
    BY <1>1, <1>2, <1>5 DEF Alike, SameLink, Ended
  <2> QED BY <2>1, <2>2, <2>3 DEF Talks
<1>8. \A r, j : JobTalks(r, s, j) => JobTalks(r, t, j)
  BY <1>4, <1>5, <1>7 DEF Alike, SameLink, JobTalks
<1> QED BY <1>4, <1>5, <1>7, <1>8

LEMMA TalkAlike ==
    ASSUME PoolInv, TalkInv, NEW p \in Process, NEW t, proc' = [proc EXCEPT ![p] = t],
           Alike(proc[p], t), UNCHANGED <<idle, job>>
    PROVE  TalkInv'
<1>1. PICK s : s = proc[p]
  OBVIOUS
<1>2. proc'[p] = t /\ (\A q \in Process \ {p} : proc'[q] = proc[q])
  BY DEF PoolInv, Types
<1>3. (Rests(s) => Rests(t)) /\ \A r, j : JobTalks(r, s, j) => JobTalks(r, t, j)
  BY <1>1, AlikeTalks
<1>4. ASSUME NEW k \in Job PROVE TalkOK(k)'
  <2>1. PICK r, x, y : r = job[k] /\ x = proc[r.worker] /\ y = proc'[r.worker]
    OBVIOUS
  <2>2. JobTalks(r, x, k)
    BY <2>1 DEF TalkInv, TalkOK
  <2>3. JobTalks(r, y, k)
    <3>1. CASE r.pc \notin Holding
      BY <2>2, <3>1, Unheld
    <3>2. CASE r.pc \in Holding /\ r.worker = p
      BY <1>1, <1>2, <1>3, <2>1, <2>2, <3>2
    <3>3. CASE r.pc \in Holding /\ r.worker # p
      <4>1. x = y
        BY <1>2, <2>1, <3>3, HeldIs
      <4> QED BY <2>2, <4>1
    <3> QED BY <3>1, <3>2, <3>3
  <2> QED BY <2>1, <2>3 DEF TalkOK
<1>5. ASSUME NEW q \in Process PROVE QuietOK(q)'
  <2>1. CASE q = p
    BY <1>1, <1>2, <1>3, <2>1 DEF TalkInv, QuietOK, Alike
  <2>2. CASE q # p
    BY <1>2, <2>2 DEF TalkInv, QuietOK
  <2> QED BY <2>1, <2>2
<1> QED BY <1>4, <1>5 DEF TalkInv

\* A live process that takes a step of its own, idle or held.
LEMMA WorkerTalks ==
    ASSUME PoolInv, TalkInv, NEW p \in Process, NEW s, s = proc[p], s.alive, NEW t,
           proc' = [proc EXCEPT ![p] = t], UNCHANGED <<idle, job>>,
           Rests(s) => t.broke = s.broke /\ (t.alive => Rests(t)),
           \A k \in Job : \A replies : Talks(s, k, replies) /\ Speaks(s, k) =>
               t.broke = s.broke /\ Speaks(t, k) /\ (t.alive => Talks(t, k, replies)),
           s.bad => t.bad
    PROVE  TalkInv'
<1>1. proc'[p] = t /\ (\A q \in Process \ {p} : proc'[q] = proc[q])
  BY DEF PoolInv, Types
<1>2. CASE \E j \in Job : job[j].pc \in Holding /\ job[j].worker = p
  <2>1. PICK j \in Job : job[j].pc \in Holding /\ job[j].worker = p
    BY <1>2
  <2>2. PICK r : r = job[j]
    OBVIOUS
  <2>3. JobTalks(r, s, j)
    BY <2>1, <2>2 DEF TalkInv, TalkOK
  <2>4. JobTalks(r, t, j) /\ t.broke = s.broke
    <3>1. CASE r.pc = "putting"
      <4>1. Rests(s)
        BY <2>3, <3>1 DEF JobTalks
      <4> QED BY <2>3, <3>1, <4>1 DEF JobTalks
    <3>2. CASE r.pc \in {"running", "failing"}
      <4>1. Talks(s, j, r.replies) /\ Speaks(s, j)
        BY <2>3, <3>2 DEF JobTalks
      <4>2. t.broke = s.broke /\ Speaks(t, j) /\ (t.alive => Talks(t, j, r.replies))
        BY <4>1
      <4> QED BY <2>3, <3>2, <4>2 DEF JobTalks
    <3> QED BY <2>1, <2>2, <3>1, <3>2 DEF Holding
  <2>5. job' = [job EXCEPT ![j] = r]
    BY <2>2, ProcIs DEF PoolInv
  <2> QED BY <2>1, <2>2, <2>4, <2>5, TalkHeld
<1>3. CASE ~\E j \in Job : job[j].pc \in Holding /\ job[j].worker = p
  <2>1. p \in idle
    BY <1>3 DEF PoolInv, ProcOK
  <2>2. QuietOK(p)'
    BY <1>1, <2>1 DEF TalkInv, QuietOK
  <2>3. PICK P : P = {p}
    OBVIOUS
  <2>4. /\ P \in SUBSET Process /\ \A q \in P : QuietOK(q)'
        /\ \A q \in Process \ P : proc'[q] = proc[q] /\ (q \in idle' => q \in idle)
        /\ \A k \in Job \ {None} : job[k].pc \in Holding => job[k].worker \notin P
    BY <1>1, <1>3, <2>2, <2>3
  <2>5. None \notin Job
    BY Finite
  <2> QED BY <2>4, <2>5, TalkStep
<1> QED BY <1>2, <1>3

LEMMA AskTalks ==
    ASSUME PoolInv, TalkInv, PoolInv', NEW p \in Process, NEW kind \in {"question", "helper"},
           AskServer(p, kind)
    PROVE  TalkInv'
<1>1. PICK s : s = proc[p]
  OBVIOUS
<1>2. s \in ProcessState /\ s.alive /\ s.current # None /\ s.out \in Seq(Frame)
      /\ UNCHANGED <<idle, job>>
  BY <1>1, ProcIs DEF PoolInv, AskServer, Works, ProcessState
<1>3. PICK id, frame : id = s.lastID + 1 /\ frame = Msg(kind, s.current, id)
  OBVIOUS
<1>4. PICK t : t = [s EXCEPT !.lastID = id, !.waiting = @ \cup {<<id, kind>>},
                             !.out = Append(@, frame)]
  OBVIOUS
<1>5. proc' = [proc EXCEPT ![p] = t]
  BY <1>1, <1>3, <1>4, ProcIs DEF AskServer, PoolInv
<1>6. t \in ProcessState
  <2>1. proc'[p] = t
    BY <1>5 DEF PoolInv, Types
  <2> QED BY <2>1 DEF PoolInv, Types
<1>7. /\ t.current = s.current /\ t.ended = s.ended /\ t.bad = s.bad /\ t.in = s.in
      /\ t.lastID = id /\ t.waiting = s.waiting \cup {<<id, kind>>}
      /\ t.out = Append(s.out, frame) /\ t.broke = s.broke
  BY <1>2, <1>4 DEF ProcessState
<1>8. ~Rests(s)
  BY <1>2 DEF Rests
<1>9. ASSUME NEW k \in Job, NEW replies, Talks(s, k, replies), Speaks(s, k)
      PROVE  Talks(t, k, replies) /\ Speaks(t, k)
  BY <1>2, <1>3, <1>6, <1>7, <1>9, Asks DEF CallTypes
<1> QED BY <1>1, <1>2, <1>5, <1>7, <1>8, <1>9, WorkerTalks

LEMMA FinishTalks ==
    ASSUME PoolInv, TalkInv, PoolInv', NEW p \in Process, FinishJob(p)
    PROVE  TalkInv'
<1>1. PICK s : s = proc[p]
  OBVIOUS
<1>2. s \in ProcessState /\ s.alive /\ s.current # None /\ UNCHANGED <<idle, job>>
  BY <1>1, ProcIs DEF PoolInv, FinishJob, Works
<1>3. PICK frame : frame = Msg("done", s.current, 0)
  OBVIOUS
<1>4. PICK t : t = [s EXCEPT !.ended = s.current, !.current = None, !.waiting = {},
                             !.out = Append(@, frame)]
  OBVIOUS
<1>5. proc' = [proc EXCEPT ![p] = t]
  BY <1>1, <1>3, <1>4, ProcIs DEF FinishJob, PoolInv
<1>6. t \in ProcessState
  <2>1. proc'[p] = t
    BY <1>5 DEF PoolInv, Types
  <2> QED BY <2>1 DEF PoolInv, Types
<1>7. /\ t.current = None /\ t.ended = s.current /\ t.bad = s.bad /\ t.in = s.in
      /\ t.waiting = {} /\ t.out = Append(s.out, frame) /\ t.broke = s.broke
  BY <1>2, <1>4 DEF ProcessState
<1>8. ~Rests(s)
  BY <1>2 DEF Rests
<1>9. ASSUME NEW k \in Job, NEW replies, Talks(s, k, replies), Speaks(s, k)
      PROVE  Talks(t, k, replies) /\ Speaks(t, k)
  BY <1>2, <1>3, <1>6, <1>7, <1>9, Finishes
<1> QED BY <1>1, <1>2, <1>5, <1>7, <1>8, <1>9, WorkerTalks

LEMMA MisbehaveTalks ==
    ASSUME PoolInv, TalkInv, PoolInv', NEW p \in Process, Misbehave(p)
    PROVE  TalkInv'
<1>1. PICK s : s = proc[p]
  OBVIOUS
<1>2. s \in ProcessState /\ s.alive /\ UNCHANGED <<idle, job>> /\ \E j \in Job : Holds(j, p)
  BY <1>1, ProcIs DEF PoolInv, Misbehave, Works
<1>3. PICK holder \in Job : holder = CHOOSE j \in Job : Holds(j, p)
  BY <1>2
<1>4. PICK frame : frame = Msg("bad", holder, 0)
  OBVIOUS
<1>5. frame \in Frame /\ frame.type = "bad"
  BY <1>4 DEF Msg, Frame
<1>6. PICK t : t = [s EXCEPT !.bad = TRUE, !.out = Append(@, frame)]
  OBVIOUS
<1>7. proc' = [proc EXCEPT ![p] = t]
  BY <1>1, <1>3, <1>4, <1>6, ProcIs DEF Misbehave, PoolInv
<1>8. t \in ProcessState
  <2>1. proc'[p] = t
    BY <1>7 DEF PoolInv, Types
  <2> QED BY <2>1 DEF PoolInv, Types
<1>9. /\ t.bad = TRUE /\ t.current = s.current /\ t.ended = s.ended /\ t.lastID = s.lastID
      /\ t.waiting = s.waiting /\ t.in = s.in /\ t.out = Append(s.out, frame)
      /\ t.broke = s.broke /\ t.alive = s.alive
  BY <1>2, <1>6 DEF ProcessState
<1>10. Rests(s) => Rests(t)
  BY <1>2, <1>3, <1>5, <1>8, <1>9, Misbehaves
<1>11. ASSUME NEW k \in Job, NEW replies, Talks(s, k, replies), Speaks(s, k)
       PROVE  Talks(t, k, replies) /\ Speaks(t, k)
  BY <1>2, <1>5, <1>8, <1>9, <1>11, Misbehaves
<1> QED BY <1>1, <1>2, <1>7, <1>9, <1>10, <1>11, WorkerTalks

LEMMA DieTalks ==
    ASSUME PoolInv, TalkInv, NEW p \in Process, Die(p)
    PROVE  TalkInv'
<1>1. PICK s : s = proc[p]
  OBVIOUS
<1>2. s \in ProcessState /\ s.alive /\ UNCHANGED <<idle, job>>
  BY <1>1, ProcIs DEF PoolInv, Die, Works
<1>3. PICK t : t = [Killed(s) EXCEPT !.died = TRUE]
  OBVIOUS
<1>4. proc' = [proc EXCEPT ![p] = t]
  BY <1>1, <1>3 DEF Die
<1>5. ~t.alive /\ t.out = s.out /\ t.bad = s.bad /\ t.broke = s.broke
  BY <1>2, <1>3 DEF Killed, ProcessState
<1>6. \A k : Speaks(s, k) => Speaks(t, k)
  BY <1>5 DEF Speaks, IsBad
<1> QED BY <1>1, <1>2, <1>4, <1>5, <1>6, WorkerTalks

LEMMA StartKillsTalks ==
    ASSUME PoolInv, TalkInv, NEW p \in Process, StartKills(p)
    PROVE  TalkInv'
<1>1. PICK s : s = proc[p]
  OBVIOUS
<1>2. s \in ProcessState /\ s.alive /\ UNCHANGED <<idle, job>>
  BY <1>1, ProcIs DEF PoolInv, StartKills
<1>3. PICK t : t = [Killed(s) EXCEPT !.late = "killed"]
  OBVIOUS
<1>4. proc' = [proc EXCEPT ![p] = t]
  BY <1>1, <1>3 DEF StartKills
<1>5. ~t.alive /\ t.out = s.out /\ t.bad = s.bad /\ t.broke = s.broke
  BY <1>2, <1>3 DEF Killed, ProcessState
<1>6. \A k : Speaks(s, k) => Speaks(t, k)
  BY <1>5 DEF Speaks, IsBad
<1> QED BY <1>1, <1>2, <1>4, <1>5, <1>6, WorkerTalks

LEMMA ReceiveTalks ==
    ASSUME PoolInv, TalkInv, NEW p \in Process, Receive(p)
    PROVE  TalkInv'
<1>1. PICK s : s = proc[p]
  OBVIOUS
<1>2. s \in ProcessState /\ s.alive /\ s.in # <<>> /\ UNCHANGED <<idle, job>>
  BY <1>1, ProcIs DEF PoolInv, Receive, Works
<1>3. PICK t : t = Routed(s)
  OBVIOUS
<1>4. proc' = [proc EXCEPT ![p] = t]
  BY <1>1, <1>3 DEF Receive, Routed
<1>5. t.bad = s.bad
  <2>1. PICK frame, rest : frame = Head(s.in) /\ rest = [s EXCEPT !.in = Tail(@)]
    OBVIOUS
  <2>2. PICK u, v, w : /\ u = [rest EXCEPT !.current = frame.nonce, !.ended = None]
                       /\ v = [rest EXCEPT !.waiting = {x \in @ : x[1] # frame.id}]
                       /\ w = Broken(rest)
    OBVIOUS
  <2>3. rest.bad = s.bad
    BY <1>2, <2>1 DEF ProcessState
  <2>4. u.bad = rest.bad /\ v.bad = rest.bad
    BY <1>2, <2>1, <2>2 DEF ProcessState
  <2>5. w.bad = rest.bad
    BY <1>2, <2>1, <2>2 DEF ProcessState, Broken, Killed
  <2>6. t = CASE frame.type = "run" /\ rest.current = None -> u
              [] frame.type = "reply" /\ Expects(rest, frame) -> v
              [] OTHER -> w
    BY <1>3, <2>1, <2>2 DEF Routed
  <2>7. t \in {u, v, w}
    BY <2>6
  <2> QED BY <2>3, <2>4, <2>5, <2>7
<1>6. Rests(s) => Rests(t) /\ t.broke = s.broke
  BY <1>2, <1>3, RestsReceives
<1>7. ASSUME NEW k \in Job, NEW replies, Talks(s, k, replies), Speaks(s, k)
      PROVE  Talks(t, k, replies) /\ Speaks(t, k) /\ t.broke = s.broke
  BY <1>2, <1>3, <1>7, Receives
<1> QED BY <1>1, <1>2, <1>4, <1>5, <1>6, <1>7, WorkerTalks

\* The idle timer, and a callback of it that finds the worker taken.
LEMMA TimerTalks ==
    ASSUME PoolInv, TalkInv, NEW p \in Process,
           IdleTimerFires(p) \/ (Retire(p) /\ p \notin idle)
    PROVE  TalkInv'
<1>1. PICK s, t, u : s = proc[p] /\ t = [s EXCEPT !.timer = "off", !.retiring = TRUE]
                     /\ u = [s EXCEPT !.retiring = FALSE]
  OBVIOUS
<1>2. s \in ProcessState
  BY <1>1, ProcIs DEF PoolInv
<1>3. Alike(s, t) /\ Alike(s, u)
  BY <1>1, <1>2 DEF Alike, SameLink, ProcessState
<1>4. UNCHANGED <<idle, job>>
  BY DEF IdleTimerFires, Retire
<1>5. proc' = [proc EXCEPT ![p] = t] \/ proc' = [proc EXCEPT ![p] = u]
  BY <1>1, ProcIs DEF IdleTimerFires, Retire, PoolInv
<1> QED BY <1>1, <1>3, <1>4, <1>5, TalkAlike

\* The job's record alone; a job that gives up has no process.
LEMMA RecordTalks ==
    ASSUME PoolInv, TalkInv, NEW j \in Job,
           GiveUp(j) \/ StartFails(j) \/ DeadlineFires(j) \/ CancelRun(j) \/ KillClaims(j)
    PROVE  TalkInv'
<1>1. PICK r : r = job[j]
  OBVIOUS
<1>2. r \in JobState /\ UNCHANGED <<idle, proc>> /\ TalkOK(j)
  BY <1>1, ProcIs DEF PoolInv, TalkInv, GiveUp, StartFails, DeadlineFires, CancelRun, KillClaims
<1>3. CASE GiveUp(j) \/ StartFails(j)
  <2>1. PICK t : t = [r EXCEPT !.pc = "over", !.cancel = "spent"]
    OBVIOUS
  <2>2. job' = [job EXCEPT ![j] = t]
    BY <1>1, <1>3, <2>1, ProcIs DEF GiveUp, StartFails, PoolInv
  <2>3. t.pc = "over" /\ t.open = r.open
    BY <1>2, <2>1 DEF JobState
  <2>4. r.pc \in {"queued", "starting"}
    BY <1>1, <1>3 DEF GiveUp, StartFails
  <2>5. ~r.open
    BY <1>1, <1>2, <2>4 DEF TalkOK, JobTalks
  <2> QED BY <1>2, <2>2, <2>3, <2>5, TalkUnheld DEF Holding
<1>4. CASE DeadlineFires(j) \/ CancelRun(j)
  <2>1. PICK t, u : t = [r EXCEPT !.deadline = "fired"] /\ u = [r EXCEPT !.cancel = "fired"]
    OBVIOUS
  <2>2. \A x \in {t, u} : /\ x.pc = r.pc /\ x.worker = r.worker /\ x.open = r.open
                          /\ x.replies = r.replies /\ x.blame = r.blame
    BY <1>2, <2>1 DEF JobState
  <2>3. PICK x \in {t, u} : job' = [job EXCEPT ![j] = x]
    BY <1>1, <1>4, <2>1, ProcIs DEF DeadlineFires, CancelRun, PoolInv
  <2> QED BY <1>1, <1>2, <2>2, <2>3, TalkSilent
<1>5. CASE KillClaims(j)
  <2>1. PICK deadline, cancel, killer :
            /\ deadline = IF Claims(j) THEN "deadline" ELSE r.attempt
            /\ cancel = IF Claims(j) THEN "cancelled" ELSE r.attempt
            /\ killer = (r.killer \/ Claims(j))
    OBVIOUS
  <2>2. PICK t, u : /\ t = [r EXCEPT !.deadline = "spent", !.attempt = deadline,
                                     !.killer = killer]
                    /\ u = [r EXCEPT !.cancel = "spent", !.attempt = cancel,
                                     !.killer = killer]
    OBVIOUS
  <2>3. \A x \in {t, u} : /\ x.pc = r.pc /\ x.worker = r.worker /\ x.open = r.open
                          /\ x.replies = r.replies /\ x.blame = r.blame
    BY <1>2, <2>2 DEF JobState
  <2>4. PICK x \in {t, u} : job' = [job EXCEPT ![j] = x]
    BY <1>1, <1>5, <2>1, <2>2, ProcIs DEF KillClaims, PoolInv
  <2> QED BY <1>1, <1>2, <2>3, <2>4, TalkSilent
<1> QED BY <1>3, <1>4, <1>5

LEMMA ReadCallTalks ==
    ASSUME PoolInv, TalkInv, PoolInv', NEW j \in Job, ReadCall(j)
    PROVE  TalkInv'
<1>1. PICK p, r, s : r = job[j] /\ p = r.worker /\ s = proc[p]
  OBVIOUS
<1>2. r.pc = "running" /\ s.out # <<>> /\ UNCHANGED idle
  BY <1>1 DEF ReadCall
<1>3. p \in Process /\ s \in ProcessState /\ r \in JobState /\ s.out \in Seq(Frame)
  BY <1>1, <1>2, HeldIs, ProcIs DEF PoolInv, Holding, ProcessState
<1>4. PICK frame : frame = Head(s.out)
  OBVIOUS
<1>5. frame.nonce = j /\ frame.type \in CallTypes /\ frame \in Frame
  BY <1>1, <1>2, <1>3, <1>4 DEF ReadCall, CallTypes
<1>6. JobTalks(r, s, j)
  BY <1>1 DEF TalkInv, TalkOK
<1>7. r.open /\ Speaks(s, j) /\ (s.alive => Talks(s, j, r.replies))
  BY <1>2, <1>6 DEF JobTalks
<1>8. PICK t : t = [s EXCEPT !.out = Tail(@)]
  OBVIOUS
<1>9. /\ t \in ProcessState /\ SameLink(s, t) /\ t.in = s.in /\ t.out = Tail(s.out)
      /\ t.alive = s.alive /\ t.broke = s.broke
  <2>1. Tail(s.out) \in Seq(Frame)
    BY <1>2, <1>3
  <2> QED BY <1>3, <1>8, <2>1 DEF ProcessState, SameLink
<1>10. Speaks(t, j)
  <2>1. \A i \in DOMAIN t.out : i + 1 \in DOMAIN s.out /\ t.out[i] = s.out[i + 1]
    BY <1>2, <1>3, <1>9, Beheaded
  <2> QED BY <1>7, <1>9, <2>1 DEF Speaks, IsBad, SameLink
<1>11. s.alive => /\ Talks(t, j, r.replies \cup {frame.id})
                  /\ frame.id \in r.replies => Ended(t, j)
  BY <1>2, <1>3, <1>4, <1>5, <1>7, <1>9, CallRead
<1>12. /\ job[j].pc \in Holding
       /\ p = job[j].worker
  BY <1>1, <1>2 DEF Holding
<1>13. CASE frame.type = "helper" /\ job' = [job EXCEPT ![j].replies = @ \cup {frame.id}]
            /\ proc' = [proc EXCEPT ![p] = t]
  <2>1. PICK u : u = [r EXCEPT !.replies = @ \cup {frame.id}]
    OBVIOUS
  <2>2. u.pc = r.pc /\ u.worker = r.worker /\ u.open = r.open
        /\ u.replies = r.replies \cup {frame.id}
    BY <1>3, <2>1 DEF JobState
  <2>3. JobTalks(u, t, j)
    BY <1>2, <1>7, <1>9, <1>10, <1>11, <2>2 DEF JobTalks
  <2>4. job' = [job EXCEPT ![j] = u]
    BY <1>1, <1>13, <2>1, ProcIs DEF PoolInv
  <2> QED BY <1>1, <1>2, <1>9, <1>12, <1>13, <2>2, <2>3, <2>4, TalkHeld
<1>14. CASE /\ job' = IF s.alive THEN job
                      ELSE [job EXCEPT ![j].pc = "failing", ![j].blame = "eof"]
            /\ proc' = [proc EXCEPT ![p] = Sent(t, Msg("reply", j, frame.id))]
  <2>1. PICK reply : reply = Msg("reply", j, frame.id)
    OBVIOUS
  <2>2. reply \in Frame /\ reply.type = "reply" /\ reply.nonce = j /\ reply.id = frame.id
    BY <1>5, <2>1 DEF Msg, Frame
  <2>3. PICK v : v = Sent(t, reply)
    OBVIOUS
  <2>4. proc' = [proc EXCEPT ![p] = v]
    BY <1>14, <2>1, <2>3
  <2>5. CASE s.alive
    <3>1. v = [t EXCEPT !.in = Append(@, reply)]
      BY <1>9, <2>3, <2>5 DEF Sent
    <3>2. /\ v \in ProcessState /\ SameLink(t, v) /\ v.in = Append(t.in, reply)
          /\ v.out = t.out /\ v.broke = t.broke
      <4>1. Append(t.in, reply) \in Seq(Frame)
        BY <1>9, <2>2 DEF ProcessState
      <4> QED BY <1>9, <3>1, <4>1 DEF ProcessState, SameLink
    <3>3. PICK asked : asked = r.replies \cup {frame.id}
      OBVIOUS
    <3>4. Talks(t, j, asked) /\ reply.id \in asked
      BY <1>11, <2>2, <2>5, <3>3
    <3>5. Talks(v, j, asked \ {reply.id}) /\ (Ended(t, j) => Ended(v, j))
      BY <1>9, <2>2, <3>2, <3>4, ReplySent
    <3>6. Talks(v, j, r.replies)
      <4>1. CASE frame.id \in r.replies
        BY <1>11, <2>5, <3>5, <4>1 DEF Talks
      <4>2. CASE frame.id \notin r.replies
        <5>1. asked \ {reply.id} = r.replies
          BY <2>2, <3>3, <4>2
        <5> QED BY <3>5, <5>1
      <4> QED BY <4>1, <4>2
    <3>7. Speaks(v, j)
      BY <1>10, <3>2 DEF Speaks, IsBad, SameLink
    <3>8. JobTalks(r, v, j)
      BY <1>2, <1>7, <3>6, <3>7 DEF JobTalks
    <3>9. job' = [job EXCEPT ![j] = r]
      BY <1>1, <1>14, <2>5, ProcIs DEF PoolInv
    <3> QED BY <1>1, <1>2, <1>9, <1>12, <2>4, <3>2, <3>8, <3>9, TalkHeld
  <2>6. CASE ~s.alive
    <3>1. v = t
      BY <1>9, <2>3, <2>6 DEF Sent
    <3>2. PICK u : u = [r EXCEPT !.pc = "failing", !.blame = "eof"]
      OBVIOUS
    <3>3. u.pc = "failing" /\ u.blame = "eof" /\ u.worker = r.worker /\ u.open = r.open
      BY <1>3, <3>2 DEF JobState
    <3>4. JobTalks(u, v, j)
      BY <1>7, <1>9, <1>10, <2>6, <3>1, <3>3 DEF JobTalks
    <3>5. job' = [job EXCEPT ![j] = u]
      BY <1>1, <1>14, <2>6, <3>2, ProcIs DEF PoolInv
    <3> QED BY <1>1, <1>2, <1>9, <1>12, <2>4, <3>1, <3>3, <3>4, <3>5, TalkHeld
  <2> QED BY <2>5, <2>6
<1> QED BY <1>1, <1>4, <1>8, <1>13, <1>14 DEF ReadCall

LEMMA ReadDoneTalks ==
    ASSUME PoolInv, TalkInv, PoolInv', NEW j \in Job, NEW spoiled \in BOOLEAN,
           ReadDone(j, spoiled)
    PROVE  TalkInv'
<1>1. PICK p, r, s : r = job[j] /\ p = r.worker /\ s = proc[p]
  OBVIOUS
<1>2. r.pc = "running" /\ s.out # <<>> /\ Head(s.out).type = "done" /\ UNCHANGED idle
  BY <1>1 DEF ReadDone
<1>3. p \in Process /\ s \in ProcessState /\ r \in JobState
  BY <1>1, <1>2, HeldIs, ProcIs DEF PoolInv, Holding
<1>4. JobTalks(r, s, j)
  BY <1>1 DEF TalkInv, TalkOK
<1>5. PICK left \in BOOLEAN :
         proc' = [proc EXCEPT ![p].out = Tail(s.out), ![p].runs = @ + 1,
                              ![p].healthy = @ /\ StaysHealthy(j, spoiled, left)]
  BY <1>1 DEF ReadDone
<1>6. PICK healthy : healthy = (s.healthy /\ StaysHealthy(j, spoiled, left))
  OBVIOUS
<1>7. PICK t : t = [s EXCEPT !.out = Tail(s.out), !.runs = @ + 1, !.healthy = healthy]
  OBVIOUS
<1>8. proc' = [proc EXCEPT ![p] = t]
  BY <1>1, <1>5, <1>6, <1>7, ProcIs DEF PoolInv
<1>9. t \in ProcessState
  <2>1. proc'[p] = t
    BY <1>3, <1>8 DEF PoolInv, Types
  <2> QED BY <1>3, <2>1 DEF PoolInv, Types
<1>10. /\ SameLink(s, t) /\ t.in = s.in /\ t.out = Tail(s.out)
       /\ t.alive = s.alive /\ t.broke = s.broke
  BY <1>3, <1>7 DEF ProcessState, SameLink
<1>11. s.alive => Rests(t)
  <2>1. s.alive => Talks(s, j, r.replies)
    BY <1>2, <1>4 DEF JobTalks
  <2> QED BY <1>2, <1>3, <1>9, <1>10, <2>1, DoneRead
<1>12. PICK attempt : attempt = IF r.attempt = "running" THEN "finished" ELSE r.attempt
  OBVIOUS
<1>13. PICK u : u = [r EXCEPT !.pc = "putting", !.open = FALSE, !.attempt = attempt]
  OBVIOUS
<1>14. u.pc = "putting" /\ ~u.open /\ u.worker = p
  BY <1>1, <1>3, <1>13 DEF JobState
<1>15. job' = [job EXCEPT ![j] = u]
  BY <1>1, <1>12, <1>13, ProcIs DEF ReadDone, PoolInv
<1>16. JobTalks(u, t, j)
  BY <1>10, <1>11, <1>14 DEF JobTalks
<1>17. job[j].pc \in Holding
  BY <1>1, <1>2 DEF Holding
<1> QED BY <1>1, <1>2, <1>8, <1>10, <1>14, <1>15, <1>16, <1>17, TalkHeld

\* Only a frame that is bad is out of turn.
LEMMA ReadFailsTalks ==
    ASSUME PoolInv, TalkInv, NEW j \in Job, ReadFails(j)
    PROVE  TalkInv'
<1>1. PICK p, r, s : r = job[j] /\ p = r.worker /\ s = proc[p]
  OBVIOUS
<1>2. r.pc = "running" /\ UNCHANGED <<idle, proc>>
  BY <1>1 DEF ReadFails
<1>3. p \in Process /\ s \in ProcessState /\ r \in JobState /\ s.out \in Seq(Frame)
  BY <1>1, <1>2, HeldIs, ProcIs DEF PoolInv, Holding, ProcessState
<1>4. JobTalks(r, s, j)
  BY <1>1 DEF TalkInv, TalkOK
<1>5. PICK eof, protocol : /\ eof = [r EXCEPT !.pc = "failing", !.blame = "eof"]
                           /\ protocol = [r EXCEPT !.pc = "failing", !.blame = "protocol"]
  OBVIOUS
<1>6. /\ eof.pc = "failing" /\ eof.blame = "eof" /\ eof.worker = p /\ eof.open = r.open
      /\ eof.replies = r.replies
      /\ protocol.pc = "failing" /\ protocol.worker = p /\ protocol.open = r.open
      /\ protocol.replies = r.replies
  BY <1>1, <1>3, <1>5 DEF JobState
<1>7. \/ job' = [job EXCEPT ![j] = eof]
      \/ /\ job' = [job EXCEPT ![j] = protocol] /\ s.out # <<>>
         /\ Head(s.out).nonce # j \/ Head(s.out).type \notin {"question", "helper", "done"}
  BY <1>1, <1>5, ProcIs DEF ReadFails, PoolInv
<1>8. proc' = [proc EXCEPT ![p] = s] /\ s.broke = proc[p].broke /\ job[j].pc \in Holding
  BY <1>1, <1>2, <1>3, ProcIs DEF PoolInv, Holding
<1>9. CASE job' = [job EXCEPT ![j] = eof]
  <2>1. JobTalks(eof, s, j)
    BY <1>2, <1>4, <1>6 DEF JobTalks
  <2> QED BY <1>1, <1>2, <1>6, <1>8, <1>9, <2>1, TalkHeld
<1>10. CASE /\ job' = [job EXCEPT ![j] = protocol] /\ s.out # <<>>
            /\ Head(s.out).nonce # j \/ Head(s.out).type \notin {"question", "helper", "done"}
  <2>1. Head(s.out) = s.out[1] /\ 1 \in DOMAIN s.out
    BY <1>3, <1>10, Beheaded
  <2>2. s.bad
    BY <1>2, <1>4, <1>10, <2>1 DEF JobTalks, Speaks, IsBad, CallTypes
  <2>3. JobTalks(protocol, s, j)
    BY <1>2, <1>4, <1>6, <2>2 DEF JobTalks
  <2> QED BY <1>1, <1>2, <1>6, <1>8, <1>10, <2>3, TalkHeld
<1> QED BY <1>7, <1>9, <1>10

LEMMA FailTalks ==
    ASSUME PoolInv, TalkInv, NEW j \in Job, Fail(j)
    PROVE  TalkInv'
<1>1. PICK p, r, s : r = job[j] /\ p = r.worker /\ s = proc[p]
  OBVIOUS
<1>2. r.pc = "failing" /\ UNCHANGED idle
  BY <1>1 DEF Fail
<1>3. p \in Process /\ s \in ProcessState /\ r \in JobState
  BY <1>1, <1>2, HeldIs, ProcIs DEF PoolInv, Holding
<1>4. PICK t : t = [Killed(s) EXCEPT !.healthy = FALSE]
  OBVIOUS
<1>5. ~t.alive /\ t.broke = s.broke
  BY <1>3, <1>4 DEF ProcessState, Killed
<1>6. proc' = [proc EXCEPT ![p] = t]
  BY <1>1, <1>4, ProcIs DEF Fail, PoolInv
<1>7. PICK attempt : attempt = IF r.attempt = "running" THEN "broken" ELSE r.attempt
  OBVIOUS
<1>8. PICK u : u = [r EXCEPT !.pc = "putting", !.open = FALSE, !.attempt = attempt,
                             !.blame = "none"]
  OBVIOUS
<1>9. u.pc = "putting" /\ ~u.open /\ u.worker = p
  BY <1>1, <1>3, <1>8 DEF JobState
<1>10. job' = [job EXCEPT ![j] = u]
  BY <1>1, <1>7, <1>8, ProcIs DEF Fail, PoolInv
<1>11. JobTalks(u, t, j)
  BY <1>5, <1>9 DEF JobTalks
<1>12. job[j].pc \in Holding
  BY <1>1, <1>2 DEF Holding
<1> QED BY <1>1, <1>2, <1>5, <1>6, <1>9, <1>10, <1>11, <1>12, TalkHeld

LEMMA HelperAnswersTalks ==
    ASSUME PoolInv, TalkInv, PoolInv', NEW j \in Job, NEW id \in job[j].replies,
           HelperAnswers(j, id)
    PROVE  TalkInv'
<1>1. PICK p, r, s : r = job[j] /\ p = r.worker /\ s = proc[p]
  OBVIOUS
<1>2. r \in JobState /\ id \in Nat /\ id \in r.replies /\ UNCHANGED idle
  BY <1>1, ProcIs DEF PoolInv, HelperAnswers, JobState
<1>3. JobTalks(r, s, j)
  BY <1>1 DEF TalkInv, TalkOK
<1>4. PICK u : u = [r EXCEPT !.replies = @ \ {id}]
  OBVIOUS
<1>5. /\ u.pc = r.pc /\ u.worker = r.worker /\ u.open = r.open /\ u.blame = r.blame
      /\ u.replies = r.replies \ {id}
  BY <1>2, <1>4 DEF JobState
<1>6. job' = [job EXCEPT ![j] = u]
  BY <1>1, <1>4, ProcIs DEF HelperAnswers, PoolInv
<1>7. CASE r.open
  <2>1. r.pc \in {"running", "failing"} /\ Speaks(s, j) /\ (s.alive => Talks(s, j, r.replies))
    BY <1>3, <1>7 DEF JobTalks
  <2>2. p \in Process /\ s \in ProcessState /\ job[j].pc \in Holding
    BY <1>1, <2>1, HeldIs, ProcIs DEF PoolInv, Holding
  <2>3. PICK reply : reply = Msg("reply", j, id)
    OBVIOUS
  <2>4. reply \in Frame /\ reply.type = "reply" /\ reply.nonce = j /\ reply.id = id
    BY <1>2, <2>3 DEF Msg, Frame
  <2>5. PICK t : t = Sent(s, reply)
    OBVIOUS
  <2>6. proc' = [proc EXCEPT ![p] = t]
    BY <1>1, <1>7, <2>3, <2>5 DEF HelperAnswers, MayWrite
  <2>7. CASE s.alive
    <3>1. t = [s EXCEPT !.in = Append(@, reply)]
      BY <2>5, <2>7 DEF Sent
    <3>2. /\ t \in ProcessState /\ SameLink(s, t) /\ t.in = Append(s.in, reply)
          /\ t.out = s.out /\ t.broke = s.broke
      <4>1. Append(s.in, reply) \in Seq(Frame)
        BY <2>2, <2>4 DEF ProcessState
      <4> QED BY <2>2, <3>1, <4>1 DEF ProcessState, SameLink
    <3>3. PICK replies : replies = r.replies
      OBVIOUS
    <3>4. Talks(s, j, replies) /\ reply.id \in replies
      BY <1>2, <2>1, <2>4, <2>7, <3>3
    <3>5. Talks(t, j, replies \ {reply.id})
      BY <2>2, <2>4, <3>2, <3>4, ReplySent
    <3>6. Talks(t, j, u.replies)
      BY <1>5, <2>4, <3>3, <3>5
    <3>7. Speaks(t, j) /\ t.bad = s.bad
      BY <2>1, <3>2 DEF Speaks, IsBad, SameLink
    <3>8. JobTalks(u, t, j)
      BY <1>3, <1>5, <2>1, <3>6, <3>7 DEF JobTalks
    <3> QED BY <1>1, <1>2, <1>5, <1>6, <2>2, <2>6, <3>2, <3>8, TalkHeld
  <2>8. CASE ~s.alive
    <3>1. t = s
      BY <2>5, <2>8 DEF Sent
    <3>2. JobTalks(u, t, j)
      BY <1>3, <1>5, <2>1, <2>8, <3>1 DEF JobTalks
    <3> QED BY <1>1, <1>2, <1>5, <1>6, <2>2, <2>6, <3>1, <3>2, TalkHeld
  <2> QED BY <2>7, <2>8
<1>8. CASE ~r.open
  <2>1. UNCHANGED <<idle, proc>>
    BY <1>1, <1>2, <1>8 DEF HelperAnswers, MayWrite
  <2>2. u.pc \notin {"running", "failing"} /\ u.pc \notin {"queued", "starting"} /\ ~u.open
    BY <1>2, <1>3, <1>5, <1>8 DEF JobTalks
  <2>3. CASE u.pc = "putting"
    <3>1. JobTalks(u, s, j)
      BY <1>3, <1>5, <2>2, <2>3 DEF JobTalks
    <3>2. job[j].pc \in Holding
      BY <1>1, <1>5, <2>3 DEF Holding
    <3>3. proc' = [proc EXCEPT ![p] = s]
      BY <1>1, <2>1, ProcIs DEF PoolInv
    <3> QED BY <1>1, <1>2, <1>5, <1>6, <3>1, <3>2, <3>3, TalkHeld
  <2>4. CASE u.pc # "putting"
    <3>1. u.pc \notin Holding
      BY <2>2, <2>4 DEF Holding
    <3> QED BY <1>6, <2>1, <2>2, <3>1, TalkUnheld
  <2> QED BY <2>3, <2>4
<1> QED BY <1>2, <1>7, <1>8 DEF JobState

\* A kill reaches the job's own process, or one that nobody listens to.
LEMMA KillTalks ==
    ASSUME PoolInv, TalkInv, NEW j \in Job, Kill(j)
    PROVE  TalkInv'
<1>1. PICK p, r, s : r = job[j] /\ p = r.worker /\ s = proc[p]
  OBVIOUS
<1>2. r.killer /\ r \in JobState /\ JobOK(j) /\ UNCHANGED idle /\ JobTalks(r, s, j)
  BY <1>1, ProcIs DEF PoolInv, Kill, TalkInv, TalkOK
<1>3. p \in Process /\ (r.pc \in Holding \/ Gone(p))
  BY <1>1, <1>2 DEF JobOK
<1>4. s \in ProcessState
  BY <1>1, <1>3, ProcIs DEF PoolInv
<1>5. PICK u, t : u = [r EXCEPT !.killer = FALSE] /\ t = Killed(s)
  OBVIOUS
<1>6. /\ u.pc = r.pc /\ u.worker = p /\ u.open = r.open /\ u.blame = r.blame
      /\ u.replies = r.replies
  BY <1>1, <1>2, <1>5 DEF JobState
<1>7. ~t.alive /\ t.out = s.out /\ t.bad = s.bad /\ t.broke = s.broke
  BY <1>4, <1>5 DEF ProcessState, Killed
<1>8. job' = [job EXCEPT ![j] = u] /\ proc' = [proc EXCEPT ![p] = t]
  BY <1>1, <1>5, ProcIs DEF Kill, PoolInv
<1>9. Speaks(s, j) => Speaks(t, j)
  BY <1>7 DEF Speaks, IsBad
<1>10. JobTalks(u, t, j)
  BY <1>2, <1>6, <1>7, <1>9 DEF JobTalks
<1>11. CASE r.pc \in Holding
  BY <1>1, <1>2, <1>6, <1>7, <1>8, <1>10, <1>11, TalkHeld
<1>12. CASE r.pc \notin Holding
  <2>1. Gone(p)
    BY <1>3, <1>12
  <2>2. /\ job'[j] = u /\ (\A k \in Job \ {j} : job'[k] = job[k])
        /\ proc'[p] = t /\ (\A q \in Process \ {p} : proc'[q] = proc[q])
    BY <1>3, <1>8 DEF PoolInv, Types
  <2>3. PICK P : P = {p}
    OBVIOUS
  <2>4. QuietOK(p)'
    BY <1>1, <1>3, <1>7, <2>2 DEF QuietOK, TalkInv
  <2>5. /\ P \in SUBSET Process /\ \A q \in P : QuietOK(q)'
        /\ \A q \in Process \ P : proc'[q] = proc[q] /\ (q \in idle' => q \in idle)
        /\ \A k \in Job \ {j} : job[k].pc \in Holding => job[k].worker \notin P
    BY <1>2, <1>3, <2>1, <2>2, <2>3, <2>4 DEF Gone
  <2>6. TalkOK(j)'
    BY <1>6, <1>10, <2>2 DEF TalkOK
  <2> QED BY <2>2, <2>5, <2>6, TalkStep
<1> QED BY <1>11, <1>12

LEMMA StoppedIsQuiet == ~Stopped.broke /\ ~Stopped.alive
BY DEF Stopped, NoProcess

\* A worker that is put back waits for nothing and has nothing left to say that
\* is not bad.
LEMMA PutTalks ==
    ASSUME PoolInv, TalkInv, NEW j \in Job, Put(j)
    PROVE  TalkInv'
<1>1. PICK p, r, s : r = job[j] /\ p = r.worker /\ s = proc[p]
  OBVIOUS
<1>2. r.pc = "putting" /\ r \in JobState /\ JobTalks(r, s, j) /\ job[j].pc \in Holding
  BY <1>1, ProcIs DEF PoolInv, Put, TalkInv, TalkOK, Holding
<1>3. p \in Process /\ p \notin idle /\ s \in ProcessState
  BY <1>1, <1>2, HeldIs, ProcIs DEF PoolInv
<1>4. PICK begun : begun = (r.killer \/ "fired" \in {r.deadline, r.cancel})
  OBVIOUS
<1>5. PICK deadline, cancel, worker :
          /\ deadline = IF r.deadline = "fired" THEN r.deadline ELSE "spent"
          /\ cancel = IF r.cancel = "fired" THEN r.cancel ELSE "spent"
          /\ worker = IF begun THEN r.worker ELSE None
  OBVIOUS
<1>6. PICK u : u = [r EXCEPT !.pc = "over", !.deadline = deadline, !.cancel = cancel,
                             !.worker = worker]
  OBVIOUS
<1>7. job' = [job EXCEPT ![j] = u]
  BY <1>1, <1>4, <1>5, <1>6, ProcIs DEF Put, PoolInv
<1>8. u.pc = "over" /\ ~u.open
  BY <1>2, <1>6 DEF JobState, JobTalks
<1>9. \A x : JobTalks(u, x, j)
  BY <1>8 DEF JobTalks
<1>10. job'[j] = u /\ (\A k \in Job \ {j} : job'[k] = job[k])
  BY <1>7, JobBecomes DEF PoolInv
<1>11. PICK since : since = Cardinality({k \in Job : job[k].pc = "over"}) + 1
  OBVIOUS
<1>12. PICK t, stopped : t = [s EXCEPT !.timer = "armed", !.since = since] /\ stopped = Stopped
  OBVIOUS
<1>13. \/ proc' = [proc EXCEPT ![p] = stopped] /\ UNCHANGED idle
       \/ proc' = [proc EXCEPT ![p] = t] /\ idle' = idle \cup {p}
  <2>1. CASE Spent(p) \/ closed
    BY <1>1, <1>12, <2>1 DEF Put
  <2>2. CASE ~(Spent(p) \/ closed)
    BY <1>1, <1>11, <1>12, <2>2, ProcIs DEF Put, PoolInv
  <2> QED BY <2>1, <2>2
<1>14. PICK x \in {t, stopped} : proc' = [proc EXCEPT ![p] = x]
  BY <1>13
<1>15. proc'[p] = x /\ (\A q \in Process \ {p} : proc'[q] = proc[q])
  BY <1>3, <1>14 DEF PoolInv, Types
<1>16. ~x.broke /\ (x.alive => Rests(x))
  <2>1. Alike(s, t) /\ (s.alive => Rests(s)) /\ ~s.broke
    BY <1>1, <1>2, <1>3, <1>12 DEF Alike, SameLink, ProcessState, JobTalks, TalkInv, QuietOK
  <2>2. ~t.broke /\ (t.alive => Rests(t))
    BY <2>1, AlikeTalks DEF Alike
  <2> QED BY <1>12, <1>14, <2>2, StoppedIsQuiet
<1>17. QuietOK(p)' /\ TalkOK(j)'
  BY <1>9, <1>10, <1>15, <1>16 DEF QuietOK, TalkOK
<1>18. PICK P : P = {p}
  OBVIOUS
<1>19. /\ P \in SUBSET Process /\ \A q \in P : QuietOK(q)'
       /\ \A q \in Process \ P : proc'[q] = proc[q] /\ (q \in idle' => q \in idle)
  BY <1>3, <1>13, <1>15, <1>17, <1>18
<1>20. \A k \in Job \ {j} : job[k].pc \in Holding => job[k].worker \notin P
  BY <1>1, <1>2, <1>18 DEF PoolInv, Exclusive
<1> QED BY <1>10, <1>17, <1>19, <1>20, TalkStep

\* Workers are stopped in the idle list.
LEMMA DroppedTalks ==
    ASSUME PoolInv, TalkInv, NEW gone \in SUBSET idle, Dropped(gone), NEW j,
           \A k \in Job \ {j} : job'[k] = job[k], j \in Job => TalkOK(j)'
    PROVE  TalkInv'
<1>1. /\ idle' = idle \ gone /\ gone \in SUBSET Process
      /\ \A q \in Process : proc'[q] = IF q \in gone THEN Stopped ELSE proc[q]
  BY DEF Dropped, PoolInv, Types
<1>2. \A q \in gone : QuietOK(q)'
  BY <1>1, StoppedIsQuiet DEF QuietOK
<1>3. \A q \in Process \ gone : proc'[q] = proc[q] /\ (q \in idle' => q \in idle)
  BY <1>1
<1>4. \A k \in Job \ {j} : job[k].pc \in Holding => job[k].worker \notin gone
  BY HeldIs
<1> QED BY <1>1, <1>2, <1>3, <1>4, TalkStep

LEMMA ListTalks ==
    ASSUME PoolInv, TalkInv, Close \/ \E p \in idle : Retire(p)
    PROVE  TalkInv'
<1>1. UNCHANGED job /\ None \notin Job
  BY Finite DEF Close, Retire
<1>2. CASE Close
  BY <1>1, <1>2, DroppedTalks DEF Close
<1>3. ASSUME NEW p \in idle, Retire(p) PROVE TalkInv'
  <2>1. proc = [q \in Process |-> proc[q]]
    BY ProcIs DEF PoolInv
  <2>2. PICK gone : gone = {p}
    OBVIOUS
  <2>3. Dropped(gone) /\ gone \in SUBSET idle
    BY <1>3, <2>1, <2>2 DEF Dropped, Retire
  <2> QED BY <1>1, <2>3, DroppedTalks
<1> QED BY <1>2, <1>3

LEMMA TakeFreshTalks ==
    ASSUME PoolInv, TalkInv, NEW j \in Job, TakeFresh(j)
    PROVE  TalkInv'
<1>1. PICK r : r = job[j]
  OBVIOUS
<1>2. r \in JobState /\ r.pc = "queued" /\ TalkOK(j)
  BY <1>1, ProcIs DEF PoolInv, TakeFresh, Acquire, TalkInv
<1>3. ~r.open /\ r.replies = {}
  BY <1>1, <1>2 DEF TalkOK, JobTalks
<1>4. PICK pc \in {"over", "starting"} : pc = IF closed THEN "over" ELSE "starting"
  OBVIOUS
<1>5. PICK u : u = [r EXCEPT !.pc = pc]
  OBVIOUS
<1>6. u.pc \in {"over", "starting"} /\ ~u.open /\ u.replies = {}
  BY <1>2, <1>3, <1>5 DEF JobState
<1>7. job' = [job EXCEPT ![j] = u]
  BY <1>1, <1>4, <1>5, ProcIs DEF TakeFresh, PoolInv
<1>8. job'[j] = u /\ (\A k \in Job \ {j} : job'[k] = job[k])
  BY <1>7, JobBecomes DEF PoolInv
<1>9. TalkOK(j)'
  BY <1>6, <1>8 DEF TalkOK, JobTalks
<1>10. PICK dead : dead = MetDead(j)
  OBVIOUS
<1>11. dead \in SUBSET idle
  BY <1>10 DEF MetDead
<1>12. Dropped(dead) \/ \E first \in idle \ dead : Dropped(dead \cup {first})
  BY <1>10 DEF TakeFresh
<1>13. PICK gone \in SUBSET idle : Dropped(gone)
  <2>1. CASE Dropped(dead)
    BY <1>11, <2>1
  <2>2. CASE \E first \in idle \ dead : Dropped(dead \cup {first})
    <3>1. PICK first \in idle \ dead : Dropped(dead \cup {first})
      BY <2>2
    <3>2. dead \cup {first} \in SUBSET idle
      BY <1>11
    <3> QED BY <3>1, <3>2
  <2> QED BY <1>12, <2>1, <2>2
<1> QED BY <1>8, <1>9, <1>13, DroppedTalks

\* A process that has just started has been told nothing before its job.
LEMMA StartWorkerTalks ==
    ASSUME PoolInv, TalkInv, PoolInv', NEW j \in Job, StartWorker(j)
    PROVE  TalkInv'
<1>1. PICK r : r = job[j]
  OBVIOUS
<1>2. r \in JobState /\ r.pc = "starting" /\ TalkOK(j) /\ UNCHANGED idle /\ j \in Process
  BY <1>1, Finite, ProcIs DEF PoolInv, StartWorker, TalkInv
<1>3. r.replies = {}
  BY <1>1, <1>2 DEF TalkOK, JobTalks
<1>4. PICK frame, none : frame = Msg("run", j, 0) /\ none = NoProcess
  OBVIOUS
<1>5. frame \in Frame /\ frame.type = "run" /\ frame.nonce = j
  BY <1>4 DEF Msg, Frame
<1>6. none \in ProcessState /\ none.in = <<>> /\ none.out = <<>> /\ none.current = None
      /\ none.waiting = {} /\ ~none.broke
  BY <1>4, StoppedIs DEF Stopped, NoProcess
<1>6a. PICK late \in {"none", "begun"} :
          proc' = [proc EXCEPT ![j] =
              Sent([NoProcess EXCEPT !.alive = TRUE, !.tenant = TenantOf[j],
                                     !.served = {TenantOf[j]}, !.late = late],
                   Msg("run", j, 0))]
  BY DEF StartWorker
<1>7. PICK t : t = [none EXCEPT !.alive = TRUE, !.tenant = TenantOf[j],
                                !.served = {TenantOf[j]}, !.late = late]
  OBVIOUS
<1>8. t \in ProcessState /\ SameLink(none, t) /\ t.in = none.in /\ t.out = none.out /\ t.alive
      /\ ~t.broke
  <2>1. PICK tenant, served : tenant = TenantOf[j] /\ served = {TenantOf[j]}
    OBVIOUS
  <2>2. tenant \in Tenant /\ served \in SUBSET Tenant
    BY <1>2, <2>1 DEF Tenant
  <2>3. t = [none EXCEPT !.alive = TRUE, !.tenant = tenant, !.served = served, !.late = late]
    BY <1>7, <2>1
  <2> QED BY <1>6, <2>2, <2>3 DEF ProcessState, SameLink
<1>9. Rests(t)
  <2>1. Len(t.in) = 0 /\ DOMAIN t.out = {}
    BY <1>6, <1>8
  <2> QED BY <1>6, <1>8, <2>1 DEF Rests, LateReplies, AllBad, SameLink
<1>10. PICK s : s = Sent(t, frame)
  OBVIOUS
<1>11. s = [t EXCEPT !.in = Append(@, frame)]
  BY <1>8, <1>10 DEF Sent
<1>12. /\ s \in ProcessState /\ SameLink(t, s) /\ s.in = Append(t.in, frame)
       /\ s.out = t.out /\ ~s.broke
  <2>1. Append(t.in, frame) \in Seq(Frame)
    BY <1>5, <1>8 DEF ProcessState
  <2> QED BY <1>8, <1>11, <2>1 DEF ProcessState, SameLink
<1>13. Awaits(s, j, {}) /\ Speaks(s, j)
  BY <1>5, <1>8, <1>9, <1>12, RunSent
<1>14. proc' = [proc EXCEPT ![j] = s]
  BY <1>4, <1>6a, <1>7, <1>10
<1>15. PICK u : u = [r EXCEPT !.pc = "running", !.worker = j, !.open = TRUE]
  OBVIOUS
<1>16. u.pc = "running" /\ u.worker = j /\ u.open /\ u.replies = {}
  BY <1>2, <1>3, <1>15 DEF JobState
<1>17. job' = [job EXCEPT ![j] = u]
  BY <1>1, <1>15, ProcIs DEF StartWorker, PoolInv
<1>18. /\ job'[j] = u /\ (\A k \in Job \ {j} : job'[k] = job[k])
       /\ proc'[j] = s /\ (\A q \in Process \ {j} : proc'[q] = proc[q])
  BY <1>2, <1>14, <1>17 DEF PoolInv, Types
<1>19. TalkOK(j)'
  BY <1>13, <1>16, <1>18 DEF TalkOK, JobTalks, Talks
<1>20. ~Known(j)
  BY <1>1, <1>2, Finite DEF Known
<1>21. j \notin idle /\ \A k \in Job : job[k].worker # j
  BY <1>2, <1>20, Finite DEF PoolInv, ProcOK, JobOK
<1>22. QuietOK(j)'
  BY <1>2, <1>12, <1>18, <1>21 DEF QuietOK
<1>23. PICK P : P = {j}
  OBVIOUS
<1>24. /\ P \in SUBSET Process /\ \A q \in P : QuietOK(q)'
       /\ \A q \in Process \ P : proc'[q] = proc[q] /\ (q \in idle' => q \in idle)
       /\ \A k \in Job \ {j} : job[k].pc \in Holding => job[k].worker \notin P
  BY <1>2, <1>18, <1>21, <1>22, <1>23
<1> QED BY <1>18, <1>19, <1>24, TalkStep

LEMMA TakeIdleTalks ==
    ASSUME PoolInv, TalkInv, NEW j \in Job, TakeIdle(j)
    PROVE  TalkInv'
<1>1. PICK dead : dead = MetDead(j)
  OBVIOUS
<1>2. PICK p \in Usable(j) : Handed(j, p, proc[p]) /\ idle' = idle \ (dead \cup {p})
  BY <1>1 DEF TakeIdle
<1>3. PICK r, x, stopped : r = job[j] /\ x = proc[p] /\ stopped = Stopped
  OBVIOUS
<1>4. p \in idle /\ x.alive /\ dead \in SUBSET idle /\ p \notin dead /\ p \in Process
      /\ dead \in SUBSET Process
  BY <1>1, <1>2, <1>3 DEF Usable, MetDead, PoolInv, Types
<1>5. r \in JobState /\ x \in ProcessState /\ r.pc = "queued"
  BY <1>3, <1>4, ProcIs DEF PoolInv, TakeIdle, Acquire
<1>6. r.replies = {} /\ Rests(x) /\ ~x.broke
  BY <1>3, <1>4, <1>5 DEF TalkInv, TalkOK, JobTalks, QuietOK
<1>7. PICK frame : frame = Msg("run", j, 0)
  OBVIOUS
<1>8. frame \in Frame /\ frame.type = "run" /\ frame.nonce = j
  BY <1>7 DEF Msg, Frame
<1>9. PICK t : t = [x EXCEPT !.tenant = TenantOf[j], !.timer = "off", !.since = 0,
                             !.served = @ \cup {TenantOf[j]}]
  OBVIOUS
<1>10. t \in ProcessState /\ Alike(x, t)
  <2>1. PICK tenant, served : tenant = TenantOf[j] /\ served = x.served \cup {TenantOf[j]}
    OBVIOUS
  <2>2. tenant \in Tenant /\ served \in SUBSET Tenant
    BY <1>5, <2>1, Finite DEF Tenant, ProcessState
  <2>3. t = [x EXCEPT !.tenant = tenant, !.timer = "off", !.since = 0, !.served = served]
    BY <1>9, <2>1
  <2> QED BY <1>5, <2>2, <2>3 DEF ProcessState, Alike, SameLink
<1>11. Rests(t) /\ t.alive /\ ~t.broke
  BY <1>4, <1>6, <1>10, AlikeTalks DEF Alike
<1>12. PICK s : s = Sent(t, frame)
  OBVIOUS
<1>13. s = [t EXCEPT !.in = Append(@, frame)]
  BY <1>11, <1>12 DEF Sent
<1>14. /\ s \in ProcessState /\ SameLink(t, s) /\ s.in = Append(t.in, frame)
       /\ s.out = t.out /\ ~s.broke
  <2>1. Append(t.in, frame) \in Seq(Frame)
    BY <1>8, <1>10 DEF ProcessState
  <2> QED BY <1>10, <1>11, <1>13, <2>1 DEF ProcessState, SameLink
<1>15. Awaits(s, j, {}) /\ Speaks(s, j)
  BY <1>8, <1>10, <1>11, <1>14, RunSent
<1>16. proc' = [q \in Process |-> IF q = p THEN s ELSE IF q \in dead THEN stopped ELSE proc[q]]
  BY <1>1, <1>2, <1>3, <1>7, <1>9, <1>12 DEF Handed
<1>17. /\ proc'[p] = s /\ (\A q \in dead : proc'[q] = stopped)
       /\ (\A q \in Process \ (dead \cup {p}) : proc'[q] = proc[q])
  BY <1>4, <1>16
<1>18. PICK u : u = [r EXCEPT !.pc = "running", !.worker = p, !.open = TRUE]
  OBVIOUS
<1>19. u.pc = "running" /\ u.worker = p /\ u.open /\ u.replies = {}
  BY <1>5, <1>6, <1>18 DEF JobState
<1>20. job' = [job EXCEPT ![j] = u]
  BY <1>2, <1>3, <1>18, ProcIs DEF Handed, PoolInv
<1>21. job'[j] = u /\ (\A k \in Job \ {j} : job'[k] = job[k])
  BY <1>20, JobBecomes DEF PoolInv
<1>22. TalkOK(j)'
  BY <1>15, <1>17, <1>19, <1>21 DEF TalkOK, JobTalks, Talks
<1>23. PICK P : P = dead \cup {p}
  OBVIOUS
<1>24. ASSUME NEW q \in P PROVE QuietOK(q)'
  <2>1. q \notin idle'
    BY <1>2, <1>23
  <2>2. ~proc'[q].broke
    <3>1. CASE q = p
      BY <1>14, <1>17, <3>1
    <3>2. CASE q \in dead
      BY <1>3, <1>17, <3>2, StoppedIsQuiet
    <3> QED BY <1>23, <3>1, <3>2
  <2> QED BY <2>1, <2>2 DEF QuietOK
<1>25. \A q \in Process \ P : proc'[q] = proc[q] /\ (q \in idle' => q \in idle)
  BY <1>2, <1>17, <1>23
<1>26. \A k \in Job \ {j} : job[k].pc \in Holding => job[k].worker \notin P
  BY <1>4, <1>23, HeldIs
<1>27. P \in SUBSET Process
  BY <1>4, <1>23
<1> QED BY <1>21, <1>22, <1>24, <1>25, <1>26, <1>27, TalkStep

LEMMA InitTalks ==
    ASSUME Init
    PROVE  TalkInv
<1>1. idle = {0} /\ job = [j \in Job |-> NewJob]
  BY DEF Init
<1>2. \A j \in Job : TalkOK(j)
  BY <1>1 DEF TalkOK, JobTalks, NewJob
<1>3. PICK runs, tenant, late :
          proc = [p \in Process |->
              IF p # 0 THEN NoProcess
              ELSE [NoProcess EXCEPT !.alive = TRUE, !.timer = "armed", !.late = late,
                       !.runs = runs, !.tenant = tenant, !.served = {tenant} \ {NoTenant}]]
  <2> DEFINE Started(r, t, l) == [p \in Process |->
              IF p # 0 THEN NoProcess
              ELSE [NoProcess EXCEPT !.alive = TRUE, !.timer = "armed", !.late = l,
                       !.runs = r, !.tenant = t, !.served = {t} \ {NoTenant}]]
  <2>1. \E r \in {0, 1} : proc = Started(r, IF r = 0 THEN NoTenant ELSE TenantOf[0],
                                      IF faults = 1 THEN "begun" ELSE "none")
    BY DEF Init
  <2>2. \E r, t, l : proc = Started(r, t, l)
    <3> HIDE DEF Started
    <3> QED BY <2>1
  <2> QED BY <2>2
<1>4. PICK none, s : /\ none = NoProcess
                     /\ s = [NoProcess EXCEPT !.alive = TRUE, !.timer = "armed",
                                !.late = late, !.runs = runs, !.tenant = tenant, !.served = {tenant} \ {NoTenant}]
  OBVIOUS
<1>5. s.in = <<>> /\ s.out = <<>> /\ s.current = None /\ s.waiting = {} /\ ~s.broke
  BY <1>4 DEF NoProcess
<1>6. Rests(s)
  <2>1. Len(s.in) = 0 /\ DOMAIN s.out = {}
    BY <1>5
  <2> QED BY <1>5, <2>1 DEF Rests, LateReplies, AllBad
<1>7. ~none.broke /\ ~none.alive
  BY <1>4 DEF NoProcess
<1>8. proc = [p \in Process |-> IF p # 0 THEN none ELSE s]
  BY <1>3, <1>4
<1>9. \A p \in Process : QuietOK(p)
  BY <1>5, <1>6, <1>7, <1>8 DEF QuietOK
<1> QED BY <1>2, <1>9 DEF TalkInv

LEMMA NextTalks ==
    ASSUME PoolInv, TalkInv, PoolInv', [Next]_vars
    PROVE  TalkInv'
<1>1. CASE UNCHANGED vars
  BY <1>1 DEF vars, TalkInv, TalkOK, QuietOK
<1>2. ASSUME NEW j \in Job, ServerStep(j) PROVE TalkInv'
  BY <1>2, RecordTalks, TakeIdleTalks, TakeFreshTalks, StartWorkerTalks, ReadCallTalks,
     ReadDoneTalks, ReadFailsTalks, FailTalks, PutTalks DEF ServerStep
<1>3. ASSUME NEW j \in Job, \/ \E id \in job[j].replies : HelperAnswers(j, id)
                            \/ DeadlineFires(j) \/ CancelRun(j) \/ KillClaims(j) \/ Kill(j)
      PROVE TalkInv'
  BY <1>3, HelperAnswersTalks, RecordTalks, KillTalks
<1>4. ASSUME NEW p \in Process,
             \/ StartKills(p) \/ IdleTimerFires(p) \/ Retire(p) \/ Receive(p)
             \/ \E kind \in {"question", "helper"} : AskServer(p, kind)
             \/ FinishJob(p) \/ Die(p) \/ Misbehave(p)
      PROVE TalkInv'
  BY <1>4, TimerTalks, ListTalks, ReceiveTalks, AskTalks, FinishTalks, DieTalks,
     StartKillsTalks, MisbehaveTalks
<1> QED BY <1>1, <1>2, <1>3, <1>4, ListTalks DEF Next

\* Only a worker that wrote what is not of the protocol is blamed for breaking
\* it, and no worker finds the server breaking it, for every order of replies,
\* results, kills and new jobs on a worker that is used again (exchange, helper
\* replies, deliver).
THEOREM HonestAreTrusted == Spec => []HonestWorkersAreTrusted
<1>1. Init => TalkInv
  BY InitTalks
<1>2. PoolInv /\ PoolInv' /\ TalkInv /\ [Next]_vars => TalkInv'
  BY NextTalks
<1>3. TalkInv => HonestWorkersAreTrusted
  BY DEF TalkInv, TalkOK, JobTalks, QuietOK, HonestWorkersAreTrusted
<1> QED BY <1>1, <1>2, <1>3, PoolInvariant, PTL DEF Spec

=============================================================================
