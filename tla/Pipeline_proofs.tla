-------------------------- MODULE Pipeline_proofs --------------------------
(* Proofs about the running pipeline, for every number of elements,        *)
(* threads and data.                                                       *)
EXTENDS Pipeline, SequenceTheorems, FiniteSetTheorems, TLAPS

PumpProofs == INSTANCE TimedWorkWrapper_proofs WITH paused_ <- element_paused_

USE NAssumption, BoundsAssumption

---------------------------------------------------------------------------
(* The pipeline runs the pump as the pump's own module says.               *)

LEMMA PumpNext == [Next]_vars => [Pump!Next]_(Pump!vars)
<1> SUFFICES ASSUME [Next]_vars PROVE [Pump!Next]_(Pump!vars)
  OBVIOUS
<1> USE DEF Pump!Next, Pump!vars, pumpVars
<1>1. CASE PumpBegins \/ PumpFinishes \/ PumpPosts \/ OwnerReturns
  BY <1>1 DEF PumpBegins, PumpFinishes, PumpPosts, OwnerReturns,
              Pump!StrandStep, Pump!OwnerStep
<1>2. CASE PumpOnly
  BY <1>2 DEF PumpOnly, Pump!StrandStep, Pump!OwnerStep
<1>3. ASSUME NEW e \in Workers, WorkerStep(e) PROVE [Pump!Next]_(Pump!vars)
  BY <1>3 DEF WorkerStep, Begin, Finish, Post
<1>6. ASSUME NEW e \in Elements, Throws(e) PROVE [Pump!Next]_(Pump!vars)
  BY <1>6 DEF Throws
<1>4. CASE CollectorStep
  BY <1>4 DEF CollectorStep, StatsTimerExpires, CollectBegins, CollectTests,
              CollectPops, CollectorOnly
<1>5. CASE UNCHANGED vars
  BY <1>5 DEF vars
<1> QED
  BY <1>1, <1>2, <1>3, <1>4, <1>5, <1>6 DEF Next, PumpStep

\* Pump and PumpProofs are instances of the same module: their definitions
\* are the same formulas.
LEMMA SamePump ==
    /\ Pump!Init <=> PumpProofs!Init
    /\ [Pump!Next]_(Pump!vars) <=> [PumpProofs!Next]_(PumpProofs!vars)
  BY DEF Pump!Init, Pump!Next, Pump!vars, Pump!StrandStep, Pump!OwnerStep,
         Pump!BeginWork, Pump!EndWork, Pump!CallNext, Pump!HandleAborted,
         Pump!TimerStep, Pump!CancelWaits, Pump!ClearFlag, Pump!SetFlag,
         Pump!Schedule, Pump!AfterCancel, Pump!Expire, Pump!Return, Pump!TogglePause,
         Pump!Throws, Pump!Running, Pump!Busy, Pump!Goto, Pump!ownerVars, Pump!timerVars,
         Pump!Threads,
         PumpProofs!Init, PumpProofs!Next, PumpProofs!vars, PumpProofs!StrandStep,
         PumpProofs!OwnerStep, PumpProofs!BeginWork, PumpProofs!EndWork,
         PumpProofs!CallNext, PumpProofs!HandleAborted, PumpProofs!TimerStep,
         PumpProofs!CancelWaits, PumpProofs!ClearFlag, PumpProofs!SetFlag,
         PumpProofs!Schedule, PumpProofs!AfterCancel, PumpProofs!Expire,
         PumpProofs!Return, PumpProofs!TogglePause, PumpProofs!Throws,
         PumpProofs!Running, PumpProofs!Busy, PumpProofs!Goto, PumpProofs!ownerVars,
         PumpProofs!timerVars, PumpProofs!Threads

LEMMA PumpInv ==
    /\ Pump!Init => PumpProofs!IInv
    /\ PumpProofs!IInv /\ [Next]_vars => PumpProofs!IInv'
<1>1. MaxToggles \in Nat
  OBVIOUS
<1>2. Pump!Init => PumpProofs!IInv
  BY <1>1, SamePump, PumpProofs!InitIInv
<1>3. PumpProofs!IInv /\ [Next]_vars => PumpProofs!IInv'
  BY <1>1, PumpNext, SamePump, PumpProofs!NextIInv
<1> QED
  BY <1>2, <1>3

---------------------------------------------------------------------------
(***************************************************************************)
(* The flow of data.  NoneLostNoneReordered speaks of a concatenation; the *)
(* inductive invariant says the same by counting and by position, and adds *)
(* what a handler holds and that no element overtakes an earlier one.      *)
(***************************************************************************)
Working(e) == IF PhaseOf(e) = "work" THEN 1 ELSE 0
Passing(e) == IF PhaseOf(e) = "next" THEN 1 ELSE 0

FlowType ==
    /\ posted \in [Workers -> Seq(1 .. MaxFrames)]
    /\ phase \in [Workers -> {"idle", "work", "next"}] /\ phase[N] # "next"
    /\ holds \in [Elements -> 0 .. MaxFrames]
    /\ done \in [Elements -> 0 .. MaxFrames]

Counted ==
    \A e \in Workers :
        done[e - 1] = done[e] + Working(e) + Len(posted[e]) + Passing(e - 1)
Held ==
    \A e \in Elements :
        /\ PhaseOf(e) = "work" => holds[e] = done[e] + 1
        /\ PhaseOf(e) = "next" => holds[e] = done[e]
Queued ==
    \A e \in Workers : \A i \in 1 .. Len(posted[e]) :
        posted[e][i] = done[e] + Working(e) + i
Ordered == \A e, f \in Elements : e <= f => done[f] <= done[e]

FlowInv == FlowType /\ Counted /\ Held /\ Queued /\ Ordered

\* Steps after which no handler has moved between idle, work and next.
LEMMA FlowStutters ==
  ASSUME FlowInv, UNCHANGED <<posted, phase, holds, done>>,
         (at["strand"] \in {"work", "next"} \/ at'["strand"] \in {"work", "next"})
            => at'["strand"] = at["strand"]
  PROVE  FlowInv'
<1>1. \A e \in Elements : Working(e)' = Working(e) /\ Passing(e)' = Passing(e)
  BY DEF Working, Passing, PhaseOf
<1>2. \A e \in Workers : e - 1 \in Elements /\ e \in Elements
  BY DEF Workers, Elements
<1>3. FlowType'
  BY DEF FlowInv, FlowType
<1>4. Counted' /\ Queued'
  BY <1>1, <1>2 DEF FlowInv, Counted, Queued
<1>5. Held'
  BY DEF FlowInv, Held, PhaseOf
<1>6. Ordered'
  BY DEF FlowInv, Ordered
<1> QED
  BY <1>3, <1>4, <1>5, <1>6 DEF FlowInv

\* A worker takes the datum at the head of its strand.
LEMMA FlowBegins ==
  ASSUME FlowInv, NEW e \in Workers, Begin(e) PROVE FlowInv'
<1> USE DEF Workers, Elements
<1> Counted /\ Held /\ Queued /\ Ordered
  BY DEF FlowInv
<1>1. /\ posted[e] \in Seq(1 .. MaxFrames) /\ posted[e] # <<>>
      /\ phase[e] = "idle" /\ e # 1
      /\ posted' = [posted EXCEPT ![e] = Tail(posted[e])]
      /\ holds' = [holds EXCEPT ![e] = Head(posted[e])]
      /\ phase' = [phase EXCEPT ![e] = "work"]
      /\ done' = done /\ at' = at
  BY DEF Begin, pumpVars, FlowInv, FlowType
<1>2. /\ Head(posted[e]) = posted[e][1] /\ Head(posted[e]) \in 1 .. MaxFrames
      /\ Tail(posted[e]) \in Seq(1 .. MaxFrames)
      /\ Len(posted[e]) \in Nat \ {0} /\ Len(Tail(posted[e])) = Len(posted[e]) - 1
      /\ \A i \in 1 .. Len(Tail(posted[e])) : Tail(posted[e])[i] = posted[e][i + 1]
  <2> DEFINE s == posted[e]
             S == 1 .. MaxFrames
  <2>1. s \in Seq(S) /\ s # <<>>
    BY <1>1
  <2> HIDE DEF s, S
  <2>2. /\ Head(s) \in S /\ Tail(s) \in Seq(S) /\ Len(Tail(s)) = Len(s) - 1
        /\ \A i \in 1 .. Len(Tail(s)) : Tail(s)[i] = s[i + 1]
    BY <2>1, HeadTailProperties
  <2>3. Len(s) \in Nat \ {0} /\ Head(s) = s[1]
    BY <2>1
  <2> QED
    BY <2>2, <2>3 DEF s, S
<1> posted \in [Workers -> Seq(1 .. MaxFrames)]
  BY DEF FlowInv, FlowType
<1> /\ \A x \in Elements : done[x] \in Nat
    /\ holds \in [Elements -> 0 .. MaxFrames] /\ phase \in [Workers -> {"idle", "work", "next"}]
  BY DEF FlowInv, FlowType
<1>3. FlowType'
  <2>1. posted' \in [Workers -> Seq(1 .. MaxFrames)]
    BY <1>1, <1>2 DEF FlowInv, FlowType
  <2>2. holds' \in [Elements -> 0 .. MaxFrames]
    BY <1>1, <1>2 DEF FlowInv, FlowType
  <2>3. phase' \in [Workers -> {"idle", "work", "next"}] /\ phase'[N] # "next"
    BY <1>1 DEF FlowInv, FlowType
  <2> QED
    BY <2>1, <2>2, <2>3, <1>1 DEF FlowInv, FlowType
<1>4. \A x \in Elements : PhaseOf(x)' = IF x = e THEN "work" ELSE PhaseOf(x)
  BY <1>1 DEF PhaseOf
<1>5. PhaseOf(e) = "idle"
  BY <1>1 DEF PhaseOf
<1>6. \A x \in Elements : /\ Working(x)' = (IF x = e THEN 1 ELSE Working(x))
                          /\ Passing(x)' = Passing(x)
  BY <1>4, <1>5 DEF Working, Passing
<1>7. Working(e) = 0
  BY <1>5 DEF Working
<1>8. Counted'
  <2> SUFFICES ASSUME NEW x \in Workers
               PROVE (done[x - 1] = done[x] + Working(x) + Len(posted[x]) + Passing(x - 1))'
    BY DEF Counted
  <2>1. x \in Elements /\ x - 1 \in Elements
    OBVIOUS
  <2>2. CASE x = e
    BY <2>1, <2>2, <1>1, <1>2, <1>6, <1>7 DEF Counted
  <2>3. CASE x # e
    BY <2>1, <2>3, <1>1, <1>6 DEF Counted
  <2> QED
    BY <2>2, <2>3
<1>9. Held'
  <2>1. holds'[e] = done'[e] + 1
    <3>1. posted[e][1] = done[e] + 0 + 1
      BY <1>2, <1>7 DEF Queued
    <3> QED
      BY <3>1, <1>1, <1>2
  <2>2. ASSUME NEW x \in Elements, x # e PROVE holds'[x] = holds[x]
    BY <2>2, <1>1
  <2> QED
    BY <2>1, <2>2, <1>1, <1>4 DEF Held
<1>10. Queued'
  <2> SUFFICES ASSUME NEW x \in Workers, NEW i \in Int, i \in 1 .. Len(posted'[x])
               PROVE posted'[x][i] = done'[x] + Working(x)' + i
    BY DEF Queued
  <2>1. CASE x = e
    <3>1. i + 1 \in 1 .. Len(posted[e]) /\ posted'[e][i] = posted[e][i + 1]
      BY <2>1, <1>1, <1>2
    <3>2. posted[e][i + 1] = done[e] + 0 + (i + 1)
      BY <3>1, <1>7 DEF Queued
    <3>3. Working(x)' = 1 /\ done[e] \in Int
      BY <2>1, <1>6
    <3>4. posted'[x][i] = done[e] + (i + 1) /\ done'[x] = done[e] /\ i \in Int
      BY <2>1, <3>1, <3>2, <3>3, <1>1
    <3>5. \A a, b \in Int : a + (b + 1) = a + 1 + b
      OBVIOUS
    <3>6. posted'[x][i] = done'[x] + 1 + i
      BY <3>3, <3>4, <3>5, Zenon
    <3> QED
      BY <3>3, <3>6
  <2>2. CASE x # e
    <3>1. posted'[x] = posted[x]
      BY <2>2, <1>1
    <3>2. Working(x)' = Working(x) /\ done'[x] = done[x]
      BY <2>2, <1>1, <1>6
    <3>3. posted[x][i] = done[x] + Working(x) + i
      BY <3>1 DEF Queued
    <3> QED
      BY <3>1, <3>2, <3>3, Zenon
  <2> QED
    BY <2>1, <2>2
<1>11. Ordered'
  BY <1>1 DEF Ordered
<1> QED
  BY <1>3, <1>8, <1>9, <1>10, <1>11 DEF FlowInv

\* The pump makes the next datum: no queue is involved.
LEMMA FlowPumps ==
  ASSUME FlowInv, PumpBegins, at \in [{"strand", "owner"} -> PumpProofs!Places] PROVE FlowInv'
<1> USE DEF FlowInv, FlowType, Workers, Elements
<1>1. /\ at["strand"] = "idle" /\ at'["strand"] = "work" /\ done[1] < MaxFrames
      /\ holds' = [holds EXCEPT ![1] = done[1] + 1]
      /\ posted' = posted /\ phase' = phase /\ done' = done
  BY DEF PumpBegins, Pump!BeginWork, Pump!Busy, Pump!Goto
<1>2. holds' \in [Elements -> 0 .. MaxFrames]
  BY <1>1
<1>3. FlowType'
  BY <1>1, <1>2
<1>4. /\ \A x \in Elements : Passing(x)' = Passing(x)
      /\ \A x \in Workers : Working(x)' = Working(x)
  BY <1>1 DEF Passing, Working, PhaseOf
<1>5. \A x \in Workers : x - 1 \in Elements
  OBVIOUS
<1>6. Counted' /\ Queued'
  BY <1>1, <1>4, <1>5 DEF Counted, Queued
<1>7. Held'
  BY <1>1, <1>2 DEF Held, PhaseOf
<1>8. Ordered'
  BY <1>1 DEF Ordered
<1> QED
  BY <1>3, <1>6, <1>7, <1>8

(***************************************************************************)
(* A handler finishes its work: the datum after the last one is done.      *)
(***************************************************************************)
FlowFinish(e) ==
    /\ PhaseOf(e) = "work"
    /\ done' = [done EXCEPT ![e] = holds[e]]
    /\ \A x \in Elements :
          PhaseOf(x)' = IF x # e THEN PhaseOf(x) ELSE IF e < N THEN "next" ELSE "idle"
    /\ posted' = posted
    /\ \A x \in Elements : PhaseOf(x)' \in {"work", "next"} => holds'[x] = holds[x]

LEMMA FlowFinishes ==
  ASSUME FlowInv, NEW e \in Elements, FlowFinish(e), FlowType' PROVE FlowInv'
<1> USE DEF Workers, Elements, FlowFinish
<1> Counted /\ Held /\ Queued /\ Ordered
  BY DEF FlowInv
<1>1. holds[e] = done[e] + 1 /\ done'[e] = done[e] + 1
      /\ \A x \in Elements : x # e => done'[x] = done[x]
  BY DEF Held, FlowInv, FlowType
<1>2. \A x \in Elements :
        /\ Working(x)' = (IF x = e THEN 0 ELSE Working(x))
        /\ Passing(x)' = (IF x # e THEN Passing(x) ELSE IF e < N THEN 1 ELSE 0)
  BY DEF Working, Passing
<1>3. Working(e) = 1 /\ Passing(e) = 0
  BY DEF Working, Passing
<1>4. \A x \in Elements : Working(x) \in 0 .. 1 /\ Passing(x) \in 0 .. 1
  BY DEF Working, Passing
<1>5. /\ \A x \in Workers : Len(posted[x]) \in Nat
      /\ \A x \in Elements : done[x] \in Int /\ done'[x] \in Int
  BY DEF FlowInv, FlowType
<1>6. Counted'
  <2> SUFFICES ASSUME NEW x \in Workers
               PROVE (done[x - 1] = done[x] + Working(x) + Len(posted[x]) + Passing(x - 1))'
    BY DEF Counted
  <2>1. x \in Elements /\ x - 1 \in Elements /\ x - 1 < N
    OBVIOUS
  <2>2. done[x - 1] = done[x] + Working(x) + Len(posted[x]) + Passing(x - 1)
    BY DEF Counted
  <2>3. CASE x = e
    <3>1. Working(x)' = 0 /\ Working(x) = 1 /\ Passing(x - 1)' = Passing(x - 1)
      BY <2>1, <2>3, <1>2, <1>3
    <3> QED
      BY <2>1, <2>2, <2>3, <3>1, <1>1, <1>4, <1>5
  <2>4. CASE x - 1 = e
    <3>1. Working(x)' = Working(x) /\ Passing(x - 1)' = 1 /\ Passing(x - 1) = 0
      BY <2>1, <2>4, <1>2, <1>3
    <3> QED
      BY <2>1, <2>2, <2>4, <3>1, <1>1, <1>4, <1>5, e = x - 1, x # e
  <2>5. CASE x # e /\ x - 1 # e
    BY <2>1, <2>2, <2>5, <1>1, <1>2
  <2> QED
    BY <2>3, <2>4, <2>5
<1>7. Held'
  BY <1>1 DEF Held
<1>8. Queued'
  <2> SUFFICES ASSUME NEW x \in Workers, NEW i \in 1 .. Len(posted[x])
               PROVE posted[x][i] = done'[x] + Working(x)' + i
    BY DEF Queued
  <2>1. posted[x][i] = done[x] + Working(x) + i
    BY DEF Queued
  <2> x \in Elements /\ i \in Int
    OBVIOUS
  <2>2. CASE x = e
    <3>1. Working(x)' = 0 /\ Working(x) = 1
      BY <2>2, <1>2, <1>3
    <3> QED
      BY <2>1, <2>2, <3>1, <1>1, <1>5
  <2>3. CASE x # e
    BY <2>1, <2>3, <1>1, <1>2
  <2> QED
    BY <2>2, <2>3
<1>9. Ordered'
  <2>1. e > 1 => done[e] + 1 <= done[e - 1]
    <3> SUFFICES ASSUME e > 1 PROVE done[e] + 1 <= done[e - 1]
      OBVIOUS
    <3>1. e \in Workers /\ e - 1 \in Elements
      OBVIOUS
    <3>2. done[e - 1] = done[e] + Working(e) + Len(posted[e]) + Passing(e - 1)
      BY <3>1 DEF Counted
    <3> QED
      BY <3>1, <3>2, <1>3, <1>4, <1>5
  <2> SUFFICES ASSUME NEW x \in Elements, NEW y \in Elements, x <= y
               PROVE done'[y] <= done'[x]
    BY DEF Ordered
  <2>2. CASE y = e /\ x < e
    <3>1. e - 1 \in Elements /\ x <= e - 1
      BY <2>2
    <3>2. done[e - 1] <= done[x]
      BY <3>1 DEF Ordered
    <3>3. done'[x] = done[x] /\ done'[y] = done[e] + 1
      BY <2>2, <1>1
    <3> QED
      BY <2>1, <2>2, <3>2, <3>3, <1>5, e - 1 \in Elements
  <2>3. CASE y # e \/ x = e
    <3>1. done[y] <= done[x]
      BY DEF Ordered
    <3>2. done'[y] = (IF y = e THEN done[y] + 1 ELSE done[y])
      BY <1>1
    <3>3. done'[x] = (IF x = e THEN done[x] + 1 ELSE done[x])
      BY <1>1
    <3> QED
      BY <2>3, <3>1, <3>2, <3>3, <1>5
  <2> QED
    BY <2>2, <2>3
<1> QED
  BY <1>6, <1>7, <1>8, <1>9 DEF FlowInv

(***************************************************************************)
(* A handler posts its datum to the next strand.                           *)
(***************************************************************************)
FlowPost(e) ==
    /\ e < N /\ PhaseOf(e) = "next"
    /\ posted' = [posted EXCEPT ![e + 1] = Append(posted[e + 1], holds[e])]
    /\ holds' = [holds EXCEPT ![e] = 0]
    /\ done' = done
    /\ \A x \in Elements :
          IF x = e THEN PhaseOf(x)' \notin {"work", "next"} ELSE PhaseOf(x)' = PhaseOf(x)

LEMMA FlowPosts ==
  ASSUME FlowInv, NEW e \in Elements, FlowPost(e), holds[e] \in 1 .. MaxFrames,
         phase' \in [Workers -> {"idle", "work", "next"}], phase'[N] # "next"
  PROVE  FlowInv'
<1> USE DEF Workers, Elements, FlowPost
<1> Counted /\ Held /\ Queued /\ Ordered
  BY DEF FlowInv
<1>1. /\ holds \in [Elements -> 0 .. MaxFrames]
      /\ posted \in [Workers -> Seq(1 .. MaxFrames)]
      /\ \A x \in Elements : done[x] \in Int
  BY DEF FlowInv, FlowType
<1>2. e + 1 \in Workers /\ e + 1 \in Elements
  OBVIOUS
<1>3. /\ Append(posted[e + 1], holds[e]) \in Seq(1 .. MaxFrames)
      /\ Len(posted[e + 1]) \in Nat
      /\ Len(Append(posted[e + 1], holds[e])) = Len(posted[e + 1]) + 1
      /\ Append(posted[e + 1], holds[e])[Len(posted[e + 1]) + 1] = holds[e]
      /\ \A i \in 1 .. Len(posted[e + 1]) :
            Append(posted[e + 1], holds[e])[i] = posted[e + 1][i]
  <2> DEFINE s == posted[e + 1]
             S == 1 .. MaxFrames
             h == holds[e]
  <2>1. s \in Seq(S) /\ h \in S
    BY <1>1, <1>2
  <2> HIDE DEF s, S, h
  <2>2. /\ Append(s, h) \in Seq(S) /\ Len(s) \in Nat
        /\ Len(Append(s, h)) = Len(s) + 1
        /\ Append(s, h)[Len(s) + 1] = h
        /\ \A i \in 1 .. Len(s) : Append(s, h)[i] = s[i]
    BY <2>1, AppendProperties
  <2> QED
    BY <2>2 DEF s, S, h
<1>4. FlowType'
  <2>1. posted' \in [Workers -> Seq(1 .. MaxFrames)]
    BY <1>1, <1>2, <1>3
  <2>2. holds' \in [Elements -> 0 .. MaxFrames]
    BY <1>1
  <2> QED
    BY <2>1, <2>2 DEF FlowInv, FlowType
<1>5. \A x \in Elements :
        /\ Working(x)' = Working(x) /\ Working(x) \in 0 .. 1
        /\ Passing(x)' = (IF x = e THEN 0 ELSE Passing(x)) /\ Passing(x) \in 0 .. 1
  BY DEF Working, Passing
<1>6. Passing(e) = 1 /\ holds[e] = done[e]
  BY DEF Passing, Held
<1>7. done[e] = done[e + 1] + Working(e + 1) + Len(posted[e + 1]) + 1
  <2>1. done[(e + 1) - 1] = done[e + 1] + Working(e + 1) + Len(posted[e + 1])
                            + Passing((e + 1) - 1)
    BY <1>2 DEF Counted
  <2> QED
    BY <2>1, <1>6, (e + 1) - 1 = e
<1>8. Counted'
  <2> SUFFICES ASSUME NEW x \in Workers
               PROVE (done[x - 1] = done[x] + Working(x) + Len(posted[x]) + Passing(x - 1))'
    BY DEF Counted
  <2>1. x \in Elements /\ x - 1 \in Elements
    OBVIOUS
  <2>2. CASE x = e + 1
    <3>1. x - 1 = e /\ posted'[x] = Append(posted[e + 1], holds[e])
      BY <2>2, <1>1, <1>2
    <3>2. Working(x)' = Working(e + 1) /\ Passing(x - 1)' = 0
      BY <2>1, <2>2, <3>1, <1>5
    <3>3. Len(posted'[x]) = Len(posted[e + 1]) + 1
      BY <3>1, <1>3
    <3>4. done'[x - 1] = done[e] /\ done'[x] = done[e + 1]
      BY <3>1, <2>2
    <3>5. /\ done[e + 1] \in Int /\ Working(e + 1) \in Int
          /\ Len(posted[e + 1]) \in Int
      BY <1>1, <1>2, <1>3, <1>5
    <3>6. \A a, b, c \in Int : a + b + c + 1 = a + b + (c + 1) + 0
      OBVIOUS
    <3>7. done[e] = done[e + 1] + Working(e + 1) + (Len(posted[e + 1]) + 1) + 0
      BY <3>5, <3>6, <1>7, Zenon
    <3> QED
      BY <3>2, <3>3, <3>4, <3>7, Zenon
  <2>3. CASE x # e + 1
    <3>1. x - 1 # e /\ posted'[x] = posted[x]
      BY <2>3, <1>1
    <3>2. Working(x)' = Working(x) /\ Passing(x - 1)' = Passing(x - 1)
      BY <2>1, <3>1, <1>5
    <3> QED
      BY <3>1, <3>2 DEF Counted
  <2> QED
    BY <2>2, <2>3
<1>9. Held'
  <2>1. ASSUME NEW x \in Elements, x # e
        PROVE holds'[x] = holds[x] /\ PhaseOf(x)' = PhaseOf(x)
    BY <2>1, <1>1
  <2> QED
    BY <2>1 DEF Held
<1>10. Queued'
  <2> SUFFICES ASSUME NEW x \in Workers, NEW i \in Int, i \in 1 .. Len(posted'[x])
               PROVE posted'[x][i] = done'[x] + Working(x)' + i
    BY DEF Queued
  <2>1. Working(x)' = Working(x) /\ x \in Elements
    BY <1>5
  <2>2. CASE x = e + 1 /\ i = Len(posted[e + 1]) + 1
    <3>1. posted'[x][i] = done[e] /\ done'[x] = done[e + 1] /\ Working(x)' = Working(e + 1)
      BY <2>1, <2>2, <1>1, <1>2, <1>3, <1>6
    <3>2. /\ done[e + 1] \in Int /\ Working(e + 1) \in Int
          /\ Len(posted[e + 1]) \in Int /\ done[e] \in Int
      BY <1>1, <1>2, <1>3, <1>5
    <3>3. \A a, b, c \in Int : a + b + c + 1 = a + b + (c + 1)
      OBVIOUS
    <3>4. posted'[x][i] = done[e + 1] + Working(e + 1) + (Len(posted[e + 1]) + 1)
      BY <3>1, <3>2, <3>3, <1>7, Zenon
    <3> QED
      BY <3>1, <3>4, <2>2, Zenon
  <2>3. CASE x = e + 1 /\ i \in 1 .. Len(posted[e + 1])
    <3>1. posted'[x][i] = posted[x][i] /\ done'[x] = done[x]
      BY <2>3, <1>1, <1>2, <1>3
    <3> QED
      BY <2>1, <2>3, <3>1 DEF Queued
  <2>4. CASE x # e + 1
    <3>1. posted'[x] = posted[x] /\ done'[x] = done[x]
      BY <2>4, <1>1
    <3> QED
      BY <2>1, <3>1 DEF Queued
  <2>5. x = e + 1 => Len(posted'[x]) = Len(posted[e + 1]) + 1
    BY <1>1, <1>2, <1>3
  <2> QED
    BY <2>2, <2>3, <2>4, <2>5, <1>3
<1>11. Ordered'
  BY DEF Ordered
<1> QED
  BY <1>4, <1>8, <1>9, <1>10, <1>11 DEF FlowInv

---------------------------------------------------------------------------
(***************************************************************************)
(* The statistics.  An element records before it passes on, and elements   *)
(* do not overtake, so the last queue is the shortest; a row takes one     *)
(* entry of each queue, so the queues lose as many entries each.           *)
(***************************************************************************)
StatsInv ==
    /\ stats \in [Elements -> Nat]
    /\ collector \in [pc : {"off", "waiting", "queued", "test", "pop"},
                      i : 0 .. MaxFrames, e : Elements]
    /\ stats[N] <= done[N]
    /\ collector.pc = "pop" => stats[N] > 0 /\ collector.i < MaxFrames
    /\ RowsAligned

\* The statistics timer starts when start() returns.
OffUntilStarted == call = "start" => collector.pc = "off"

PipeInv ==
    PumpProofs!IInv /\ paused_ \in BOOLEAN /\ FlowInv /\ StatsInv /\ OffUntilStarted

LEMMA StatsPopSafe == FlowInv /\ StatsInv => PopSafe
<1> SUFFICES ASSUME FlowInv, StatsInv, collector.pc = "pop"
             PROVE stats[collector.e] > 0
  BY DEF PopSafe
<1>1. collector.e \in Elements /\ N \in Elements
  BY DEF StatsInv, Elements
<1>2. done[N] <= done[collector.e]
  BY <1>1 DEF FlowInv, Ordered, Elements
<1>3. done[collector.e] - stats[collector.e] = done[N] - stats[N]
  BY <1>1 DEF StatsInv, RowsAligned, Elements
<1>4. stats[N] > 0
  BY DEF StatsInv
<1>5. \A x \in Elements : done[x] \in Int /\ stats[x] \in Int
  BY DEF FlowInv, FlowType, StatsInv
<1>6. /\ done[N] \in Int /\ done[collector.e] \in Int
      /\ stats[N] \in Int /\ stats[collector.e] \in Int
  BY <1>1, <1>5
<1>7. \A a, b, c, d \in Int : a <= b /\ b - c = a - d /\ d > 0 => c > 0
  OBVIOUS
<1> QED
  BY <1>2, <1>3, <1>4, <1>6, <1>7, Zenon

LEMMA StatsFinish ==
  ASSUME FlowInv, StatsInv, NEW e \in Elements, FlowFinish(e),
         stats' = [stats EXCEPT ![e] = stats[e] + 1], collector' = collector
  PROVE  StatsInv'
<1>1. \A x \in Elements : done[x] \in Int /\ stats[x] \in Nat
  BY DEF FlowInv, FlowType, StatsInv
<1>2. \A x \in Elements :
        /\ done'[x] = (IF x = e THEN done[x] + 1 ELSE done[x])
        /\ stats'[x] = (IF x = e THEN stats[x] + 1 ELSE stats[x])
  BY DEF FlowFinish, FlowInv, FlowType, Held, StatsInv
<1>3. N \in Elements
  BY DEF Elements
<1>4. \A x \in Elements : done'[x] - stats'[x] = done[x] - stats[x]
  BY <1>1, <1>2
<1>5. stats' \in [Elements -> Nat]
  BY DEF StatsInv
<1>6. RowsAligned'
  BY <1>3, <1>4 DEF StatsInv, RowsAligned
<1>7. stats[N]' <= done[N]' /\ (stats[N] > 0 => stats[N]' > 0)
  BY <1>1, <1>2, <1>3 DEF StatsInv
<1> QED
  BY <1>5, <1>6, <1>7 DEF StatsInv

LEMMA StatsPops ==
  ASSUME FlowInv, StatsInv, CollectPops PROVE StatsInv'
<1> DEFINE c == collector.e
<1>1. /\ collector.pc = "pop" /\ c \in Elements /\ N \in Elements /\ c \in 1 .. N
      /\ stats' = [stats EXCEPT ![c] = stats[c] - 1] /\ done' = done
      /\ IF c < N THEN collector' = [pc |-> "pop", i |-> collector.i, e |-> c + 1]
                  ELSE collector' = [pc |-> "test", i |-> collector.i + 1, e |-> 1]
  BY DEF CollectPops, CollectorAt, CollectorOnly, StatsInv, Elements
<1>2. \A x \in Elements : done[x] \in Int /\ stats[x] \in Nat
  BY DEF FlowInv, FlowType, StatsInv
<1>3. stats[c] > 0
  BY <1>1, StatsPopSafe DEF PopSafe
<1>4. stats' \in [Elements -> Nat]
  BY <1>1, <1>2, <1>3 DEF StatsInv
<1>5. \A x \in Elements : stats'[x] = (IF x = c THEN stats[x] - 1 ELSE stats[x])
  BY <1>1 DEF StatsInv
<1>6. collector.i \in 0 .. MaxFrames /\ collector.i < MaxFrames
  BY <1>1 DEF StatsInv
<1>7. collector' \in [pc : {"off", "waiting", "queued", "test", "pop"},
                      i : 0 .. MaxFrames, e : Elements]
  BY <1>1, <1>6 DEF Elements
<1>8. \A x \in Elements :
        done[x] - stats[x] = done[N] - stats[N] + (IF x < c THEN 1 ELSE 0)
  BY <1>1 DEF StatsInv, RowsAligned
<1>9. CASE c < N
  <2>1. collector'.pc = "pop" /\ collector'.e = c + 1 /\ collector'.i = collector.i
    BY <1>1, <1>9
  <2>2. stats'[N] = stats[N]
    BY <1>1, <1>5, <1>9
  <2>3. RowsAligned'
    <3> SUFFICES ASSUME NEW x \in Elements
                 PROVE done[x] - stats'[x] = done[N] - stats[N]
                                             + (IF x < c + 1 THEN 1 ELSE 0)
      BY <1>1, <2>1, <2>2 DEF RowsAligned
    <3>1. done[x] - stats[x] = done[N] - stats[N] + (IF x < c THEN 1 ELSE 0)
      BY <1>8
    <3>2. stats'[x] = (IF x = c THEN stats[x] - 1 ELSE stats[x])
      BY <1>5
    <3> QED
      BY <1>1, <1>2, <3>1, <3>2 DEF Elements
  <2> QED
    BY <1>1, <1>4, <1>6, <1>7, <2>1, <2>2, <2>3 DEF StatsInv
<1>10. CASE ~(c < N)
  <2>1. c = N /\ collector'.pc = "test"
    BY <1>1, <1>10 DEF Elements
  <2>2. stats'[N] = stats[N] - 1
    BY <1>1, <1>5, <2>1
  <2>3. RowsAligned'
    <3> SUFFICES ASSUME NEW x \in Elements
                 PROVE done[x] - stats'[x] = done[N] - stats'[N] + 0
      BY <1>1, <2>1 DEF RowsAligned
    <3>1. done[x] - stats[x] = done[N] - stats[N] + (IF x < N THEN 1 ELSE 0)
      BY <1>8, <2>1
    <3>2. stats'[x] = (IF x = N THEN stats[x] - 1 ELSE stats[x])
      BY <1>5, <2>1
    <3> QED
      BY <1>1, <1>2, <2>2, <3>1, <3>2 DEF Elements
  <2>4. stats'[N] <= done'[N]
    BY <1>1, <1>2, <2>2 DEF StatsInv
  <2> QED
    BY <1>4, <1>7, <2>1, <2>3, <2>4 DEF StatsInv
<1> QED
  BY <1>9, <1>10

---------------------------------------------------------------------------
(* Every step keeps the invariant.                                         *)

LEMMA InitPipe == Init => PipeInv
<1> SUFFICES ASSUME Init PROVE PipeInv
  OBVIOUS
<1> USE DEF Init
<1>1. PumpProofs!IInv
  BY PumpInv
<1>2. at["strand"] = "idle"
  BY DEF Pump!Init, Pump!Threads
<1>3. \A e \in Elements : PhaseOf(e) = "idle"
  BY <1>2 DEF PhaseOf, Elements, Workers
<1>4. \A e \in Elements : Working(e) = 0 /\ Passing(e) = 0
  BY <1>3 DEF Working, Passing
<1>5. \A e \in Workers : e \in Elements /\ e - 1 \in Elements /\ posted[e] = <<>>
  BY DEF Elements, Workers
<1>6. FlowType
  <2>1. <<>> \in Seq(1 .. MaxFrames) /\ N \in Workers
    BY DEF Workers
  <2> QED
    BY <2>1 DEF FlowType
<1>7. Counted /\ Held /\ Queued /\ Ordered
  BY <1>3, <1>4, <1>5 DEF Counted, Held, Queued, Ordered
<1>8. StatsInv
  BY DEF StatsInv, RowsAligned, Elements
<1> QED
  BY <1>1, <1>6, <1>7, <1>8 DEF PipeInv, FlowInv, OffUntilStarted

LEMMA StatsStutters ==
  ASSUME StatsInv, done' = done, stats' = stats,
         collector' = collector
         \/ (/\ collector.pc # "pop" /\ collector'.pc # "pop"
             /\ collector' \in [pc : {"off", "waiting", "queued", "test", "pop"},
                                i : 0 .. MaxFrames, e : Elements])
  PROVE  StatsInv'
  BY DEF StatsInv, RowsAligned

\* What a handler is about to post is a datum.
LEMMA PassesDatum ==
  ASSUME FlowInv, NEW e \in Elements, e < N, PhaseOf(e) = "next"
  PROVE  holds[e] \in 1 .. MaxFrames
<1>1. e + 1 \in Workers /\ e + 1 \in Elements /\ (e + 1) - 1 = e
  BY DEF Elements, Workers
<1>2. done[e] = done[e + 1] + Working(e + 1) + Len(posted[e + 1]) + Passing(e)
  BY <1>1 DEF FlowInv, Counted
<1>3. Passing(e) = 1 /\ Working(e + 1) \in 0 .. 1
  BY DEF Passing, Working
<1>4. /\ done[e] \in 0 .. MaxFrames /\ done[e + 1] \in Nat
      /\ posted[e + 1] \in Seq(1 .. MaxFrames)
  BY <1>1 DEF FlowInv, FlowType
<1>5. Len(posted[e + 1]) \in Nat
  BY <1>4
<1>6. holds[e] = done[e]
  BY DEF FlowInv, Held
<1> QED
  BY <1>2, <1>3, <1>4, <1>5, <1>6

LEMMA StartOnce ==
  ASSUME OffUntilStarted, [Next]_vars PROVE OffUntilStarted'
<1>1. CASE PumpBegins \/ PumpFinishes \/ PumpPosts \/ PumpOnly
  BY <1>1 DEF PumpBegins, PumpFinishes, PumpPosts, PumpOnly, OffUntilStarted,
              Pump!BeginWork, Pump!EndWork, Pump!CallNext, Pump!HandleAborted,
              Pump!TimerStep, Pump!CancelWaits, Pump!ClearFlag, Pump!SetFlag,
              Pump!Schedule, Pump!Expire, Pump!TogglePause, Pump!ownerVars
<1>2. CASE OwnerReturns
  BY <1>2 DEF OwnerReturns, Pump!Return, OffUntilStarted
<1>3. CASE \E e \in Workers : WorkerStep(e)
  BY <1>3 DEF WorkerStep, Begin, Finish, Post, pumpVars, OffUntilStarted
<1>4. CASE \E e \in Elements : Throws(e)
  BY <1>4 DEF Throws, Pump!Throws, Pump!ownerVars, OffUntilStarted
<1>5. CASE CollectorStep
  BY <1>5 DEF CollectorStep, StatsTimerExpires, CollectBegins, CollectTests,
              CollectPops, CollectorOnly, pumpVars, OffUntilStarted
<1>6. CASE UNCHANGED vars
  BY <1>6 DEF vars, pumpVars, OffUntilStarted
<1> QED
  BY <1>1, <1>2, <1>3, <1>4, <1>5, <1>6 DEF Next, PumpStep

LEMMA NextPipe == PipeInv /\ [Next]_vars => PipeInv'
<1> SUFFICES ASSUME PipeInv, [Next]_vars PROVE PipeInv'
  OBVIOUS
<1>1. PumpProofs!IInv' /\ OffUntilStarted'
  BY PumpInv, StartOnce DEF PipeInv
<1>2. FlowInv /\ StatsInv /\ paused_ \in BOOLEAN
  BY DEF PipeInv
<1>3. at \in [{"strand", "owner"} -> PumpProofs!Places]
  BY DEF PipeInv, PumpProofs!IInv, PumpProofs!TypeOK, PumpProofs!Threads
<1>4. 1 \in Elements /\ N \in Elements /\ 1 # N
  BY DEF Elements
<1>5. CASE PumpBegins
  <2>1. FlowInv'
    BY <1>2, <1>3, <1>5, FlowPumps
  <2>2. StatsInv'
    BY <1>2, <1>5, StatsStutters DEF PumpBegins
  <2> QED
    BY <1>1, <1>2, <1>5, <2>1, <2>2 DEF PipeInv, PumpBegins
<1>6. CASE PumpFinishes
  <2>1. FlowFinish(1)
    BY <1>3, <1>4, <1>6
       DEF FlowFinish, PumpFinishes, Pump!EndWork, Pump!Goto, PhaseOf
  <2>2. FlowType'
    <3>1. holds[1] \in 0 .. MaxFrames
      BY <1>2, <1>4 DEF FlowInv, FlowType
    <3> QED
      BY <1>2, <1>6, <3>1 DEF FlowInv, FlowType, PumpFinishes
  <2>3. FlowInv'
    BY <1>2, <1>4, <2>1, <2>2, FlowFinishes
  <2>4. StatsInv'
    BY <1>2, <1>4, <1>6, <2>1, StatsFinish DEF PumpFinishes
  <2> QED
    BY <1>1, <1>2, <1>6, <2>3, <2>4 DEF PipeInv, PumpFinishes
<1>7. CASE PumpPosts
  <2>1. FlowPost(1)
    BY <1>3, <1>4, <1>7
       DEF FlowPost, PumpPosts, Pump!CallNext, Pump!Goto, PhaseOf, Elements
  <2>2. holds[1] \in 1 .. MaxFrames
    BY <1>2, <1>4, <2>1, PassesDatum DEF FlowPost
  <2>3. phase' \in [Workers -> {"idle", "work", "next"}] /\ phase'[N] # "next"
    BY <1>2, <1>7 DEF PumpPosts, FlowInv, FlowType
  <2>4. FlowInv'
    BY <1>2, <1>4, <2>1, <2>2, <2>3, FlowPosts
  <2>5. StatsInv'
    BY <1>2, <1>7, StatsStutters DEF PumpPosts
  <2> QED
    BY <1>1, <1>2, <1>7, <2>4, <2>5 DEF PipeInv, PumpPosts
<1>8. CASE PumpOnly
  <2>1. (at["strand"] \in {"work", "next"} \/ at'["strand"] \in {"work", "next"})
           => at'["strand"] = at["strand"]
    <3>1. CASE Pump!HandleAborted \/ Pump!Expire
      BY <3>1 DEF Pump!HandleAborted, Pump!Expire
    <3>2. CASE Pump!TimerStep("strand") \/ Pump!TimerStep("owner")
      BY <3>2, <1>3 DEF Pump!TimerStep, Pump!CancelWaits, Pump!ClearFlag, Pump!SetFlag,
                        Pump!Schedule, Pump!AfterCancel, Pump!Goto
    <3>3. CASE Pump!TogglePause
      BY <3>3, <1>3 DEF Pump!TogglePause, Pump!Goto
    <3> QED
      BY <1>8, <3>1, <3>2, <3>3 DEF PumpOnly
  <2>2. FlowInv'
    BY <1>2, <1>8, <2>1, FlowStutters DEF PumpOnly, flowVars
  <2>3. StatsInv'
    BY <1>2, <1>8, StatsStutters DEF PumpOnly, flowVars
  <2> QED
    BY <1>1, <1>2, <1>8, <2>2, <2>3 DEF PipeInv, PumpOnly
<1>9. CASE OwnerReturns
  <2>1. at'["strand"] = at["strand"]
    BY <1>3, <1>9 DEF OwnerReturns, Pump!Return, Pump!Goto
  <2>2. FlowInv'
    BY <1>2, <1>9, <2>1, FlowStutters DEF OwnerReturns, flowVars
  <2>3. paused_' \in BOOLEAN
    BY <1>2, <1>9 DEF OwnerReturns
  <2>4. StatsInv'
    <3>1. CASE call = "start"
      <4>1. collector' = [pc |-> "waiting", i |-> 0, e |-> 1]
        BY <1>9, <3>1 DEF OwnerReturns, CollectorAt
      <4>2. collector.pc # "pop"
        BY <3>1 DEF PipeInv, OffUntilStarted
      <4>3. stats' = stats /\ done' = done
        BY <1>9 DEF OwnerReturns, flowVars
      <4> QED
        BY <1>2, <1>4, <4>1, <4>2, <4>3, StatsStutters
    <3>2. CASE call # "start"
      BY <1>2, <1>9, <3>2, StatsStutters DEF OwnerReturns, flowVars
    <3> QED
      BY <3>1, <3>2
  <2> QED
    BY <1>1, <2>2, <2>3, <2>4 DEF PipeInv
<1>10. ASSUME NEW e \in Workers, WorkerStep(e) PROVE PipeInv'
  <2>1. e \in Elements /\ e # 1
    BY DEF Workers, Elements
  <2>2. CASE Begin(e)
    <3>1. FlowInv'
      BY <1>2, <2>2, FlowBegins
    <3>2. StatsInv'
      BY <1>2, <2>2, StatsStutters DEF Begin
    <3> QED
      BY <1>1, <1>2, <2>2, <3>1, <3>2 DEF PipeInv, Begin
  <2>3. CASE Finish(e)
    <3>1. FlowType'
      <4>1. holds[e] \in 0 .. MaxFrames
        BY <1>2, <2>1 DEF FlowInv, FlowType
      <4>2. done' \in [Elements -> 0 .. MaxFrames]
        BY <1>2, <2>3, <4>1 DEF Finish, FlowInv, FlowType
      <4>3. phase' \in [Workers -> {"idle", "work", "next"}] /\ phase'[N] # "next"
        BY <1>2, <2>3 DEF Finish, FlowInv, FlowType, Workers
      <4>4. holds' \in [Elements -> 0 .. MaxFrames]
        <5>1. holds \in [Elements -> 0 .. MaxFrames] /\ 0 \in 0 .. MaxFrames
          BY <1>2 DEF FlowInv, FlowType
        <5>2. holds' = holds \/ holds' = [holds EXCEPT ![e] = 0]
          BY <2>3 DEF Finish
        <5> QED
          BY <5>1, <5>2
      <4> QED
        BY <1>2, <2>3, <4>2, <4>3, <4>4 DEF Finish, FlowInv, FlowType
    <3>2. at' = at /\ phase' = [phase EXCEPT ![e] = IF e < N THEN "next" ELSE "idle"]
      BY <2>3 DEF Finish, pumpVars
    <3>3. \A x \in Elements :
            PhaseOf(x)' = IF x # e THEN PhaseOf(x) ELSE IF e < N THEN "next" ELSE "idle"
      BY <1>2, <2>1, <3>2 DEF PhaseOf, FlowInv, FlowType, Workers, Elements
    <3>4. FlowFinish(e)
      <4>1. \A x \in Elements : PhaseOf(x)' \in {"work", "next"} => holds'[x] = holds[x]
        BY <1>2, <2>1, <2>3, <3>3 DEF Finish, FlowInv, FlowType
      <4>2. PhaseOf(e) = "work"
        BY <2>1, <2>3 DEF Finish, PhaseOf
      <4> QED
        BY <2>3, <3>3, <4>1, <4>2 DEF FlowFinish, Finish
    <3>5. FlowInv' /\ StatsInv'
      BY <1>2, <2>1, <2>3, <3>1, <3>4, FlowFinishes, StatsFinish DEF Finish
    <3> QED
      BY <1>1, <1>2, <2>3, <3>5 DEF PipeInv, Finish
  <2>4. CASE e < N /\ Post(e)
    <3>1. at' = at /\ phase' = [phase EXCEPT ![e] = "idle"] /\ phase[e] = "next"
      BY <2>4 DEF Post, pumpVars
    <3>2. phase' \in [Workers -> {"idle", "work", "next"}] /\ phase'[N] # "next"
      BY <1>2, <3>1 DEF FlowInv, FlowType, Workers
    <3>3. FlowPost(e)
      <4>1. \A x \in Elements :
               IF x = e THEN PhaseOf(x)' \notin {"work", "next"}
                        ELSE PhaseOf(x)' = PhaseOf(x)
        BY <1>2, <2>1, <3>1 DEF PhaseOf, FlowInv, FlowType, Workers, Elements
      <4>2. PhaseOf(e) = "next"
        BY <2>1, <3>1 DEF PhaseOf
      <4> QED
        BY <2>4, <4>1, <4>2 DEF FlowPost, Post
    <3>4. holds[e] \in 1 .. MaxFrames
      BY <1>2, <2>1, <2>4, <3>3, PassesDatum DEF FlowPost
    <3>5. FlowInv'
      BY <1>2, <2>1, <3>2, <3>3, <3>4, FlowPosts
    <3>6. StatsInv'
      BY <1>2, <2>4, StatsStutters DEF Post
    <3> QED
      BY <1>1, <1>2, <2>4, <3>5, <3>6 DEF PipeInv, Post
  <2> QED
    BY <1>10, <2>2, <2>3, <2>4 DEF WorkerStep
<1>11. ASSUME NEW e \in Elements, Throws(e) PROVE PipeInv'
  <2>1. at' = at /\ UNCHANGED <<posted, phase, holds, done, stats, collector, paused_>>
    BY <1>11 DEF Throws, Pump!Throws, flowVars
  <2>2. FlowInv' /\ StatsInv'
    BY <1>2, <2>1, FlowStutters, StatsStutters
  <2> QED
    BY <1>1, <1>2, <2>1, <2>2 DEF PipeInv
<1>12. CASE StatsTimerExpires \/ CollectBegins \/ CollectTests
  <2>1. UNCHANGED <<at, posted, phase, holds, done, stats, paused_>>
    BY <1>12 DEF StatsTimerExpires, CollectBegins, CollectTests, CollectorOnly, pumpVars
  <2>2. FlowInv'
    BY <1>2, <2>1, FlowStutters
  <2>3. StatsInv'
    <3>1. CASE StatsTimerExpires \/ CollectBegins
      <4>1. collector.pc # "pop"
        BY <3>1 DEF StatsTimerExpires, CollectBegins
      <4>2. collector' \in {[pc |-> "queued", i |-> 0, e |-> 1], [pc |-> "test", i |-> 0, e |-> 1]}
        BY <3>1 DEF StatsTimerExpires, CollectBegins, CollectorAt
      <4> QED
        BY <1>2, <1>4, <2>1, <4>1, <4>2, StatsStutters
    <3>2. CASE CollectTests
      <4>1. collector.pc = "test" /\ collector.i \in 0 .. MaxFrames
        BY <1>2, <3>2 DEF CollectTests, StatsInv
      <4>2. CASE collector.i < stats[N]
        <5>1. collector' = [pc |-> "pop", i |-> collector.i, e |-> 1]
          BY <3>2, <4>2 DEF CollectTests, CollectorAt
        <5>2. stats[N] \in Nat /\ done[N] \in 0 .. MaxFrames /\ stats[N] <= done[N]
          BY <1>2, <1>4 DEF StatsInv, FlowInv, FlowType
        <5>3. stats[N] > 0 /\ collector.i < MaxFrames
          BY <4>1, <4>2, <5>2
        <5>4. RowsAligned'
          BY <1>2, <2>1, <4>1, <5>1 DEF StatsInv, RowsAligned, Elements
        <5>5. collector' \in [pc : {"off", "waiting", "queued", "test", "pop"},
                              i : 0 .. MaxFrames, e : Elements]
          BY <1>4, <4>1, <5>1
        <5> QED
          BY <1>2, <2>1, <5>1, <5>3, <5>4, <5>5 DEF StatsInv
      <4>3. CASE ~(collector.i < stats[N])
        <5>1. collector' = [pc |-> "waiting", i |-> 0, e |-> 1]
          BY <3>2, <4>3 DEF CollectTests, CollectorAt
        <5> QED
          BY <1>2, <1>4, <2>1, <4>1, <5>1, StatsStutters
      <4> QED
        BY <4>2, <4>3
    <3> QED
      BY <1>12, <3>1, <3>2
  <2> QED
    BY <1>1, <1>2, <2>1, <2>2, <2>3 DEF PipeInv
<1>13. CASE CollectPops
  <2>1. UNCHANGED <<at, posted, phase, holds, done, paused_>>
    BY <1>13 DEF CollectPops, CollectorOnly, pumpVars
  <2>2. FlowInv' /\ StatsInv'
    BY <1>2, <1>13, <2>1, FlowStutters, StatsPops
  <2> QED
    BY <1>1, <1>2, <2>1, <2>2 DEF PipeInv
<1>14. CASE UNCHANGED vars
  <2>1. UNCHANGED <<at, posted, phase, holds, done, stats, collector, paused_>>
    BY <1>14 DEF vars, pumpVars, flowVars
  <2>2. FlowInv' /\ StatsInv'
    BY <1>2, <2>1, FlowStutters, StatsStutters
  <2> QED
    BY <1>1, <1>2, <2>1, <2>2 DEF PipeInv
<1> QED
  BY <1>5, <1>6, <1>7, <1>8, <1>9, <1>10, <1>11, <1>12, <1>13, <1>14
     DEF Next, PumpStep, CollectorStep

---------------------------------------------------------------------------
(* What follows for every behaviour of the pipeline.                       *)

THEOREM Invariance == Spec => []PipeInv
  BY InitPipe, NextPipe, PTL DEF Spec

\* The variables of the pipeline keep their types (Pipeline.h, WorkWrapper.h).
THEOREM TypeCorrect == Spec => []TypeOK
<1>1. PipeInv => TypeOK
  <2> SUFFICES ASSUME PipeInv PROVE TypeOK
    OBVIOUS
  <2>1. Pump!TypeOK
    BY DEF PipeInv, PumpProofs!IInv, PumpProofs!TypeOK, Pump!TypeOK, Pump!Calls,
           Pump!Threads, Pump!Places, PumpProofs!Calls, PumpProofs!Threads,
           PumpProofs!Places
  <2>2. stats \in [Elements -> 0 .. MaxFrames]
    <3> SUFFICES ASSUME NEW x \in Elements PROVE stats[x] \in 0 .. MaxFrames
      BY DEF PipeInv, StatsInv
    <3>1. N \in Elements
      BY DEF Elements
    <3>2. done[x] - stats[x] = done[N] - stats[N]
            + (IF collector.pc = "pop" /\ x < collector.e THEN 1 ELSE 0)
      BY DEF PipeInv, StatsInv, RowsAligned
    <3>3. /\ done[x] \in 0 .. MaxFrames /\ done[N] \in 0 .. MaxFrames
          /\ stats[x] \in Nat /\ stats[N] \in Nat /\ stats[N] <= done[N]
      BY <3>1 DEF PipeInv, StatsInv, FlowInv, FlowType
    <3> QED
      BY <3>2, <3>3
  <2> QED
    BY <2>1, <2>2 DEF TypeOK, PipeInv, StatsInv, FlowInv, FlowType
<1> QED
  BY Invariance, <1>1, PTL

\* collect_stats pops no empty queue, for any number of elements that push
\* while it loops.
THEOREM StatisticsSafe == Spec => []PopSafe
<1>1. PipeInv => PopSafe
  BY StatsPopSafe DEF PipeInv, StatsInv
<1> QED
  BY Invariance, <1>1, PTL

\* Each row that collect_stats pops is about one datum: whatever elements
\* push between two pops of a row, it pops from all queues alike.
THEOREM RowsStayAligned == Spec => []RowsAligned
<1>1. PipeInv => RowsAligned
  BY StatsPopSafe DEF PipeInv, StatsInv
<1> QED
  BY Invariance, <1>1, PTL

LEMMA InTransitExact == FlowInv => NoneLostNoneReordered
<1> SUFFICES ASSUME FlowInv, NEW e \in Workers
             PROVE InTransit(e) = [i \in 1 .. done[e - 1] - done[e] |-> done[e] + i]
  BY DEF NoneLostNoneReordered
<1> DEFINE first == IF PhaseOf(e) = "work" THEN <<holds[e]>> ELSE <<>>
           q == posted[e]
           last == IF PhaseOf(e - 1) = "next" THEN <<holds[e - 1]>> ELSE <<>>
           d == done[e]
           w == Working(e)
           n == done[e - 1] - done[e]
<1>1. e \in Elements /\ e - 1 \in Elements
  BY DEF Elements, Workers
<1>2. /\ holds[e] \in Nat /\ holds[e - 1] \in Nat /\ d \in Nat /\ done[e - 1] \in Nat
      /\ q \in Seq(1 .. MaxFrames)
  BY <1>1 DEF FlowInv, FlowType
<1>3. q \in Seq(Nat)
  BY <1>2
<1>4. /\ first \in Seq(Nat) /\ Len(first) = w /\ w \in 0 .. 1
      /\ \A i \in 1 .. Len(first) : first[i] = d + i
  <2>1. PhaseOf(e) = "work" => holds[e] = d + 1
    BY <1>1 DEF FlowInv, Held
  <2> QED
    BY <1>2, <2>1 DEF Working
<1>5. /\ last \in Seq(Nat) /\ Len(last) = Passing(e - 1) /\ Passing(e - 1) \in 0 .. 1
      /\ \A i \in 1 .. Len(last) : last[i] = done[e - 1]
  <2>1. PhaseOf(e - 1) = "next" => holds[e - 1] = done[e - 1]
    BY <1>1 DEF FlowInv, Held
  <2> QED
    BY <1>2, <2>1 DEF Passing
<1>6. done[e - 1] = d + w + Len(q) + Len(last)
  BY <1>5 DEF FlowInv, Counted
<1>7. \A i \in 1 .. Len(q) : q[i] = d + w + i
  BY DEF FlowInv, Queued
<1>8. InTransit(e) = (first \o q) \o last
  BY DEF InTransit
<1>9. done[e - 1] \in Int /\ d \in Int /\ Len(q) \in Nat
  BY <1>2
<1>10. n = w + Len(q) + Len(last)
  <2> HIDE DEF d, q, w, last
  <2> QED
    BY <1>4, <1>5, <1>6, <1>9 DEF d
<1> HIDE DEF first, q, last, d, w, n
<1>11. (first \o q) \o last \in Seq(Nat) /\ Len((first \o q) \o last) = n
  BY <1>3, <1>4, <1>5, <1>10
<1>12. ASSUME NEW i \in 1 .. n PROVE ((first \o q) \o last)[i] = d + i
  <2>1. CASE i <= w
    BY <2>1, <1>3, <1>4, <1>5, <1>10
  <2>2. CASE i > w /\ i <= w + Len(q)
    <3>1. ((first \o q) \o last)[i] = q[i - w]
      <4>1. first \o q \in Seq(Nat) /\ Len(first \o q) = w + Len(q)
        BY <1>3, <1>4
      <4>2. i \in 1 .. Len(first \o q)
        BY <4>1, <2>2
      <4>3. ((first \o q) \o last)[i] = (first \o q)[i]
        BY <4>1, <4>2, <1>5
      <4>4. (first \o q)[i] = q[i - w]
        BY <2>2, <4>1, <4>2, <1>3, <1>4
      <4> QED
        BY <4>3, <4>4
    <3>2. i - w \in 1 .. Len(q)
      BY <2>2, <1>3, <1>4
    <3>3. q[i - w] = d + w + (i - w)
      BY <3>2, <1>7
    <3> QED
      BY <3>1, <3>3, <1>4, <1>9
  <2>3. CASE i > w + Len(q)
    <3>1. i = n /\ Len(last) = 1
      BY <2>3, <1>3, <1>4, <1>5, <1>10
    <3>2. ((first \o q) \o last)[i] = last[1]
      BY <2>3, <3>1, <1>3, <1>4, <1>5, <1>10
    <3>3. last[1] = d + n
      BY <3>1, <1>3, <1>4, <1>5, <1>6, <1>9, <1>10
    <3> QED
      BY <3>1, <3>2, <3>3
  <2> QED
    BY <2>1, <2>2, <2>3, <1>3, <1>4, <1>10
<1>13. n \in Nat
  BY <1>4, <1>5, <1>9, <1>10
<1>14. [i \in 1 .. n |-> d + i] \in Seq(Nat)
  BY <1>2, <1>13 DEF d
<1>15. (first \o q) \o last = [i \in 1 .. n |-> d + i]
  <2> DEFINE s == (first \o q) \o last
             t == [i \in 1 .. n |-> d + i]
  <2>1. Len(t) = n /\ \A i \in 1 .. n : t[i] = d + i
    BY <1>13
  <2>2. s \in Seq(Nat) /\ t \in Seq(Nat) /\ Len(s) = n /\ \A i \in 1 .. n : s[i] = d + i
    BY <1>11, <1>12, <1>14
  <2> HIDE DEF s, t
  <2>3. s = t
    BY <2>1, <2>2, SeqEqual, Zenon
  <2> QED
    BY <2>3 DEF s, t
<1> QED
  BY <1>8, <1>15 DEF n, d

\* Between neighbours every datum is in transit once and in order: nothing is
\* lost, copied or reordered, for any number of elements, threads and data.
THEOREM NothingLost == Spec => []NoneLostNoneReordered
<1>1. PipeInv => NoneLostNoneReordered
  BY InTransitExact DEF PipeInv
<1> QED
  BY Invariance, <1>1, PTL

\* The works that may never return are fewer than the threads, so they never
\* hold all of them.
LEMMA ThreadsComeFree == ThreadForReady
<1> SUFFICES ASSUME ~FreeThread, ~Collecting
             PROVE  \E d \in Elements : PhaseOf(d) # "idle" /\ d \notin MayBlock
  BY DEF ThreadForReady
<1> DEFINE Busy == {e \in Elements : PhaseOf(e) # "idle"}
<1>1. IsFiniteSet(Elements)
  BY NAssumption, FS_Interval DEF Elements
<1>2. IsFiniteSet(Busy) /\ IsFiniteSet(MayBlock)
  BY <1>1, ThreadsAssumption, FS_Subset DEF Elements
<1>3. Cardinality(Busy) \in Nat /\ Cardinality(MayBlock) \in Nat
  BY <1>2, FS_CardinalityType
<1>4. ~(Cardinality(Busy) + 0 < NumThreads)
  BY DEF FreeThread, BusyThreads
<1> HIDE DEF Busy
<1>5. Cardinality(MayBlock) < Cardinality(Busy)
  BY <1>3, <1>4, ThreadsAssumption
<1>6. ~(Busy \subseteq MayBlock)
  <2>1. Busy \subseteq MayBlock => Cardinality(Busy) <= Cardinality(MayBlock)
    BY <1>2, FS_Subset
  <2> QED
    BY <1>3, <1>5, <2>1
<1> QED
  BY <1>6 DEF Busy

\* An element that is behind is served, for any number of elements and of
\* threads, if fewer works may block than there are threads.
THEOREM NobodyStarves == Spec => []BehindIsServed
<1>1. FlowInv => BehindIsServed
  <2> SUFFICES ASSUME FlowInv, NEW e \in Workers, done[e] < done[e - 1],
                      PhaseOf(e) = "idle", PhaseOf(e - 1) # "next"
               PROVE  posted[e] # <<>>
    BY ThreadsComeFree DEF BehindIsServed
  <2>1. done[e - 1] = done[e] + Working(e) + Len(posted[e]) + Passing(e - 1)
    BY DEF FlowInv, Counted
  <2>2. Working(e) = 0 /\ Passing(e - 1) = 0
    BY DEF Working, Passing
  <2>3. done[e] \in Nat /\ Len(posted[e]) \in Nat
    BY DEF FlowInv, FlowType, Workers, Elements
  <2>4. Len(posted[e]) # 0
    BY <2>1, <2>2, <2>3
  <2> QED
    BY <2>4
<1>2. PipeInv => FlowInv
  BY DEF PipeInv
<1> QED
  BY <1>1, <1>2, Invariance, PTL

\* The running pipeline implements its promise: each step of it finishes the
\* next datum of one element, or moves no element on.
THEOREM ImplementsConveyor == Spec => RefinesConveyor
<1>1. Init => Promise!Init
  BY DEF Init, Promise!Init, Elements
<1>2. PipeInv /\ [Next]_vars => [Promise!Next]_done
  <2> SUFFICES ASSUME PipeInv, [Next]_vars, done' # done PROVE Promise!Next
    OBVIOUS
  <2>1. ASSUME NEW e \in Elements, PhaseOf(e) = "work",
               done' = [done EXCEPT ![e] = holds[e]]
        PROVE  Promise!Next
    <3>1. holds[e] = done[e] + 1
      BY <2>1 DEF PipeInv, FlowInv, Held
    <3>2. e > 1 => done[e] < done[e - 1]
      <4> SUFFICES ASSUME e > 1 PROVE done[e] < done[e - 1]
        OBVIOUS
      <4>1. e \in Workers /\ e - 1 \in Elements
        BY DEF Workers, Elements
      <4>2. done[e - 1] = done[e] + 1 + Len(posted[e]) + Passing(e - 1)
        BY <2>1, <4>1 DEF PipeInv, FlowInv, Counted, Working
      <4>3. /\ done[e - 1] \in Nat /\ done[e] \in Nat /\ Passing(e - 1) \in 0 .. 1
            /\ Len(posted[e]) \in Nat
        BY <4>1 DEF PipeInv, FlowInv, FlowType, Passing
      <4> QED
        BY <4>2, <4>3
    <3>3. Promise!Finish(e)
      BY <2>1, <3>1, <3>2 DEF Promise!Finish
    <3> QED
      BY <3>3 DEF Promise!Next, Elements
  <2>2. CASE PumpFinishes
    <3>1. 1 \in Elements
      BY DEF Elements
    <3>2. PhaseOf(1) = "work" /\ done' = [done EXCEPT ![1] = holds[1]]
      BY <2>2 DEF PumpFinishes, Pump!EndWork, PhaseOf
    <3> QED
      BY <2>1, <3>1, <3>2
  <2>3. ASSUME NEW e \in Workers, Finish(e) PROVE Promise!Next
    <3>1. e \in Elements /\ e # 1
      BY DEF Elements, Workers
    <3>2. PhaseOf(e) = "work" /\ done' = [done EXCEPT ![e] = holds[e]]
      BY <2>3, <3>1 DEF Finish, PhaseOf
    <3> QED
      BY <2>1, <3>1, <3>2
  <2>4. ~PumpBegins /\ ~PumpPosts /\ ~PumpOnly /\ ~OwnerReturns
    BY DEF PumpBegins, PumpPosts, PumpOnly, OwnerReturns, flowVars
  <2>5. \A e \in Workers : ~Begin(e) /\ ~Post(e)
    BY DEF Begin, Post
  <2>6. \A e \in Elements : ~Throws(e)
    BY DEF Throws, flowVars
  <2>7. ~CollectorStep
    BY DEF CollectorStep, StatsTimerExpires, CollectBegins, CollectTests,
           CollectPops, CollectorOnly
  <2>8. ~UNCHANGED vars
    BY DEF vars, flowVars
  <2> QED
    BY <2>2, <2>3, <2>4, <2>5, <2>6, <2>7, <2>8 DEF Next, PumpStep, WorkerStep
<1> QED
  BY Invariance, <1>1, <1>2, PTL DEF Spec, RefinesConveyor, Promise!Spec
=============================================================================
