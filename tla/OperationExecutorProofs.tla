----------------------- MODULE OperationExecutorProofs -----------------------
(***************************************************************************)
(* Proofs about OperationExecutor, for any number of requests, workers and *)
(* any capacity.                                                           *)
(***************************************************************************)
EXTENDS OperationExecutor, FiniteSetTheorems, SequenceTheorems, TLAPS

(* Admission appends a call that is not in the sequence yet.               *)
LEMMA AppendFacts ==
  ASSUME NEW S, NEW s \in Seq(S), NEW x \in S
  PROVE  /\ Append(s, x) \in Seq(S)
         /\ Len(Append(s, x)) = Len(s) + 1
         /\ ToSet(Append(s, x)) = ToSet(s) \cup {x}
         /\ IsInjective(s) /\ x \notin ToSet(s) => IsInjective(Append(s, x))
<1> DEFINE t == Append(s, x)
<1>1. /\ t \in Seq(S) /\ Len(t) = Len(s) + 1
      /\ DOMAIN t = 1..(Len(s) + 1) /\ DOMAIN s = 1..Len(s)
      /\ t[Len(s) + 1] = x /\ \A i \in 1..Len(s) : t[i] = s[i]
  OBVIOUS
<1>2. Len(s) \in Nat
  OBVIOUS
<1> HIDE DEF t
<1>3. ToSet(t) = ToSet(s) \cup {x}
  <2>1. ASSUME NEW y \in ToSet(t) PROVE y \in ToSet(s) \cup {x}
    BY <1>1, <1>2, <2>1 DEF ToSet
  <2>2. ASSUME NEW y \in ToSet(s) \cup {x} PROVE y \in ToSet(t)
    BY <1>1, <1>2, <2>2 DEF ToSet
  <2> QED
    BY <2>1, <2>2
<1>4. ASSUME IsInjective(s), x \notin ToSet(s) PROVE IsInjective(t)
  BY <1>1, <1>2, <1>4 DEF ToSet, IsInjective
<1> QED
  BY <1>1, <1>3, <1>4 DEF t

(* A worker takes the front of the queue.                                  *)
LEMMA TailFacts ==
  ASSUME NEW S, NEW s \in Seq(S), s # <<>>
  PROVE  /\ Head(s) \in S /\ Head(s) \in ToSet(s)
         /\ Tail(s) \in Seq(S)
         /\ ToSet(Tail(s)) \subseteq ToSet(s)
         /\ IsInjective(s) => /\ Head(s) \notin ToSet(Tail(s))
                              /\ IsInjective(Tail(s))
<1> DEFINE t == Tail(s)
<1>1. /\ t \in Seq(S) /\ Len(s) \in Nat \ {0}
      /\ DOMAIN t = 1..(Len(s) - 1) /\ DOMAIN s = 1..Len(s)
      /\ Head(s) = s[1] /\ \A i \in 1..(Len(s) - 1) : t[i] = s[i + 1]
  OBVIOUS
<1> HIDE DEF t
<1>2. Head(s) \in S /\ Head(s) \in ToSet(s)
  BY <1>1 DEF ToSet
<1>3. ToSet(t) \subseteq ToSet(s)
  BY <1>1, SMTT(30) DEF ToSet
<1>4. ASSUME IsInjective(s) PROVE Head(s) \notin ToSet(t) /\ IsInjective(t)
  <2>1. ASSUME NEW i \in 1..(Len(s) - 1) PROVE t[i] # s[1]
    <3>1. t[i] = s[i + 1] /\ i + 1 \in DOMAIN s /\ 1 \in DOMAIN s /\ i + 1 # 1
      BY <1>1
    <3> QED
      BY <1>4, <3>1 DEF IsInjective
  <2>2. ASSUME NEW i \in DOMAIN t, NEW j \in DOMAIN t, t[i] = t[j] PROVE i = j
    <3>1. i + 1 \in DOMAIN s /\ j + 1 \in DOMAIN s /\ s[i + 1] = s[j + 1]
      BY <1>1, <2>2
    <3>2. i + 1 = j + 1
      BY <1>4, <3>1 DEF IsInjective
    <3> QED
      BY <1>1, <3>2
  <2> QED
    BY <1>1, <2>1, <2>2 DEF ToSet, IsInjective
<1> QED
  BY <1>1, <1>2, <1>3, <1>4 DEF t

(* finish() erases one call from pending_ and leaves the others.           *)
LEMMA EraseFacts ==
  ASSUME NEW S, NEW s \in Seq(S), NEW x, IsInjective(s)
  PROVE  /\ Erase(s, x) \in Seq(S)
         /\ Len(Erase(s, x)) <= Len(s)
         /\ ToSet(Erase(s, x)) = ToSet(s) \ {x}
         /\ IsInjective(Erase(s, x))
<1>1. CASE ~ \E i \in DOMAIN s : s[i] = x
  <2>1. Erase(s, x) = s
    BY <1>1 DEF Erase
  <2>2. x \notin ToSet(s)
    BY <1>1 DEF ToSet
  <2> QED
    BY <2>1, <2>2
<1>2. CASE \E i \in DOMAIN s : s[i] = x
  <2> DEFINE k == CHOOSE i \in DOMAIN s : s[i] = x
             t == RemoveAt(s, k)
  <2>1. k \in 1..Len(s) /\ s[k] = x /\ DOMAIN s = 1..Len(s) /\ Len(s) \in Nat
    BY <1>2
  <2>2. Erase(s, x) = t
    BY <1>2 DEF Erase
  <2> HIDE DEF k
  <2>3. /\ t \in Seq(S) /\ Len(t) = Len(s) - 1 /\ DOMAIN t = 1..(Len(s) - 1)
        /\ \A i \in 1..(Len(s) - 1) : t[i] = IF i < k THEN s[i] ELSE s[i + 1]
    <3> DEFINE a == SubSeq(s, 1, k - 1)
               b == SubSeq(s, k + 1, Len(s))
    <3>1. /\ a \in Seq(S) /\ Len(a) = k - 1
          /\ \A i \in 1..(k - 1) : a[i] = s[i]
      <4>1. \A i \in 1..(k - 1) : s[i] \in S
        BY <2>1
      <4>2. /\ a \in Seq(S) /\ Len(a) = IF 1 <= k - 1 THEN k - 1 - 1 + 1 ELSE 0
            /\ \A i \in 1..(k - 1 - 1 + 1) : a[i] = s[1 + i - 1]
        BY <2>1, <4>1, SubSeqProperties
      <4> QED
        BY <2>1, <4>2
    <3>2. /\ b \in Seq(S) /\ Len(b) = Len(s) - k
          /\ \A i \in 1..(Len(s) - k) : b[i] = s[i + k]
      <4>1. \A i \in (k + 1)..Len(s) : s[i] \in S
        BY <2>1
      <4>2. /\ b \in Seq(S)
            /\ Len(b) = IF k + 1 <= Len(s) THEN Len(s) - (k + 1) + 1 ELSE 0
        BY <2>1, <4>1, SubSeqProperties
      <4>3. \A i \in 1..(Len(s) - (k + 1) + 1) : b[i] = s[k + 1 + i - 1]
        BY <2>1, <4>1, SubSeqProperties
      <4> HIDE DEF b
      <4>4. Len(b) = Len(s) - k
        <5>1. k \in Int /\ Len(s) \in Int /\ 1 <= k /\ k <= Len(s)
          BY <2>1
        <5> QED
          BY <4>2, <5>1
      <4>5. ASSUME NEW i \in 1..(Len(s) - k) PROVE b[i] = s[i + k]
        <5>1. i \in 1..(Len(s) - (k + 1) + 1) /\ k + 1 + i - 1 = i + k
          BY <2>1
        <5>2. b[i] = s[k + 1 + i - 1]
          BY <4>3, <5>1
        <5> QED
          BY <5>1, <5>2
      <4> QED
        BY <4>2, <4>4, <4>5
    <3>3. t = a \o b
      BY DEF RemoveAt
    <3> HIDE DEF a, b, t
    <3>4. /\ t \in Seq(S) /\ Len(t) = Len(a) + Len(b)
          /\ \A i \in 1..(Len(a) + Len(b)) :
               t[i] = IF i <= Len(a) THEN a[i] ELSE b[i - Len(a)]
      BY <3>1, <3>2, <3>3, ConcatProperties
    <3>5. ASSUME NEW i \in 1..(Len(s) - 1)
          PROVE  t[i] = IF i < k THEN s[i] ELSE s[i + 1]
      <4>1. CASE i < k
        <5>1. i \in 1..(Len(a) + Len(b)) /\ i <= Len(a) /\ i \in 1..(k - 1)
          BY <2>1, <3>1, <3>2, <4>1
        <5> QED
          BY <3>1, <3>4, <4>1, <5>1
      <4>2. CASE i >= k
        <5>1. i - (k - 1) \in 1..(Len(s) - k) /\ i - (k - 1) + k = i + 1
          BY <2>1, <4>2
        <5>2. t[i] = b[i - (k - 1)]
          BY <2>1, <3>1, <3>2, <3>4, <4>2
        <5>3. b[i - (k - 1)] = s[i - (k - 1) + k]
          BY <3>2, <5>1
        <5>4. ~ i < k
          BY <2>1, <4>2
        <5> QED
          BY <5>1, <5>2, <5>3, <5>4
      <4> QED
        BY <2>1, <4>1, <4>2
    <3> QED
      BY <2>1, <3>1, <3>2, <3>4, <3>5
  <2> HIDE DEF t
  <2>4. ASSUME NEW y \in ToSet(t) PROVE y \in ToSet(s) \ {x}
    <3>1. PICK i \in 1..(Len(s) - 1) : y = t[i]
      BY <2>3 DEF ToSet
    <3>2. PICK j \in 1..Len(s) : j # k /\ y = s[j]
      BY <2>1, <2>3, <3>1
    <3> QED
      BY <2>1, <3>2 DEF ToSet, IsInjective
  <2>5. ASSUME NEW y \in ToSet(s) \ {x} PROVE y \in ToSet(t)
    <3>1. PICK j \in 1..Len(s) : j # k /\ y = s[j]
      BY <2>1 DEF ToSet
    <3>2. CASE j < k
      BY <2>1, <2>3, <3>1, <3>2 DEF ToSet
    <3>3. CASE j > k
      <4>1. j - 1 \in 1..(Len(s) - 1) /\ t[j - 1] = s[j]
        BY <2>1, <2>3, <3>1, <3>3
      <4> QED
        BY <2>3, <3>1, <4>1 DEF ToSet
    <3> QED
      BY <2>1, <3>1, <3>2, <3>3
  <2>6. IsInjective(t)
    BY <2>1, <2>3, SMTT(30) DEF IsInjective
  <2> QED
    BY <2>1, <2>2, <2>3, <2>4, <2>5, <2>6
<1> QED
  BY <1>1, <1>2
(* The only sequence with no element is the empty one.                     *)
LEMMA NothingIn ==
  ASSUME NEW S, NEW s \in Seq(S), Len(s) <= 0
  PROVE  s = <<>>
OBVIOUS

(* A step of the HTTP worker that handles o keeps the invariant.           *)
LEMMA HandlerStep ==
  ASSUME IInv, NEW o \in Ops, Handler(o)
  PROVE  IInv'
<1> USE ExecutorAssumption
    DEF netVars, execVars, workerVars, reaperVars, invVars, appVars
<1> TypeOK /\ QueueInv /\ RequestInv /\ WorkerInv /\ ReaperInv /\ AppInv /\ CloserInv
  BY DEF IInv
<1>1. CASE Prepare(o)
  <2>1. PICK s \in BOOLEAN : send' = [send EXCEPT ![o] = s]
    BY <1>1 DEF Prepare
  <2>2. \A p : Fresh(p)' <=> Fresh(p)
    BY <1>1 DEF Prepare, Fresh
  <2>3. Fresh(o) /\ o \notin ToSet(pending)
    BY <1>1 DEF Prepare, RequestInv
  <2>4. TypeOK'
    BY <1>1, <2>1, <2>2, <2>3 DEF Prepare, TypeOK, Answers, Results, Busy
  <2>5. RequestInv'
    BY <1>1, <2>1, <2>2, <2>3 DEF Prepare, RequestInv, TypeOK
  <2>6. WorkerInv'
    BY <1>1, <2>1, <2>2, <2>3 DEF Prepare, WorkerInv, Busy, TypeOK
  <2>7. AppInv'
    BY <1>1, <2>1, <2>2, <2>3 DEF Prepare, AppInv, Retention, TypeOK, Fresh
  <2>8. CloserInv'
    BY <1>1, <2>1, <2>2, <2>3 DEF Prepare, CloserInv, NetworkJoined, TypeOK
  <2>9. QueueInv' /\ ReaperInv'
    BY <1>1 DEF Prepare, QueueInv, CapacityBound, ReaperInv, Fresh
  <2> QED
    BY <2>4, <2>5, <2>6, <2>7, <2>8, <2>9 DEF IInv
<1>2. CASE PrepareFails(o)
  <2>1. PICK a \in {"mismatch", "unavailable", "error"} : Answer(o, a)
    BY <1>2 DEF PrepareFails
  <2>2. \A p : Fresh(p)' <=> Fresh(p)
    BY <1>2 DEF PrepareFails, Fresh
  <2>3. TypeOK'
    BY <1>2, <2>1, <2>2
       DEF PrepareFails, Answer, TypeOK, Answers, Results, Busy
  <2>4. RequestInv'
    BY <1>2, <2>1, <2>2 DEF PrepareFails, Answer, RequestInv, TypeOK
  <2>5. CloserInv'
    BY <1>2, <2>1, <2>2
       DEF PrepareFails, Answer, CloserInv, NetworkJoined, TypeOK
  <2>6. QueueInv' /\ WorkerInv' /\ ReaperInv' /\ AppInv'
    BY <1>2
       DEF PrepareFails, Answer, QueueInv, CapacityBound, WorkerInv, Busy,
           ReaperInv, AppInv, Retention, Fresh
  <2> QED
    BY <2>3, <2>4, <2>5, <2>6 DEF IInv
<1>3. CASE Admit(o)
  <2>1. \A p : Fresh(p)' <=> Fresh(p)
    BY <1>3 DEF Admit, Fresh
  <2>2. Fresh(o) /\ o \notin ToSet(pending) /\ o \notin ToSet(queue)
    BY <1>3 DEF Admit, RequestInv, QueueInv, CapacityBound
  <2>3. /\ pending' \in Seq(Ops) /\ Len(pending') = Len(pending) + 1
        /\ ToSet(pending') = ToSet(pending) \cup {o} /\ IsInjective(pending')
    BY <1>3, <2>2, AppendFacts DEF Admit, TypeOK, QueueInv, CapacityBound
  <2>4. /\ queue' \in Seq(Ops)
        /\ ToSet(queue') = ToSet(queue) \cup {o} /\ IsInjective(queue')
    BY <1>3, <2>2, AppendFacts DEF Admit, TypeOK, QueueInv, CapacityBound
  <2>5. TypeOK'
    BY <1>3, <2>1, <2>2, <2>3, <2>4
       DEF Admit, NotifyAll, TypeOK, Answers, Results, Busy
  <2>6. QueueInv'
    BY <1>3, <2>1, <2>2, <2>3, <2>4
       DEF Admit, NotifyAll, QueueInv, CapacityBound, TypeOK, Full
  <2>7. RequestInv'
    BY <1>3, <2>1, <2>2, <2>3, <2>4 DEF Admit, NotifyAll, RequestInv, TypeOK
  <2>8. WorkerInv'
    BY <1>3, <2>1, <2>2, <2>3, <2>4
       DEF Admit, NotifyAll, WorkerInv, Busy, TypeOK
  <2>9. AppInv'
    BY <1>3, <2>1, <2>2, <2>3, <2>4
       DEF Admit, NotifyAll, AppInv, Retention, TypeOK
  <2>10. CloserInv'
    BY <1>3, <2>1, <2>2, <2>3, <2>4
       DEF Admit, NotifyAll, CloserInv, NetworkJoined, TypeOK
  <2>11. ReaperInv'
    BY <1>3 DEF Admit, NotifyAll, ReaperInv
  <2> QED
    BY <2>5, <2>6, <2>7, <2>8, <2>9, <2>10, <2>11 DEF IInv
<1>4. CASE RefuseCapacity(o)
  <2>1. PICK a \in {"capacity"} : Answer(o, a)
    BY <1>4 DEF RefuseCapacity
  <2>2. \A p : Fresh(p)' <=> Fresh(p)
    BY <1>4 DEF RefuseCapacity, Fresh
  <2>3. TypeOK'
    BY <1>4, <2>1, <2>2
       DEF RefuseCapacity, Answer, TypeOK, Answers, Results, Busy
  <2>4. RequestInv'
    BY <1>4, <2>1, <2>2 DEF RefuseCapacity, Answer, RequestInv, TypeOK
  <2>5. CloserInv'
    BY <1>4, <2>1, <2>2
       DEF RefuseCapacity, Answer, CloserInv, NetworkJoined, TypeOK
  <2>6. QueueInv' /\ WorkerInv' /\ ReaperInv' /\ AppInv'
    BY <1>4
       DEF RefuseCapacity, Answer, QueueInv, CapacityBound, WorkerInv, Busy,
           ReaperInv, AppInv, Retention, Fresh
  <2> QED
    BY <2>3, <2>4, <2>5, <2>6 DEF IInv
<1>5. CASE RefuseClosed(o)
  <2>1. PICK a \in {"closed"} : Answer(o, a)
    BY <1>5 DEF RefuseClosed
  <2>2. \A p : Fresh(p)' <=> Fresh(p)
    BY <1>5 DEF RefuseClosed, Fresh
  <2>3. TypeOK'
    BY <1>5, <2>1, <2>2
       DEF RefuseClosed, Answer, TypeOK, Answers, Results, Busy
  <2>4. RequestInv'
    BY <1>5, <2>1, <2>2 DEF RefuseClosed, Answer, RequestInv, TypeOK
  <2>5. CloserInv'
    BY <1>5, <2>1, <2>2
       DEF RefuseClosed, Answer, CloserInv, NetworkJoined, TypeOK
  <2>6. QueueInv' /\ WorkerInv' /\ ReaperInv' /\ AppInv'
    BY <1>5
       DEF RefuseClosed, Answer, QueueInv, CapacityBound, WorkerInv, Busy,
           ReaperInv, AppInv, Retention, Fresh
  <2> QED
    BY <2>3, <2>4, <2>5, <2>6 DEF IInv
<1>6. CASE AdmitThrows(o)
  <2>1. PICK a \in {"error"} : Answer(o, a)
    BY <1>6 DEF AdmitThrows
  <2>2. \A p : Fresh(p)' <=> Fresh(p)
    BY <1>6 DEF AdmitThrows, Fresh
  <2>3. TypeOK'
    BY <1>6, <2>1, <2>2
       DEF AdmitThrows, Answer, TypeOK, Answers, Results, Busy
  <2>4. RequestInv'
    BY <1>6, <2>1, <2>2 DEF AdmitThrows, Answer, RequestInv, TypeOK
  <2>5. CloserInv'
    BY <1>6, <2>1, <2>2
       DEF AdmitThrows, Answer, CloserInv, NetworkJoined, TypeOK
  <2>6. QueueInv' /\ WorkerInv' /\ ReaperInv' /\ AppInv'
    BY <1>6
       DEF AdmitThrows, Answer, QueueInv, CapacityBound, WorkerInv, Busy,
           ReaperInv, AppInv, Retention, Fresh
  <2> QED
    BY <2>3, <2>4, <2>5, <2>6 DEF IInv
<1>7. CASE TimeOut(o)
  <2>1. PICK a \in {"timeout", "error"} : Answer(o, a)
    BY <1>7 DEF TimeOut
  <2>2. \A p : Fresh(p)' <=> Fresh(p)
    BY <1>7 DEF TimeOut, Fresh
  <2>3. TypeOK'
    BY <1>7, <2>1, <2>2 DEF TimeOut, Answer, TypeOK, Answers, Results, Busy
  <2>4. RequestInv'
    BY <1>7, <2>1, <2>2 DEF TimeOut, Answer, RequestInv, TypeOK
  <2>5. CloserInv'
    BY <1>7, <2>1, <2>2 DEF TimeOut, Answer, CloserInv, NetworkJoined, TypeOK
  <2>6. QueueInv' /\ WorkerInv' /\ ReaperInv' /\ AppInv'
    BY <1>7
       DEF TimeOut, Answer, QueueInv, CapacityBound, WorkerInv, Busy,
           ReaperInv, AppInv, Retention, Fresh
  <2> QED
    BY <2>3, <2>4, <2>5, <2>6 DEF IInv
<1>8. CASE Respond(o)
  <2>1. PICK a \in {status[o], "error"} : Answer(o, a)
    BY <1>8 DEF Respond
  <2>1a. a \in Results
    BY <2>1 DEF TypeOK, Results
  <2>2. \A p : Fresh(p)' <=> Fresh(p)
    BY <1>8 DEF Respond, Fresh
  <2>3. a = "ok" => app[o] = "returned"
    BY <1>8, <2>1 DEF Respond, AppInv
  <2>4. TypeOK'
    BY <1>8, <2>1a, <2>1, <2>2, <2>3
       DEF Respond, Answer, TypeOK, Answers, Results, Busy
  <2>5. RequestInv'
    BY <1>8, <2>1a, <2>1, <2>2, <2>3 DEF Respond, Answer, RequestInv, TypeOK, Results
  <2>6. CloserInv'
    BY <1>8, <2>1, <2>2, <2>3
       DEF Respond, Answer, CloserInv, NetworkJoined, TypeOK
  <2>7. QueueInv' /\ WorkerInv' /\ ReaperInv' /\ AppInv'
    BY <1>8
       DEF Respond, Answer, QueueInv, CapacityBound, WorkerInv, Busy,
           ReaperInv, AppInv, Retention, Fresh
  <2> QED
    BY <2>4, <2>5, <2>6, <2>7 DEF IInv
<1> QED
  BY <1>1, <1>2, <1>3, <1>4, <1>5, <1>6, <1>7, <1>8 DEF Handler

(* A step of worker w keeps the invariant.                                 *)
LEMMA WorkerStep ==
  ASSUME IInv, NEW w \in Workers, Worker(w)
  PROVE  IInv'
<1> USE ExecutorAssumption
    DEF netVars, execVars, workerVars, reaperVars, invVars, appVars
<1> TypeOK /\ QueueInv /\ RequestInv /\ WorkerInv /\ ReaperInv /\ AppInv /\ CloserInv
  BY DEF IInv
<1>1. CASE WorkerSleep(w)
  <2>1. TypeOK'
    BY <1>1 DEF WorkerSleep, TypeOK, Answers, Results, Busy
  <2>2. QueueInv' /\ RequestInv' /\ WorkerInv' /\ ReaperInv' /\ AppInv' /\ CloserInv'
    BY <1>1
       DEF WorkerSleep, QueueInv, CapacityBound, RequestInv, WorkerInv, Busy,
           ReaperInv, AppInv, Retention, CloserInv, NetworkJoined, Fresh
  <2> QED
    BY <2>1, <2>2 DEF IInv
<1>2. CASE WorkerExit(w)
  <2>1. \A p : Fresh(p)' <=> Fresh(p)
    BY <1>2 DEF WorkerExit, Fresh
  <2>2. TypeOK'
    BY <1>2, <2>1 DEF WorkerExit, TypeOK, Answers, Results, Busy
  <2>3. WorkerInv'
    BY <1>2, <2>1 DEF WorkerExit, WorkerInv, Busy, TypeOK
  <2>4. QueueInv' /\ RequestInv' /\ ReaperInv' /\ AppInv' /\ CloserInv'
    BY <1>2
       DEF WorkerExit, QueueInv, CapacityBound, RequestInv, ReaperInv, AppInv,
           Retention, CloserInv, NetworkJoined, Fresh
  <2> QED
    BY <2>2, <2>3, <2>4 DEF IInv
<1>3. CASE WorkerTake(w)
  <2>1. \A p : Fresh(p)' <=> Fresh(p)
    BY <1>3 DEF WorkerTake, Fresh
  <2>2. /\ Head(queue) \in Ops /\ Head(queue) \in ToSet(queue)
        /\ Head(queue) \in ToSet(pending) /\ Head(queue) \notin ToSet(queue')
        /\ queue' \in Seq(Ops) /\ ToSet(queue') \subseteq ToSet(queue)
        /\ IsInjective(queue') /\ Fresh(Head(queue))
    BY <1>3, TailFacts DEF WorkerTake, TypeOK, QueueInv, CapacityBound
  <2>3. TypeOK'
    BY <1>3, <2>1, <2>2 DEF WorkerTake, TypeOK, Answers, Results, Busy
  <2>4. QueueInv'
    BY <1>3, <2>1, <2>2 DEF WorkerTake, QueueInv, CapacityBound, TypeOK
  <2>5. WorkerInv'
    BY <1>3, <2>1, <2>2 DEF WorkerTake, WorkerInv, Busy, TypeOK, Fresh
  <2>6. RequestInv' /\ ReaperInv' /\ AppInv' /\ CloserInv'
    BY <1>3
       DEF WorkerTake, RequestInv, ReaperInv, AppInv, Retention, CloserInv,
           NetworkJoined, Fresh
  <2> QED
    BY <2>3, <2>4, <2>5, <2>6 DEF IInv
<1>4. CASE CallEnter(w)
  <2>1. /\ wop[w] \in Ops /\ wop[w] \in ToSet(pending) /\ wop[w] \notin ToSet(queue)
        /\ ~sent[wop[w]] /\ \A v \in Workers : wop[v] = wop[w] => v = w
        /\ Fresh(wop[w]) /\ ~send[wop[w]]
    BY <1>4 DEF CallEnter, WorkerInv, Busy
  <2>2. \A p \in Ops : p # wop[w] => (Fresh(p)' <=> Fresh(p))
    BY <1>4 DEF CallEnter, Fresh, TypeOK
  <2>3. TypeOK'
    BY <1>4, <2>1, <2>2 DEF CallEnter, TypeOK, Answers, Results, Busy
  <2>4. QueueInv'
    BY <1>4, <2>1, <2>2 DEF CallEnter, QueueInv, CapacityBound, TypeOK, Fresh
  <2>5. RequestInv'
    BY <1>4, <2>1, <2>2 DEF CallEnter, RequestInv, TypeOK, Fresh
  <2>6. WorkerInv'
    BY <1>4, <2>1, <2>2 DEF CallEnter, WorkerInv, Busy, TypeOK, Fresh
  <2>7. ReaperInv'
    BY <1>4, <2>1, <2>2 DEF CallEnter, ReaperInv, TypeOK, Fresh
  <2>8. AppInv'
    BY <1>4, <2>1, <2>2 DEF CallEnter, AppInv, Retention, TypeOK, Fresh
  <2>9. CloserInv'
    BY <1>4 DEF CallEnter, CloserInv, NetworkJoined
  <2> QED
    BY <2>3, <2>4, <2>5, <2>6, <2>7, <2>8, <2>9 DEF IInv
<1>5. CASE CallReturn(w)
  <2>1. /\ wop[w] \in Ops /\ wop[w] \in ToSet(pending) /\ wop[w] \notin ToSet(queue)
        /\ ~sent[wop[w]] /\ \A v \in Workers : wop[v] = wop[w] => v = w
        /\ app[wop[w]] = "running" /\ ~send[wop[w]] /\ ~complete[wop[w]]
    BY <1>5 DEF CallReturn, WorkerInv, Busy
  <2>2. PICK r \in {"ok", "error"} :
          /\ app' = [app EXCEPT ![wop[w]] = IF r = "ok" THEN "returned" ELSE "threw"]
          /\ wresult' = [wresult EXCEPT ![w] = r]
    BY <1>5 DEF CallReturn
  <2>3. \A p \in Ops : p # wop[w] => (Fresh(p)' <=> Fresh(p))
    BY <1>5 DEF CallReturn, Fresh, TypeOK
  <2>4. TypeOK'
    BY <1>5, <2>1, <2>2, <2>3 DEF CallReturn, TypeOK, Answers, Results, Busy
  <2>5. QueueInv'
    BY <1>5, <2>1, <2>2, <2>3 DEF CallReturn, QueueInv, CapacityBound, TypeOK
  <2>6. RequestInv'
    BY <1>5, <2>1, <2>2, <2>3 DEF CallReturn, RequestInv, TypeOK, Fresh
  <2>7. WorkerInv'
    BY <1>5, <2>1, <2>2, <2>3
       DEF CallReturn, WorkerInv, Busy, TypeOK, Fresh, Final
  <2>8. ReaperInv'
    BY <1>5, <2>1, <2>2, <2>3 DEF CallReturn, ReaperInv, TypeOK, Final
  <2>9. AppInv'
    BY <1>5, <2>1, <2>2, <2>3 DEF CallReturn, AppInv, Retention, TypeOK, Fresh
  <2>10. CloserInv'
    BY <1>5 DEF CallReturn, CloserInv, NetworkJoined
  <2> QED
    BY <2>4, <2>5, <2>6, <2>7, <2>8, <2>9, <2>10 DEF IInv
<1>6. CASE CallRefused(w)
  <2>1. /\ wop[w] \in Ops /\ wop[w] \in ToSet(pending) /\ wop[w] \notin ToSet(queue)
        /\ ~sent[wop[w]] /\ \A v \in Workers : wop[v] = wop[w] => v = w
        /\ Fresh(wop[w]) /\ ~send[wop[w]]
    BY <1>6 DEF CallRefused, WorkerInv, Busy
  <2>2. \A p \in Ops : p # wop[w] => (Fresh(p)' <=> Fresh(p))
    BY <1>6 DEF CallRefused, Fresh, TypeOK
  <2>3. TypeOK'
    BY <1>6, <2>1, <2>2 DEF CallRefused, TypeOK, Answers, Results, Busy
  <2>4. QueueInv'
    BY <1>6, <2>1, <2>2
       DEF CallRefused, QueueInv, CapacityBound, TypeOK, Fresh
  <2>5. RequestInv'
    BY <1>6, <2>1, <2>2 DEF CallRefused, RequestInv, TypeOK, Fresh
  <2>6. WorkerInv'
    BY <1>6, <2>1, <2>2 DEF CallRefused, WorkerInv, Busy, TypeOK, Fresh, Final
  <2>7. ReaperInv'
    BY <1>6, <2>1, <2>2 DEF CallRefused, ReaperInv, TypeOK, Fresh
  <2>8. AppInv'
    BY <1>6, <2>1, <2>2 DEF CallRefused, AppInv, Retention, TypeOK, Fresh
  <2>9. CloserInv'
    BY <1>6 DEF CallRefused, CloserInv, NetworkJoined
  <2> QED
    BY <2>3, <2>4, <2>5, <2>6, <2>7, <2>8, <2>9 DEF IInv
<1>7. CASE WorkerComplete(w)
  <2>1. /\ wop[w] \in Ops /\ wop[w] \in ToSet(pending) /\ wop[w] \notin ToSet(queue)
        /\ ~sent[wop[w]] /\ \A v \in Workers : wop[v] = wop[w] => v = w
        /\ app[wop[w]] \in Final /\ ~complete[wop[w]] /\ ~send[wop[w]]
        /\ (wresult[w] = "ok" => app[wop[w]] = "returned")
        /\ (wresult[w] = "unavailable" => app[wop[w]] # "returned")
    BY <1>7 DEF WorkerComplete, WorkerInv, Busy
  <2>2. \A p \in Ops : p # wop[w] => (Fresh(p)' <=> Fresh(p))
    BY <1>7 DEF WorkerComplete, SetComplete, Fresh, TypeOK
  <2>3. TypeOK'
    BY <1>7, <2>1, <2>2
       DEF WorkerComplete, SetComplete, TypeOK, Answers, Results, Busy
  <2>4. QueueInv'
    BY <1>7, <2>1, <2>2
       DEF WorkerComplete, SetComplete, QueueInv, CapacityBound, TypeOK
  <2>5. RequestInv'
    BY <1>7, <2>1, <2>2
       DEF WorkerComplete, SetComplete, RequestInv, TypeOK, Fresh
  <2>6. WorkerInv'
    BY <1>7, <2>1, <2>2
       DEF WorkerComplete, SetComplete, WorkerInv, Busy, TypeOK, Fresh, Final
  <2>7. ReaperInv'
    BY <1>7, <2>1, <2>2 DEF WorkerComplete, SetComplete, ReaperInv, TypeOK
  <2>8. AppInv'
    BY <1>7, <2>1, <2>2
       DEF WorkerComplete, SetComplete, AppInv, Retention, TypeOK
  <2>9. CloserInv'
    BY <1>7 DEF WorkerComplete, SetComplete, CloserInv, NetworkJoined
  <2> QED
    BY <2>3, <2>4, <2>5, <2>6, <2>7, <2>8, <2>9 DEF IInv
<1>8. CASE WorkerRelease(w)
  <2>1. /\ wop[w] \in Ops /\ wop[w] \in ToSet(pending) /\ wop[w] \notin ToSet(queue)
        /\ ~sent[wop[w]] /\ complete[wop[w]] /\ app[wop[w]] # "none"
        /\ \A v \in Workers : wop[v] = wop[w] => v = w
    BY <1>8 DEF WorkerRelease, WorkerInv, Busy, AppInv, Final
  <2>2. \A p : Fresh(p)' <=> Fresh(p)
    BY <1>8 DEF WorkerRelease, Fresh
  <2>3. /\ pending' \in Seq(Ops) /\ Len(pending') <= Len(pending)
        /\ ToSet(pending') = ToSet(pending) \ {wop[w]} /\ IsInjective(pending')
    BY <1>8, EraseFacts
       DEF WorkerRelease, Release, TypeOK, QueueInv, CapacityBound
  <2>4. TypeOK'
    BY <1>8, <2>1, <2>2, <2>3
       DEF WorkerRelease, Release, NotifyAll, TypeOK, Answers, Results, Busy
  <2>5. QueueInv'
    BY <1>8, <2>1, <2>2, <2>3
       DEF WorkerRelease, Release, NotifyAll, QueueInv, CapacityBound, TypeOK
  <2>6. RequestInv'
    BY <1>8, <2>1, <2>2, <2>3
       DEF WorkerRelease, Release, NotifyAll, RequestInv, TypeOK
  <2>7. WorkerInv'
    BY <1>8, <2>1, <2>2, <2>3
       DEF WorkerRelease, Release, NotifyAll, WorkerInv, Busy, TypeOK
  <2>8. AppInv'
    BY <1>8, <2>1, <2>2, <2>3
       DEF WorkerRelease, Release, NotifyAll, AppInv, Retention, TypeOK, Final
  <2>9. CloserInv'
    BY <1>8, <2>1, <2>2, <2>3, NothingIn
       DEF WorkerRelease, Release, NotifyAll, CloserInv, NetworkJoined, TypeOK
  <2>10. ReaperInv'
    BY <1>8 DEF WorkerRelease, Release, NotifyAll, ReaperInv
  <2> QED
    BY <2>4, <2>5, <2>6, <2>7, <2>8, <2>9, <2>10 DEF IInv
<1>9. CASE Send(w)
  <2>1. /\ wop[w] \in Ops /\ wop[w] \in ToSet(pending) /\ wop[w] \notin ToSet(queue)
        /\ ~sent[wop[w]] /\ \A v \in Workers : wop[v] = wop[w] => v = w
        /\ Fresh(wop[w]) /\ send[wop[w]]
    BY <1>9 DEF Send, WorkerInv, Busy
  <2>2. PICK accepted \in BOOLEAN, throws \in BOOLEAN :
          /\ app' = [app EXCEPT ![wop[w]] = IF accepted THEN "queued" ELSE "failed"]
          /\ status' = [status EXCEPT ![wop[w]] = IF throws THEN "error" ELSE @]
    BY <1>9 DEF Send
  <2>3. \A p \in Ops : p # wop[w] => (Fresh(p)' <=> Fresh(p))
    BY <1>9 DEF Send, Fresh, TypeOK
  <2>4. TypeOK'
    BY <1>9, <2>1, <2>2, <2>3 DEF Send, TypeOK, Answers, Results, Busy
  <2>5. QueueInv'
    BY <1>9, <2>1, <2>2, <2>3 DEF Send, QueueInv, CapacityBound, TypeOK, Fresh
  <2>6. RequestInv'
    BY <1>9, <2>1, <2>2, <2>3 DEF Send, RequestInv, TypeOK, Fresh
  <2>7. WorkerInv'
    BY <1>9, <2>1, <2>2, <2>3 DEF Send, WorkerInv, Busy, TypeOK, Fresh
  <2>8. ReaperInv'
    BY <1>9, <2>1, <2>2, <2>3 DEF Send, ReaperInv, TypeOK, Fresh
  <2>9. AppInv'
    BY <1>9, <2>1, <2>2, <2>3 DEF Send, AppInv, Retention, TypeOK, Fresh
  <2>10. CloserInv'
    BY <1>9 DEF Send, CloserInv, NetworkJoined
  <2> QED
    BY <2>4, <2>5, <2>6, <2>7, <2>8, <2>9, <2>10 DEF IInv
<1>10. CASE MarkSent(w)
  <2>1. /\ wop[w] \in Ops /\ wop[w] \in ToSet(pending) /\ wop[w] \notin ToSet(queue)
        /\ ~sent[wop[w]] /\ \A v \in Workers : wop[v] = wop[w] => v = w
        /\ app[wop[w]] # "none" /\ send[wop[w]] /\ ~complete[wop[w]]
    BY <1>10 DEF MarkSent, WorkerInv, Busy
  <2>2. \A p \in Ops : p # wop[w] => (Fresh(p)' <=> Fresh(p))
    BY <1>10 DEF MarkSent, Fresh, TypeOK
  <2>3. TypeOK'
    BY <1>10, <2>1, <2>2
       DEF MarkSent, NotifyAll, TypeOK, Answers, Results, Busy
  <2>4. QueueInv'
    BY <1>10, <2>1, <2>2
       DEF MarkSent, NotifyAll, QueueInv, CapacityBound, TypeOK
  <2>5. RequestInv'
    BY <1>10, <2>1, <2>2 DEF MarkSent, NotifyAll, RequestInv, TypeOK, Fresh
  <2>6. WorkerInv'
    BY <1>10, <2>1, <2>2
       DEF MarkSent, NotifyAll, WorkerInv, Busy, TypeOK, Fresh
  <2>7. ReaperInv'
    BY <1>10, <2>1, <2>2 DEF MarkSent, NotifyAll, ReaperInv, TypeOK
  <2>8. AppInv'
    BY <1>10, <2>1, <2>2 DEF MarkSent, NotifyAll, AppInv, Retention, TypeOK
  <2>9. CloserInv'
    BY <1>10 DEF MarkSent, NotifyAll, CloserInv, NetworkJoined
  <2> QED
    BY <2>3, <2>4, <2>5, <2>6, <2>7, <2>8, <2>9 DEF IInv
<1> QED
  BY <1>1, <1>2, <1>3, <1>4, <1>5, <1>6, <1>7, <1>8, <1>9, <1>10 DEF Worker

(* A step of the component's engine keeps the invariant.                   *)
LEMMA EngineStep ==
  ASSUME IInv, NEW o \in Ops, Engine(o)
  PROVE  IInv'
<1> USE ExecutorAssumption
    DEF netVars, execVars, workerVars, reaperVars, invVars, appVars
<1> TypeOK /\ QueueInv /\ RequestInv /\ WorkerInv /\ ReaperInv /\ AppInv /\ CloserInv
  BY DEF IInv
<1>1. CASE EngineEnter(o)
  <2>1. ~Fresh(o) /\ send[o] /\ runs[o] = 0
    BY <1>1 DEF EngineEnter, Fresh, AppInv
  <2>2. \A p \in Ops : p # o => (Fresh(p)' <=> Fresh(p))
    BY <1>1 DEF EngineEnter, Fresh, TypeOK
  <2>3. TypeOK'
    BY <1>1, <2>1, <2>2 DEF EngineEnter, TypeOK, Answers, Results, Busy
  <2>4. QueueInv'
    BY <1>1, <2>1, <2>2 DEF EngineEnter, QueueInv, CapacityBound, TypeOK
  <2>5. RequestInv'
    BY <1>1, <2>1, <2>2 DEF EngineEnter, RequestInv, TypeOK
  <2>6. WorkerInv'
    BY <1>1, <2>1, <2>2 DEF EngineEnter, WorkerInv, Busy, TypeOK, Final
  <2>7. ReaperInv'
    BY <1>1, <2>1, <2>2 DEF EngineEnter, ReaperInv, TypeOK, Final
  <2>8. AppInv'
    BY <1>1, <2>1, <2>2 DEF EngineEnter, AppInv, Retention, TypeOK, Final
  <2>9. CloserInv'
    BY <1>1 DEF EngineEnter, CloserInv, NetworkJoined
  <2> QED
    BY <2>3, <2>4, <2>5, <2>6, <2>7, <2>8, <2>9 DEF IInv
<1>2. CASE EngineReturn(o)
  <2>1. ~Fresh(o) /\ ~complete[o] /\ runs[o] = 1
    BY <1>2 DEF EngineReturn, Fresh, AppInv, Final
  <2>2. PICK r \in {"returned", "threw"} : app' = [app EXCEPT ![o] = r]
    BY <1>2 DEF EngineReturn
  <2>3. \A p \in Ops : p # o => (Fresh(p)' <=> Fresh(p))
    BY <1>2 DEF EngineReturn, Fresh, TypeOK
  <2>4. TypeOK'
    BY <1>2, <2>1, <2>2, <2>3 DEF EngineReturn, TypeOK, Answers, Results, Busy
  <2>5. QueueInv'
    BY <1>2, <2>1, <2>2, <2>3
       DEF EngineReturn, QueueInv, CapacityBound, TypeOK
  <2>6. RequestInv'
    BY <1>2, <2>1, <2>2, <2>3 DEF EngineReturn, RequestInv, TypeOK
  <2>7. WorkerInv'
    BY <1>2, <2>1, <2>2, <2>3 DEF EngineReturn, WorkerInv, Busy, TypeOK, Final
  <2>8. ReaperInv'
    BY <1>2, <2>1, <2>2, <2>3 DEF EngineReturn, ReaperInv, TypeOK, Final
  <2>9. AppInv'
    BY <1>2, <2>1, <2>2, <2>3
       DEF EngineReturn, AppInv, Retention, TypeOK, Final
  <2>10. CloserInv'
    BY <1>2 DEF EngineReturn, CloserInv, NetworkJoined
  <2> QED
    BY <2>4, <2>5, <2>6, <2>7, <2>8, <2>9, <2>10 DEF IInv
<1> QED
  BY <1>1, <1>2 DEF Engine

(* A step of the reaper keeps the invariant.                               *)
LEMMA ReaperStep ==
  ASSUME IInv, Reaper
  PROVE  IInv'
<1> USE ExecutorAssumption
    DEF netVars, execVars, workerVars, reaperVars, invVars, appVars
<1> TypeOK /\ QueueInv /\ RequestInv /\ WorkerInv /\ ReaperInv /\ AppInv /\ CloserInv
  BY DEF IInv
<1>1. CASE ReapFetch
  <2>1. pending[index + 1] \in Ops
    BY <1>1 DEF ReapFetch, TypeOK
  <2>2. TypeOK'
    BY <1>1, <2>1 DEF ReapFetch, TypeOK, Answers, Results, Busy
  <2>3. ReaperInv'
    BY <1>1, <2>1 DEF ReapFetch, ReaperInv, TypeOK
  <2>4. QueueInv' /\ RequestInv' /\ WorkerInv' /\ AppInv' /\ CloserInv'
    BY <1>1
       DEF ReapFetch, QueueInv, CapacityBound, RequestInv, WorkerInv, Busy,
           AppInv, Retention, CloserInv, NetworkJoined, Fresh
  <2> QED
    BY <2>2, <2>3, <2>4 DEF IInv
<1>2. CASE ReapScanned
  <2>1. TypeOK'
    BY <1>2 DEF ReapScanned, TypeOK, Answers, Results, Busy
  <2>2. ReaperInv'
    BY <1>2 DEF ReapScanned, ReaperInv, TypeOK
  <2>3. QueueInv' /\ RequestInv' /\ WorkerInv' /\ AppInv' /\ CloserInv'
    BY <1>2
       DEF ReapScanned, QueueInv, CapacityBound, RequestInv, WorkerInv, Busy,
           AppInv, Retention, CloserInv, NetworkJoined, Fresh
  <2> QED
    BY <2>1, <2>2, <2>3 DEF IInv
<1>3. CASE ReapCheck
  <2>1. TypeOK'
    BY <1>3 DEF ReapCheck, NextCandidate, TypeOK, Answers, Results, Busy
  <2>2. ReaperInv'
    BY <1>3 DEF ReapCheck, NextCandidate, ReaperInv, TypeOK
  <2>3. QueueInv' /\ RequestInv' /\ WorkerInv' /\ AppInv' /\ CloserInv'
    BY <1>3
       DEF ReapCheck, NextCandidate, QueueInv, CapacityBound, RequestInv,
           WorkerInv, Busy, AppInv, Retention, CloserInv, NetworkJoined, Fresh
  <2> QED
    BY <2>1, <2>2, <2>3 DEF IInv
<1>4. CASE CollectNotReady
  <2>1. TypeOK'
    BY <1>4 DEF CollectNotReady, NextCandidate, TypeOK, Answers, Results, Busy
  <2>2. ReaperInv'
    BY <1>4 DEF CollectNotReady, NextCandidate, ReaperInv, TypeOK
  <2>3. QueueInv' /\ RequestInv' /\ WorkerInv' /\ AppInv' /\ CloserInv'
    BY <1>4
       DEF CollectNotReady, NextCandidate, QueueInv, CapacityBound,
           RequestInv, WorkerInv, Busy, AppInv, Retention, CloserInv,
           NetworkJoined, Fresh
  <2> QED
    BY <2>1, <2>2, <2>3 DEF IInv
<1>5. CASE CollectDone
  <2>1. cand \in Ops
    BY <1>5 DEF CollectDone, ReaperInv
  <2>2. TypeOK'
    BY <1>5, <2>1 DEF CollectDone, TypeOK, Answers, Results, Busy
  <2>3. ReaperInv'
    BY <1>5, <2>1 DEF CollectDone, ReaperInv, TypeOK, Final
  <2>4. QueueInv' /\ RequestInv' /\ WorkerInv' /\ AppInv' /\ CloserInv'
    BY <1>5
       DEF CollectDone, QueueInv, CapacityBound, RequestInv, WorkerInv, Busy,
           AppInv, Retention, CloserInv, NetworkJoined, Fresh
  <2> QED
    BY <2>2, <2>3, <2>4 DEF IInv
<1>6. CASE ReapComplete
  <2>1. /\ cand \in Ops /\ sent[cand] /\ ~complete[cand] /\ ~Fresh(cand)
        /\ app[cand] \in Final /\ (rresult = "ok" => app[cand] = "returned")
        /\ (rresult = "unavailable" => app[cand] # "returned")
    BY <1>6 DEF ReapComplete, ReaperInv, Fresh
  <2>2. \A p \in Ops : p # cand => (Fresh(p)' <=> Fresh(p))
    BY <1>6 DEF ReapComplete, SetComplete, Fresh, TypeOK
  <2>3. TypeOK'
    BY <1>6, <2>1, <2>2
       DEF ReapComplete, SetComplete, TypeOK, Answers, Results, Busy
  <2>4. QueueInv'
    BY <1>6, <2>1, <2>2
       DEF ReapComplete, SetComplete, QueueInv, CapacityBound, TypeOK
  <2>5. RequestInv'
    BY <1>6, <2>1, <2>2 DEF ReapComplete, SetComplete, RequestInv, TypeOK
  <2>6. WorkerInv'
    BY <1>6, <2>1, <2>2 DEF ReapComplete, SetComplete, WorkerInv, Busy, TypeOK
  <2>7. ReaperInv'
    BY <1>6, <2>1, <2>2 DEF ReapComplete, SetComplete, ReaperInv, TypeOK
  <2>8. AppInv'
    BY <1>6, <2>1, <2>2
       DEF ReapComplete, SetComplete, AppInv, Retention, TypeOK
  <2>9. CloserInv'
    BY <1>6 DEF ReapComplete, SetComplete, CloserInv, NetworkJoined
  <2> QED
    BY <2>3, <2>4, <2>5, <2>6, <2>7, <2>8, <2>9 DEF IInv
<1>7. CASE ReapRelease
  <2>1. cand \in Ops /\ sent[cand] /\ complete[cand] /\ ~Fresh(cand) /\ app[cand] # "none"
    BY <1>7 DEF ReapRelease, ReaperInv, AppInv, Final, Fresh
  <2>2. \A p : Fresh(p)' <=> Fresh(p)
    BY <1>7 DEF ReapRelease, Fresh
  <2>3. /\ pending' \in Seq(Ops) /\ Len(pending') <= Len(pending)
        /\ ToSet(pending') = ToSet(pending) \ {cand} /\ IsInjective(pending')
    BY <1>7, EraseFacts
       DEF ReapRelease, Release, TypeOK, QueueInv, CapacityBound
  <2>4. TypeOK'
    BY <1>7, <2>1, <2>2, <2>3
       DEF ReapRelease, Release, NotifyAll, NextCandidate, TypeOK, Answers,
           Results, Busy
  <2>5. QueueInv'
    BY <1>7, <2>1, <2>2, <2>3
       DEF ReapRelease, Release, NotifyAll, NextCandidate, QueueInv,
           CapacityBound, TypeOK
  <2>6. RequestInv'
    BY <1>7, <2>1, <2>2, <2>3
       DEF ReapRelease, Release, NotifyAll, NextCandidate, RequestInv, TypeOK
  <2>7. WorkerInv'
    BY <1>7, <2>1, <2>2, <2>3
       DEF ReapRelease, Release, NotifyAll, NextCandidate, WorkerInv, Busy,
           TypeOK
  <2>8. ReaperInv'
    BY <1>7, <2>1, <2>2, <2>3
       DEF ReapRelease, Release, NotifyAll, NextCandidate, ReaperInv, TypeOK
  <2>9. AppInv'
    BY <1>7, <2>1, <2>2, <2>3
       DEF ReapRelease, Release, NotifyAll, NextCandidate, AppInv, Retention,
           TypeOK, Final
  <2>10. CloserInv'
    BY <1>7, <2>1, <2>2, <2>3, NothingIn
       DEF ReapRelease, Release, NotifyAll, NextCandidate, CloserInv,
           NetworkJoined, TypeOK
  <2> QED
    BY <2>4, <2>5, <2>6, <2>7, <2>8, <2>9, <2>10 DEF IInv
<1>8. CASE ReapRest
  <2>1. TypeOK'
    BY <1>8 DEF ReapRest, TypeOK, Answers, Results, Busy
  <2>2. ReaperInv'
    BY <1>8 DEF ReapRest, ReaperInv, TypeOK
  <2>3. QueueInv' /\ RequestInv' /\ WorkerInv' /\ AppInv' /\ CloserInv'
    BY <1>8
       DEF ReapRest, QueueInv, CapacityBound, RequestInv, WorkerInv, Busy,
           AppInv, Retention, CloserInv, NetworkJoined, Fresh
  <2> QED
    BY <2>1, <2>2, <2>3 DEF IInv
<1> QED
  BY <1>1, <1>2, <1>3, <1>4, <1>5, <1>6, <1>7, <1>8 DEF Reaper

(* Stopping, restarting and shutting down keep the invariant.              *)
LEMMA ServerStep ==
  ASSUME IInv, CloseAdmission \/ Restart \/ ShutdownBegin \/ Closer
  PROVE  IInv'
<1> USE ExecutorAssumption
    DEF netVars, execVars, workerVars, reaperVars, invVars, appVars
<1> TypeOK /\ QueueInv /\ RequestInv /\ WorkerInv /\ ReaperInv /\ AppInv /\ CloserInv
  BY DEF IInv
<1>1. CASE CloseAdmission
  <2>1. TypeOK'
    BY <1>1, ZenonT(40) DEF CloseAdmission, TypeOK, Answers, Results, Busy
  <2>2. CloserInv'
    BY <1>1 DEF CloseAdmission, CloserInv, NetworkJoined, TypeOK
  <2>3. QueueInv' /\ RequestInv' /\ WorkerInv' /\ ReaperInv' /\ AppInv'
    BY <1>1
       DEF CloseAdmission, QueueInv, CapacityBound, RequestInv, WorkerInv,
           Busy, ReaperInv, AppInv, Retention, Fresh
  <2> QED
    BY <2>1, <2>2, <2>3 DEF IInv
<1>2. CASE Restart
  <2>1. TypeOK'
    BY <1>2 DEF Restart, NetworkJoined, TypeOK, Answers, Results, Busy
  <2>2. CloserInv'
    BY <1>2 DEF Restart, NetworkJoined, CloserInv, TypeOK
  <2>3. QueueInv' /\ RequestInv' /\ WorkerInv' /\ ReaperInv' /\ AppInv'
    BY <1>2
       DEF Restart, NetworkJoined, QueueInv, CapacityBound, RequestInv,
           WorkerInv, Busy, ReaperInv, AppInv, Retention, Fresh
  <2> QED
    BY <2>1, <2>2, <2>3 DEF IInv
<1>3. CASE ShutdownBegin
  <2>1. TypeOK'
    BY <1>3 DEF ShutdownBegin, NetworkJoined, TypeOK, Answers, Results, Busy
  <2>2. CloserInv'
    BY <1>3 DEF ShutdownBegin, NetworkJoined, CloserInv, TypeOK
  <2>3. QueueInv' /\ RequestInv' /\ WorkerInv' /\ ReaperInv' /\ AppInv'
    BY <1>3
       DEF ShutdownBegin, NetworkJoined, QueueInv, CapacityBound, RequestInv,
           WorkerInv, Busy, ReaperInv, AppInv, Retention, Fresh
  <2> QED
    BY <2>1, <2>2, <2>3 DEF IInv
<1>4. CASE Drained
  <2>1. TypeOK'
    BY <1>4 DEF Drained, TypeOK, Answers, Results, Busy
  <2>2. CloserInv'
    BY <1>4 DEF Drained, CloserInv, NetworkJoined, TypeOK
  <2>3. QueueInv' /\ RequestInv' /\ WorkerInv' /\ ReaperInv' /\ AppInv'
    BY <1>4
       DEF Drained, QueueInv, CapacityBound, RequestInv, WorkerInv, Busy,
           ReaperInv, AppInv, Retention, Fresh
  <2> QED
    BY <2>1, <2>2, <2>3 DEF IInv
<1>5. CASE SetShutdown
  <2>1. TypeOK'
    BY <1>5 DEF SetShutdown, NotifyAll, TypeOK, Answers, Results, Busy
  <2>2. CloserInv'
    BY <1>5 DEF SetShutdown, NotifyAll, CloserInv, NetworkJoined, TypeOK
  <2>3. QueueInv' /\ RequestInv' /\ WorkerInv' /\ ReaperInv' /\ AppInv'
    BY <1>5
       DEF SetShutdown, NotifyAll, QueueInv, CapacityBound, RequestInv,
           WorkerInv, Busy, ReaperInv, AppInv, Retention, Fresh
  <2> QED
    BY <2>1, <2>2, <2>3 DEF IInv
<1>6. CASE Joined
  <2>1. TypeOK'
    BY <1>6 DEF Joined, TypeOK, Answers, Results, Busy
  <2>2. CloserInv'
    BY <1>6 DEF Joined, CloserInv, NetworkJoined, TypeOK
  <2>3. QueueInv' /\ RequestInv' /\ WorkerInv' /\ ReaperInv' /\ AppInv'
    BY <1>6
       DEF Joined, QueueInv, CapacityBound, RequestInv, WorkerInv, Busy,
           ReaperInv, AppInv, Retention, Fresh
  <2> QED
    BY <2>1, <2>2, <2>3 DEF IInv
<1> QED
  BY <1>1, <1>2, <1>3, <1>4, <1>5, <1>6 DEF Closer

(* The invariant holds when the executor is built.                         *)
LEMMA InitIInv == Init => IInv
<1> SUFFICES ASSUME Init PROVE IInv
  OBVIOUS
<1> USE ExecutorAssumption DEF Init
<1>1. TypeOK
  <2>1. queue \in Seq(Ops) /\ pending \in Seq(Ops)
    OBVIOUS
  <2>2. status \in [Ops -> Results] /\ wresult \in [Workers -> Results]
    BY DEF Results
  <2>3. wop \in [Workers -> Ops \cup {NoOp}]
    OBVIOUS
  <2> QED
    BY <2>1, <2>2, <2>3 DEF TypeOK, Answers, Results, Busy
<1>2. ToSet(queue) = {} /\ ToSet(pending) = {}
  BY DEF ToSet
<1>3. QueueInv
  BY <1>2 DEF QueueInv, CapacityBound, IsInjective
<1>4. RequestInv /\ WorkerInv /\ ReaperInv
  BY <1>2 DEF RequestInv, WorkerInv, ReaperInv, Fresh, Busy
<1>5. AppInv /\ CloserInv
  BY DEF AppInv, Retention, CloserInv
<1> QED
  BY <1>1, <1>3, <1>4, <1>5 DEF IInv

(* Every step of any thread keeps it.                                      *)
LEMMA NextIInv == IInv /\ [Next]_vars => IInv'
<1> SUFFICES ASSUME IInv, [Next]_vars PROVE IInv'
  OBVIOUS
<1>1. CASE UNCHANGED vars
  BY <1>1 DEF vars, netVars, execVars, workerVars, reaperVars, invVars, appVars,
       IInv, TypeOK, QueueInv, CapacityBound, RequestInv, WorkerInv, ReaperInv,
       AppInv, Retention, CloserInv, NetworkJoined, Fresh
<1>2. ASSUME NEW o \in Ops, Handler(o) PROVE IInv'
  BY <1>2, HandlerStep
<1>3. ASSUME NEW o \in Ops, Engine(o) PROVE IInv'
  BY <1>3, EngineStep
<1>4. ASSUME NEW w \in Workers, Worker(w) PROVE IInv'
  BY <1>4, WorkerStep
<1>5. CASE Reaper
  BY <1>5, ReaperStep
<1>6. CASE CloseAdmission \/ Restart \/ ShutdownBegin \/ Closer
  BY <1>6, ServerStep
<1> QED
  BY <1>1, <1>2, <1>3, <1>4, <1>5, <1>6 DEF Next

(* Ownership of a call is never lost, shared or left incomplete: the       *)
(* inductive invariant holds in every reachable state.                     *)
THEOREM InvariantHolds == Spec => []IInv
BY InitIInv, NextIInv, PTL DEF Spec

(* The state keeps its types.                                              *)
THEOREM TypeCorrect == Spec => []TypeOK
<1>1. IInv => TypeOK
  BY DEF IInv
<1> QED
  BY <1>1, InvariantHolds, PTL

(* pending_ never exceeds maxPendingOperations and holds no call twice.    *)
THEOREM CapacityBounded == Spec => []CapacityBound
<1>1. IInv => CapacityBound
  BY DEF IInv, QueueInv
<1> QED
  BY <1>1, InvariantHolds, PTL

(* The storage of a call that RTT may still touch is retained.             *)
THEOREM StorageRetained == Spec => []Retention
<1>1. IInv => Retention
  BY DEF IInv, AppInv
<1> QED
  BY <1>1, InvariantHolds, PTL

(* No request runs the application's function twice.                       *)
THEOREM NoReplay == Spec => []AtMostOnce
<1>1. IInv => AtMostOnce
  BY DEF IInv, AppInv, RequestInv, Fresh, AtMostOnce
<1> QED
  BY <1>1, InvariantHolds, PTL

(* 200 is answered only for a call that ran once and returned.             *)
THEOREM AnswersHonest == Spec => []HonestAnswer
<1>1. IInv => HonestAnswer
  BY DEF IInv, AppInv, RequestInv, HonestAnswer
<1> QED
  BY <1>1, InvariantHolds, PTL

(* After the drain nothing is left behind.                                 *)
THEOREM ShutdownSafe == Spec => []DrainSafe
<1>1. IInv => DrainSafe
  <2> SUFFICES ASSUME IInv, closer \in {"join", "done"}
               PROVE  /\ pending = <<>> /\ queue = <<>>
                      /\ \A o \in Ops : app[o] \notin {"queued", "running"}
    BY DEF DrainSafe
  <2>1. pending = <<>> /\ ToSet(pending) = {}
    BY DEF IInv, CloserInv, ToSet
  <2>2. queue = <<>>
    <3>1. queue \in Seq(Ops) /\ ToSet(queue) = {}
      BY <2>1 DEF IInv, TypeOK, QueueInv, CapacityBound
    <3>2. 1 \notin DOMAIN queue
      BY <3>1 DEF ToSet
    <3>3. Len(queue) <= 0
      BY <3>1, <3>2
    <3> QED
      BY <3>1, <3>3, NothingIn
  <2> QED
    BY <2>1, <2>2 DEF IInv, AppInv, Retention
<1> QED
  BY <1>1, InvariantHolds, PTL

(* What finish() stored is never overwritten.                              *)
THEOREM CompletedOnce == Spec => CompletionFinal
<1> DEFINE Keeps == \A o \in Ops : complete[o] => complete'[o] /\ status'[o] = status[o]
<1> USE DEF netVars, execVars, workerVars, reaperVars, invVars, appVars
<1>1. IInv /\ [Next]_vars => [Keeps]_vars
  <2> SUFFICES ASSUME IInv, Next PROVE Keeps
    OBVIOUS
  <2> USE DEF IInv, TypeOK
  <2>1. ASSUME NEW o \in Ops, Handler(o) PROVE Keeps
    BY <2>1 DEF Handler, Prepare, PrepareFails, Admit, RefuseCapacity,
         RefuseClosed, AdmitThrows, Respond, TimeOut
  <2>2. ASSUME NEW o \in Ops, Engine(o) PROVE Keeps
    BY <2>2 DEF Engine, EngineEnter, EngineReturn
  <2>3. ASSUME NEW w \in Workers, Worker(w) PROVE Keeps
    <3>1. CASE WorkerComplete(w)
      BY <2>3, <3>1 DEF WorkerComplete, SetComplete, WorkerInv, Busy
    <3>2. CASE Send(w)
      BY <2>3, <3>2 DEF Send, WorkerInv, Fresh, Busy
    <3>3. CASE ~WorkerComplete(w) /\ ~Send(w)
      BY <2>3, <3>3 DEF Worker, WorkerSleep, WorkerExit, WorkerTake, CallEnter,
           CallReturn, CallRefused, WorkerRelease, Release, MarkSent
    <3> QED
      BY <3>1, <3>2, <3>3
  <2>4. CASE Reaper
    <3>1. CASE ReapComplete
      BY <3>1 DEF ReapComplete, SetComplete, ReaperInv
    <3>2. CASE ~ReapComplete
      BY <2>4, <3>2 DEF Reaper, ReapFetch, ReapScanned, ReapCheck,
           CollectNotReady, CollectDone, ReapRelease, Release, ReapRest
    <3> QED
      BY <3>1, <3>2
  <2>5. CASE CloseAdmission \/ Restart \/ ShutdownBegin \/ Closer
    BY <2>5 DEF CloseAdmission, Restart, ShutdownBegin, Closer, Drained,
         SetShutdown, Joined
  <2> QED
    BY <2>1, <2>2, <2>3, <2>4, <2>5 DEF Next
<1> QED
  BY <1>1, InvariantHolds, PTL DEF Spec, CompletionFinal

----------------------------------------------------------------------------
(* The executor implements the contract of a call.                         *)

PhaseOf(a, h, r, o) ==
  CASE a = "none" -> IF o \in h THEN "accepted"
                     ELSE IF r = "answered" THEN "refused" ELSE "new"
    [] a = "queued" -> "accepted"
    [] a = "running" -> "started"
    [] OTHER -> a

(* The phase of a call, case by case.                                      *)
LEMMA PhaseCases ==
  ASSUME NEW a, NEW h, NEW r, NEW o
  PROVE  /\ a = "none" /\ o \in h => PhaseOf(a, h, r, o) = "accepted"
         /\ a = "none" /\ o \notin h /\ r = "answered" => PhaseOf(a, h, r, o) = "refused"
         /\ a = "none" /\ o \notin h /\ r # "answered" => PhaseOf(a, h, r, o) = "new"
         /\ a = "queued" => PhaseOf(a, h, r, o) = "accepted"
         /\ a = "running" => PhaseOf(a, h, r, o) = "started"
         /\ a \in Final => PhaseOf(a, h, r, o) = a
BY DEF PhaseOf, Final

(* The phase depends on RTT's progress, pending_ and the request alone.    *)
LEMMA PhaseIs ==
  ASSUME NEW o
  PROVE  /\ Phase(o) = PhaseOf(app[o], ToSet(pending), request[o], o)
         /\ Phase(o)' = PhaseOf(app'[o], ToSet(pending'), request'[o], o)
BY DEF Phase, PhaseOf

(* The refinement mapping's variables.                                     *)
phases == [o \in Ops |-> Phase(o)]
ended == closer \in {"flag", "join", "done"}

(* A step that changes the phase of one call at most.                      *)
LEMMA OnePhase ==
  ASSUME NEW o \in Ops, NEW v, Phase(o)' = v, \A p \in Ops \ {o} : Phase(p)' = Phase(p)
  PROVE  phases' = [phases EXCEPT ![o] = v]
<1>1. phases' = [p \in Ops |-> Phase(p)']
  BY DEF phases
<1>2. [phases EXCEPT ![o] = v] = [p \in Ops |-> IF p = o THEN v ELSE Phase(p)]
  BY DEF phases
<1>3. \A p \in Ops : Phase(p)' = IF p = o THEN v ELSE Phase(p)
  OBVIOUS
<1> QED
  BY <1>1, <1>2, <1>3

(* If no call changes its phase, none of the phases changes.               *)
LEMMA NoPhase ==
  ASSUME \A p \in Ops : Phase(p)' = Phase(p)
  PROVE  phases' = phases
BY DEF phases

(* Nothing happens to the others.                                          *)
LEMMA OthersKeepPhase ==
  ASSUME NEW o, \A p \in Ops \ {o} : app'[p] = app[p] /\ request'[p] = request[p],
         \A p \in Ops \ {o} : p \in ToSet(pending') <=> p \in ToSet(pending)
  PROVE  \A p \in Ops \ {o} : Phase(p)' = Phase(p)
<1> SUFFICES ASSUME NEW p \in Ops \ {o} PROVE Phase(p)' = Phase(p)
  OBVIOUS
<1>1. /\ Phase(p) = PhaseOf(app[p], ToSet(pending), request[p], p)
      /\ Phase(p)' = PhaseOf(app[p], ToSet(pending'), request[p], p)
  BY PhaseIs
<1>2. p \in ToSet(pending') <=> p \in ToSet(pending)
  OBVIOUS
<1> QED
  BY <1>1, <1>2 DEF PhaseOf

(* pending_ as a set: each of its entries is another call.                 *)
LEMMA Places ==
  ASSUME NEW s \in Seq(Ops), IsInjective(s)
  PROVE  Cardinality(ToSet(s)) = Len(s)
<1>1. Len(s) \in Nat /\ DOMAIN s = 1..Len(s) /\ s \in [1..Len(s) -> Ops]
  BY LenProperties
<1>2. s \in [1..Len(s) -> ToSet(s)]
  BY <1>1 DEF ToSet
<1>3. s \in Surjection(1..Len(s), ToSet(s)) /\ s \in Injection(1..Len(s), ToSet(s))
  BY <1>1, <1>2 DEF Surjection, Injection, IsInjective, ToSet
<1>4. IsFiniteSet(1..Len(s)) /\ Cardinality(1..Len(s)) = Len(s)
  BY <1>1, FS_Interval
<1> QED
  BY <1>3, <1>4, FS_Surjection

(* What a step of the contract is, in the executor's terms.                *)
Refused(o, a) ==
  /\ Phase(o) = "new" /\ phases' = [phases EXCEPT ![o] = "refused"]
  /\ a \in {"mismatch", "unavailable", "capacity", "closed", "error"}
  /\ answer' = [answer EXCEPT ![o] = a]
  /\ ToSet(pending') = ToSet(pending) /\ UNCHANGED ended

(* A refusal is the contract's step Refuse.                                *)
LEMMA ContractRefuse ==
  ASSUME NEW o \in Ops, NEW a, Refused(o, a)
  PROVE  Contract!Next
<1>1. phases[o] = "new"
  BY DEF Refused, phases
<1>2. Contract!Refuse(o)
  BY <1>1 DEF Refused, Contract!Refuse, Contract!Refusals, phases, ended
<1> QED
  BY <1>2 DEF Contract!Next

(* The contract counts as the executor does.                               *)
LEMMA SameCardinality ==
  ASSUME NEW S
  PROVE  Contract!Cardinality(S) = Cardinality(S)
BY DEF Cardinality, Contract!Cardinality

(* An admission below the capacity is the contract's step Accept,          *)
LEMMA ContractAccept ==
  ASSUME NEW o \in Ops, Phase(o) = "new", ~ended, Cardinality(ToSet(pending)) < Cap,
         phases' = [phases EXCEPT ![o] = "accepted"], ToSet(pending') = ToSet(pending) \cup {o},
         UNCHANGED answer, UNCHANGED ended
  PROVE  Contract!Next
<1>1. phases[o] = "new"
  BY DEF phases
<1>2. Contract!Accept(o)
  BY <1>1, SameCardinality DEF Contract!Accept, phases, ended
<1> QED
  BY <1>2 DEF Contract!Next

(* entering the application's function is Start,                           *)
LEMMA ContractStart ==
  ASSUME NEW o \in Ops, Phase(o) = "accepted", o \in ToSet(pending),
         phases' = [phases EXCEPT ![o] = "started"],
         ToSet(pending') = ToSet(pending), UNCHANGED answer, UNCHANGED ended
  PROVE  Contract!Next
<1>1. phases[o] = "accepted"
  BY DEF phases
<1>2. Contract!Start(o)
  BY <1>1 DEF Contract!Start, phases, ended
<1> QED
  BY <1>2 DEF Contract!Next

(* its return, its exception or a failed send is End,                      *)
LEMMA ContractEnd ==
  ASSUME NEW o \in Ops, o \in ToSet(pending), NEW v,
         \/ Phase(o) = "started" /\ v \in {"returned", "threw"}
         \/ Phase(o) = "accepted" /\ v = "failed",
         phases' = [phases EXCEPT ![o] = v],
         ToSet(pending') = ToSet(pending), UNCHANGED answer, UNCHANGED ended
  PROVE  Contract!Next
<1>1. phases[o] = Phase(o)
  BY DEF phases
<1>2. Contract!End(o)
  BY <1>1 DEF Contract!End, phases, ended
<1> QED
  BY <1>2 DEF Contract!Next

(* leaving pending_ after that is Release,                                 *)
LEMMA ContractRelease ==
  ASSUME NEW o \in Ops, o \in ToSet(pending), Phase(o) \in Final, phases' = phases,
         ToSet(pending') = ToSet(pending) \ {o}, UNCHANGED answer, UNCHANGED ended
  PROVE  Contract!Next
<1>1. phases[o] \in Final
  BY DEF phases
<1>2. Contract!Release(o)
  BY <1>1 DEF Contract!Release, Contract!Ended, Final, phases, ended
<1> QED
  BY <1>2 DEF Contract!Next

(* an answer that agrees with the phase is Answer,                         *)
LEMMA ContractAnswer ==
  ASSUME NEW o \in Ops, answer[o] = "none", Phase(o) \notin {"new", "refused"}, NEW a,
         \/ Phase(o) = "returned" /\ a = "ok"
         \/ Phase(o) \in {"threw", "failed"} /\ a = "unavailable"
         \/ a \in {"timeout", "error"},
         answer' = [answer EXCEPT ![o] = a],
         phases' = phases, ToSet(pending') = ToSet(pending), UNCHANGED ended
  PROVE  Contract!Next
<1>1. phases[o] = Phase(o)
  BY DEF phases
<1>2. Contract!Answer(o)
  BY <1>1 DEF Contract!Answer, Contract!Ended, phases, ended
<1> QED
  BY <1>2 DEF Contract!Next

(* and the end of drain() with nothing pending is Drain.                   *)
LEMMA ContractDrain ==
  ASSUME ToSet(pending) = {}, ~ended, ended', phases' = phases,
         ToSet(pending') = ToSet(pending), UNCHANGED answer
  PROVE  Contract!Next
<1>1. Contract!Drain
  BY DEF Contract!Drain, phases, ended
<1> QED
  BY <1>1 DEF Contract!Next

(* A step that changes none of these is none of the contract's.            *)
LEMMA ContractStutter ==
  ASSUME phases' = phases, ToSet(pending') = ToSet(pending), UNCHANGED answer, UNCHANGED ended
  PROVE  UNCHANGED Contract!vars
BY DEF Contract!vars, phases, ended

(* A step that leaves the calls' phases alone.                             *)
LEMMA QuietStep ==
  ASSUME UNCHANGED <<app, pending, request, answer>>, UNCHANGED ended
  PROVE  UNCHANGED Contract!vars
<1>1. \A p \in Ops : Phase(p)' = Phase(p)
  BY PhaseIs
<1> QED
  BY <1>1, NoPhase, ContractStutter

(* The phase of the call that a step is about; the others keep theirs.     *)
LEMMA AppStep ==
  ASSUME TypeOK, NEW o \in Ops, NEW v, app' = [app EXCEPT ![o] = v],
         UNCHANGED <<pending, request>>
  PROVE  phases' = [phases EXCEPT ![o] = PhaseOf(v, ToSet(pending), request[o], o)]
<1>1. app'[o] = v /\ \A p \in Ops \ {o} : app'[p] = app[p]
  BY DEF TypeOK
<1>2. \A p \in Ops \ {o} : Phase(p)' = Phase(p)
  BY <1>1, OthersKeepPhase
<1>3. Phase(o)' = PhaseOf(v, ToSet(pending), request[o], o)
  BY <1>1, PhaseIs
<1> QED
  BY <1>2, <1>3, OnePhase

(* A step of a request changes the phase of its own call only.             *)
LEMMA RequestStep ==
  ASSUME TypeOK, NEW o \in Ops, NEW r, request' = [request EXCEPT ![o] = r], UNCHANGED app,
         \A p \in Ops \ {o} : p \in ToSet(pending') <=> p \in ToSet(pending)
  PROVE  phases' = [phases EXCEPT ![o] = PhaseOf(app[o], ToSet(pending'), r, o)]
<1>1. request'[o] = r /\ \A p \in Ops \ {o} : request'[p] = request[p]
  BY DEF TypeOK
<1>2. \A p \in Ops \ {o} : Phase(p)' = Phase(p)
  BY <1>1, OthersKeepPhase
<1>3. Phase(o)' = PhaseOf(app[o], ToSet(pending'), r, o)
  BY <1>1, PhaseIs
<1> QED
  BY <1>2, <1>3, OnePhase

(* Assigning a phase that a call has changes nothing.                      *)
LEMMA SamePhase ==
  ASSUME NEW o \in Ops, phases' = [phases EXCEPT ![o] = Phase(o)]
  PROVE  phases' = phases
BY DEF phases

(* Every step of an HTTP handler is a step of the contract or none,        *)
LEMMA HandlerRefines ==
  ASSUME IInv, NEW o \in Ops, Handler(o)
  PROVE  Contract!Next \/ UNCHANGED Contract!vars
<1> USE DEF netVars, execVars, workerVars, reaperVars, invVars, appVars
<1>1. TypeOK /\ QueueInv /\ RequestInv /\ AppInv /\ CloserInv
  BY DEF IInv
<1>2. Phase(o) = PhaseOf(app[o], ToSet(pending), request[o], o)
  BY PhaseIs
<1>3. ASSUME request[o] \in {"new", "prepared"}
      PROVE  app[o] = "none" /\ o \notin ToSet(pending) /\ Phase(o) = "new"
  <2>1. app[o] = "none" /\ o \notin ToSet(pending)
    BY <1>1, <1>3 DEF RequestInv, Fresh
  <2> QED
    BY <1>2, <1>3, <2>1, PhaseCases
<1>4. CASE Prepare(o)
  <2>1. /\ request[o] \in {"new", "prepared"} /\ request' = [request EXCEPT ![o] = "prepared"]
        /\ UNCHANGED <<app, pending, answer, closer>>
    BY <1>4 DEF Prepare
  <2>2. PhaseOf(app[o], ToSet(pending'), "prepared", o) = "new"
    BY <1>3, <2>1, PhaseCases
  <2>3. phases' = [phases EXCEPT ![o] = PhaseOf(app[o], ToSet(pending'), "prepared", o)]
    BY <1>1, <2>1, RequestStep
  <2>4. phases' = phases
    <3>1. Phase(o) = "new"
      BY <1>3, <2>1
    <3>2. phases' = [phases EXCEPT ![o] = Phase(o)]
      BY <2>2, <2>3, <3>1
    <3> QED
      BY <3>2, SamePhase
  <2> QED
    BY <2>1, <2>4, ContractStutter DEF ended
<1>5. ASSUME request[o] \in {"new", "prepared"}, NEW a, Answer(o, a),
             a \in {"mismatch", "unavailable", "capacity", "closed", "error"},
             UNCHANGED <<app, pending, closer>>
      PROVE  Contract!Next
  <2>1. PhaseOf(app[o], ToSet(pending'), "answered", o) = "refused"
    BY <1>3, <1>5, PhaseCases
  <2>2. phases' = [phases EXCEPT ![o] = "refused"]
    BY <1>1, <1>5, <2>1, RequestStep, ZenonT(40) DEF Answer
  <2>3. Refused(o, a)
    BY <1>3, <1>5, <2>2 DEF Refused, Answer, ended
  <2> QED
    BY <2>3, ContractRefuse
<1>6. CASE PrepareFails(o)
  BY <1>5, <1>6 DEF PrepareFails
<1>7. CASE RefuseCapacity(o)
  BY <1>5, <1>7 DEF RefuseCapacity
<1>8. CASE RefuseClosed(o)
  BY <1>5, <1>8 DEF RefuseClosed
<1>9. CASE AdmitThrows(o)
  BY <1>5, <1>9 DEF AdmitThrows
<1>10. CASE Admit(o)
  <2>1. /\ request[o] \in {"new", "prepared"} /\ request' = [request EXCEPT ![o] = "waiting"]
        /\ open /\ ~Full /\ pending' = Append(pending, o) /\ UNCHANGED <<app, answer, closer>>
    BY <1>10 DEF Admit
  <2>2. pending \in Seq(Ops) /\ IsInjective(pending)
    BY <1>1 DEF TypeOK, QueueInv, CapacityBound
  <2>3. ToSet(pending') = ToSet(pending) \cup {o}
    BY <2>1, <2>2, AppendFacts
  <2>4. PhaseOf(app[o], ToSet(pending'), "waiting", o) = "accepted"
    BY <1>3, <2>1, <2>3, PhaseCases
  <2>5. phases' = [phases EXCEPT ![o] = "accepted"]
    BY <1>1, <2>1, <2>3, <2>4, RequestStep
  <2>6. Cardinality(ToSet(pending)) < Cap
    <3>1. Cardinality(ToSet(pending)) = Len(pending) /\ Len(pending) \in Nat
      BY <2>2, Places
    <3> QED
      BY <2>1, <3>1, ExecutorAssumption DEF Full
  <2>7. ~ended
    BY <1>1, <2>1 DEF ended, CloserInv, NetworkJoined
  <2> QED
    BY <1>3, <2>1, <2>3, <2>5, <2>6, <2>7, ContractAccept DEF ended
<1>11. ASSUME request[o] = "waiting", NEW a, Answer(o, a), Phase(o) \notin {"new", "refused"},
              \/ Phase(o) = "returned" /\ a = "ok"
              \/ Phase(o) \in {"threw", "failed"} /\ a = "unavailable"
              \/ a \in {"timeout", "error"},
              UNCHANGED <<app, pending, closer>>
       PROVE  Contract!Next
  <2>1. PhaseOf(app[o], ToSet(pending'), "answered", o) = Phase(o)
    <3>1. app[o] # "none" \/ o \in ToSet(pending)
      BY <1>1, <1>11 DEF RequestInv
    <3> QED
      BY <1>2, <1>11, <3>1 DEF PhaseOf
  <2>2. phases' = phases
    BY <1>1, <1>11, <2>1, RequestStep, SamePhase, ZenonT(40) DEF Answer
  <2>3. answer[o] = "none"
    BY <1>1, <1>11 DEF RequestInv
  <2> QED
    BY <1>11, <2>2, <2>3, ContractAnswer DEF Answer, ended
<1>12. CASE Respond(o)
  <2>1. PICK a \in {status[o], "error"} : Answer(o, a)
    BY <1>12 DEF Respond
  <2>2. request[o] = "waiting" /\ complete[o] /\ UNCHANGED <<app, pending, closer>>
    BY <1>12 DEF Respond
  <2>3. /\ app[o] \in Final /\ status[o] \in Results
        /\ (status[o] = "ok" => app[o] = "returned")
        /\ (status[o] = "unavailable" => app[o] # "returned")
    BY <1>1, <2>2 DEF AppInv, TypeOK
  <2>4. Phase(o) = app[o]
    BY <1>2, <2>3, PhaseCases
  <2>5. \/ Phase(o) = "returned" /\ a = "ok"
        \/ Phase(o) \in {"threw", "failed"} /\ a = "unavailable"
        \/ a \in {"timeout", "error"}
    BY <2>3, <2>4 DEF Results, Final
  <2>6. Phase(o) \notin {"new", "refused"}
    BY <2>3, <2>4 DEF Final
  <2> QED
    BY <1>11, <2>1, <2>2, <2>5, <2>6
<1>13. CASE TimeOut(o)
  <2>1. PICK a \in {"timeout", "error"} : Answer(o, a)
    BY <1>13 DEF TimeOut
  <2>2. request[o] = "waiting" /\ UNCHANGED <<app, pending, closer>>
    BY <1>13 DEF TimeOut
  <2>3. o \in ToSet(pending) \/ app[o] # "none"
    BY <1>1, <2>2 DEF RequestInv
  <2>4. app[o] \in {"none", "queued", "running"} \cup Final
    BY <1>1 DEF TypeOK, Final
  <2>5. Phase(o) \notin {"new", "refused"}
    BY <1>2, <2>3, <2>4, PhaseCases DEF Final
  <2> QED
    BY <1>11, <2>1, <2>2, <2>5
<1> QED
  BY <1>4, <1>6, <1>7, <1>8, <1>9, <1>10, <1>12, <1>13 DEF Handler

(* finish() releases a completed call.                                     *)
LEMMA ReleaseRefines ==
  ASSUME IInv, NEW o \in Ops, complete[o], pending' = Erase(pending, o),
         UNCHANGED <<app, request, answer, closer>>
  PROVE  Contract!Next \/ UNCHANGED Contract!vars
<1>1. pending \in Seq(Ops) /\ IsInjective(pending) /\ app[o] \in Final
  BY DEF IInv, TypeOK, QueueInv, CapacityBound, AppInv
<1>2. ToSet(pending') = ToSet(pending) \ {o}
  BY <1>1, EraseFacts
<1>3. Phase(o)' = app[o] /\ Phase(o) = app[o]
  BY <1>1, PhaseIs, PhaseCases
<1>4. \A p \in Ops \ {o} : Phase(p)' = Phase(p)
  BY <1>2, OthersKeepPhase
<1>5. phases' = phases
  BY <1>3, <1>4, NoPhase
<1>6. CASE o \in ToSet(pending)
  BY <1>1, <1>2, <1>3, <1>5, <1>6, ContractRelease DEF ended
<1>7. CASE o \notin ToSet(pending)
  BY <1>2, <1>5, <1>7, ContractStutter DEF ended
<1> QED
  BY <1>6, <1>7

(* and so is every step of a worker,                                       *)
LEMMA WorkerRefines ==
  ASSUME IInv, NEW w \in Workers, Worker(w)
  PROVE  Contract!Next \/ UNCHANGED Contract!vars
<1> USE DEF netVars, execVars, workerVars, reaperVars, invVars, appVars
<1> DEFINE o == wop[w]
<1>1. TypeOK /\ WorkerInv /\ AppInv
  BY DEF IInv
<1>2. ASSUME worker[w] \in Busy PROVE o \in Ops /\ o \in ToSet(pending)
  BY <1>1, <1>2 DEF WorkerInv
<1>3. Phase(o) = PhaseOf(app[o], ToSet(pending), request[o], o)
  BY PhaseIs
<1>4. ASSUME worker[w] \in {"call", "send"} PROVE Phase(o) = "accepted" /\ o \in Ops /\ o \in ToSet(pending)
  <2>1. app[o] = "none" /\ o \in Ops /\ o \in ToSet(pending)
    BY <1>1, <1>2, <1>4 DEF WorkerInv, Fresh, Busy
  <2> QED
    BY <1>3, <2>1, PhaseCases
<1>5. CASE WorkerSleep(w) \/ WorkerExit(w) \/ WorkerTake(w) \/ WorkerComplete(w) \/ MarkSent(w)
  <2>1. UNCHANGED <<app, pending, request, answer, closer>>
    BY <1>5 DEF WorkerSleep, WorkerExit, WorkerTake, WorkerComplete, MarkSent
  <2> QED
    BY <2>1, QuietStep DEF ended
<1>6. CASE CallEnter(w)
  <2>1. /\ worker[w] = "call" /\ app' = [app EXCEPT ![o] = "running"]
        /\ UNCHANGED <<pending, request, answer, closer>>
    BY <1>6 DEF CallEnter
  <2>2. Phase(o) = "accepted" /\ o \in Ops /\ o \in ToSet(pending)
    BY <1>4, <2>1
  <2>3. PhaseOf("running", ToSet(pending), request[o], o) = "started"
    BY PhaseCases
  <2> HIDE DEF o
  <2>4. phases' = [phases EXCEPT ![o] = "started"]
    BY <1>1, <2>1, <2>2, <2>3, AppStep
  <2> QED
    BY <2>1, <2>2, <2>4, ContractStart DEF ended
<1>7. CASE CallReturn(w)
  <2>1. PICK v \in {"returned", "threw"} : app' = [app EXCEPT ![o] = v]
    BY <1>7 DEF CallReturn
  <2>2. worker[w] = "inside" /\ UNCHANGED <<pending, request, answer, closer>>
    BY <1>7 DEF CallReturn
  <2>3. app[o] = "running" /\ o \in Ops /\ o \in ToSet(pending)
    BY <1>1, <1>2, <2>2 DEF WorkerInv, Busy
  <2>4. Phase(o) = "started" /\ PhaseOf(v, ToSet(pending), request[o], o) = v
    BY <1>3, <2>3, PhaseCases DEF Final
  <2> HIDE DEF o
  <2>5. phases' = [phases EXCEPT ![o] = v]
    BY <1>1, <2>1, <2>2, <2>3, <2>4, AppStep
  <2> QED
    BY <2>2, <2>3, <2>4, <2>5, ContractEnd DEF ended
<1>8. ASSUME worker[w] \in {"call", "send"}, app' = [app EXCEPT ![o] = "failed"],
             UNCHANGED <<pending, request, answer, closer>>
      PROVE  Contract!Next
  <2>1. Phase(o) = "accepted" /\ o \in Ops /\ o \in ToSet(pending)
    BY <1>4, <1>8
  <2>2. PhaseOf("failed", ToSet(pending), request[o], o) = "failed"
    BY PhaseCases DEF Final
  <2> HIDE DEF o
  <2>3. phases' = [phases EXCEPT ![o] = "failed"]
    BY <1>1, <1>8, <2>1, <2>2, AppStep
  <2> QED
    BY <1>8, <2>1, <2>3, ContractEnd DEF ended
<1>9. CASE CallRefused(w)
  BY <1>8, <1>9 DEF CallRefused
<1>10. CASE Send(w)
  <2>1. PICK v \in {"queued", "failed"} : app' = [app EXCEPT ![o] = v]
    BY <1>10 DEF Send
  <2>2. worker[w] = "send" /\ UNCHANGED <<pending, request, answer, closer>>
    BY <1>10 DEF Send
  <2>3. CASE v = "failed"
    BY <1>8, <2>1, <2>2, <2>3
  <2>4. CASE v = "queued"
    <3>1. Phase(o) = "accepted" /\ o \in Ops
      BY <1>4, <2>2
    <3>2. PhaseOf("queued", ToSet(pending), request[o], o) = Phase(o)
      BY <3>1, PhaseCases
    <3> HIDE DEF o
    <3>3. phases' = phases
      BY <1>1, <2>1, <2>2, <2>4, <3>1, <3>2, AppStep, SamePhase
    <3> QED
      BY <2>2, <3>3, ContractStutter DEF ended
  <2> QED
    BY <2>3, <2>4
<1>11. CASE WorkerRelease(w)
  <2>1. /\ worker[w] = "release" /\ pending' = Erase(pending, o)
        /\ UNCHANGED <<app, request, answer, closer>>
    BY <1>11 DEF WorkerRelease, Release
  <2>2. o \in Ops /\ complete[o]
    BY <1>1, <1>2, <2>1 DEF WorkerInv, Busy
  <2> HIDE DEF o
  <2> QED
    BY <2>1, <2>2, ReleaseRefines
<1> QED
  BY <1>5, <1>6, <1>7, <1>9, <1>10, <1>11 DEF Worker

(* of RTT's engine,                                                        *)
LEMMA EngineRefines ==
  ASSUME IInv, NEW o \in Ops, Engine(o)
  PROVE  Contract!Next
<1> USE DEF netVars, execVars, workerVars, reaperVars, invVars, appVars
<1>1. TypeOK /\ Retention
  BY DEF IInv, AppInv
<1>2. Phase(o) = PhaseOf(app[o], ToSet(pending), request[o], o)
  BY PhaseIs
<1>3. CASE EngineEnter(o)
  <2>1. /\ app[o] = "queued" /\ app' = [app EXCEPT ![o] = "running"]
        /\ UNCHANGED <<pending, request, answer, closer>>
    BY <1>3 DEF EngineEnter
  <2>2. Phase(o) = "accepted" /\ o \in ToSet(pending)
    BY <1>1, <1>2, <2>1, PhaseCases DEF Retention
  <2>3. PhaseOf("running", ToSet(pending), request[o], o) = "started"
    BY PhaseCases
  <2>4. phases' = [phases EXCEPT ![o] = "started"]
    BY <1>1, <2>1, <2>3, AppStep
  <2> QED
    BY <2>1, <2>2, <2>4, ContractStart DEF ended
<1>4. CASE EngineReturn(o)
  <2>1. PICK v \in {"returned", "threw"} : app' = [app EXCEPT ![o] = v]
    BY <1>4 DEF EngineReturn
  <2>2. app[o] = "running" /\ UNCHANGED <<pending, request, answer, closer>>
    BY <1>4 DEF EngineReturn
  <2>3. /\ Phase(o) = "started" /\ o \in ToSet(pending)
        /\ PhaseOf(v, ToSet(pending), request[o], o) = v
    BY <1>1, <1>2, <2>2, PhaseCases DEF Retention, Final
  <2>4. phases' = [phases EXCEPT ![o] = v]
    BY <1>1, <2>1, <2>2, <2>3, AppStep
  <2> QED
    BY <2>2, <2>3, <2>4, ContractEnd DEF ended
<1> QED
  BY <1>3, <1>4 DEF Engine

(* of the reaper                                                           *)
LEMMA ReaperRefines ==
  ASSUME IInv, Reaper
  PROVE  Contract!Next \/ UNCHANGED Contract!vars
<1> USE DEF netVars, execVars, workerVars, reaperVars, invVars, appVars
<1>1. CASE ReapRelease
  <2>1. cand \in Ops /\ complete[cand]
    BY <1>1 DEF ReapRelease, IInv, ReaperInv
  <2>2. pending' = Erase(pending, cand) /\ UNCHANGED <<app, request, answer, closer>>
    BY <1>1 DEF ReapRelease, Release
  <2> QED
    BY <2>1, <2>2, ReleaseRefines
<1>2. CASE ~ReapRelease
  <2>1. UNCHANGED <<app, pending, request, answer, closer>>
    BY <1>2 DEF Reaper, ReapFetch, ReapScanned, ReapCheck, CollectNotReady, CollectDone,
         ReapComplete, ReapRest
  <2> QED
    BY <2>1, QuietStep DEF ended
<1> QED
  BY <1>1, <1>2

(* and of the server around them.                                          *)
LEMMA ServerRefines ==
  ASSUME IInv, CloseAdmission \/ Restart \/ ShutdownBegin \/ Closer
  PROVE  Contract!Next \/ UNCHANGED Contract!vars
<1> USE DEF netVars, execVars, workerVars, reaperVars, invVars, appVars
<1>1. UNCHANGED <<app, pending, request, answer>>
  BY DEF CloseAdmission, Restart, ShutdownBegin, Closer, Drained, SetShutdown, Joined
<1>2. CASE Drained
  <2>1. closer = "drain" /\ closer' = "flag" /\ pending = <<>>
    BY <1>2 DEF Drained
  <2>2. ToSet(pending) = {}
    BY <2>1 DEF ToSet
  <2>3. \A p \in Ops : Phase(p)' = Phase(p)
    BY <1>1, PhaseIs
  <2>4. phases' = phases
    BY <2>3, NoPhase
  <2>5. ~ended /\ ended'
    BY <2>1 DEF ended
  <2> QED
    BY <1>1, <2>2, <2>4, <2>5, ContractDrain
<1>3. CASE ~Drained
  <2>1. UNCHANGED ended
    BY <1>3 DEF CloseAdmission, Restart, ShutdownBegin, Closer, SetShutdown, Joined, ended
  <2> QED
    BY <1>1, <2>1, QuietStep
<1> QED
  BY <1>2, <1>3

(* The threads, queues and flags of the executor, and the handlers, carry  *)
(* out the contract of a call: every step of theirs is a step of it or     *)
(* none.                                                                   *)
THEOREM ContractImplemented == Spec => ImplementsContract
<1>1. Init => Contract!Init
  <2> SUFFICES ASSUME Init PROVE Contract!Init
    OBVIOUS
  <2>1. ToSet(pending) = {}
    BY DEF Init, ToSet
  <2>2. \A o \in Ops : Phase(o) = "new"
    <3> TAKE o \in Ops
    <3>1. app[o] = "none" /\ o \notin ToSet(pending) /\ request[o] # "answered"
      BY <2>1 DEF Init
    <3> QED
      BY <3>1, PhaseIs, PhaseCases
  <2>3. [o \in Ops |-> Phase(o)] = [o \in Ops |-> "new"]
    BY <2>2
  <2>4. answer = [o \in Ops |-> "none"] /\ (closer \in {"flag", "join", "done"}) = FALSE
    BY DEF Init
  <2> QED
    BY <2>1, <2>3, <2>4 DEF Contract!Init
<1>2. IInv /\ [Next]_vars => [Contract!Next]_(Contract!vars)
  <2> SUFFICES ASSUME IInv, [Next]_vars
               PROVE  Contract!Next \/ UNCHANGED Contract!vars
    OBVIOUS
  <2>1. CASE UNCHANGED vars
    <3>1. UNCHANGED <<app, pending, request, answer, closer>>
      BY <2>1 DEF vars, netVars, execVars, appVars
    <3> QED
      BY <3>1, QuietStep DEF ended
  <2>2. CASE Next
    BY <2>2, HandlerRefines, EngineRefines, WorkerRefines, ReaperRefines, ServerRefines DEF Next
  <2> QED
    BY <2>1, <2>2
<1> QED
  BY <1>1, <1>2, InvariantHolds, PTL DEF Spec, ImplementsContract, Contract!Spec
=============================================================================
