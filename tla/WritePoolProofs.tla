--------------------------- MODULE WritePoolProofs ---------------------------
(***************************************************************************)
(* Proofs about WritePool, for any number of calls, points and workers and *)
(* any batch size: the inductive invariant IInv, the safety properties it  *)
(* implies, and that every step of the pool is a step the port             *)
(* EventRepository allows, or a stutter.                                   *)
(***************************************************************************)
EXTENDS WritePool, SequenceTheorems, FiniteSetTheorems, TLAPS

-----------------------------------------------------------------------------
(* Sequences of distinct elements, used as queues.                         *)

\* Appending adds one element to the set of elements.
LEMMA ToSetAppend ==
    ASSUME NEW S, NEW s \in Seq(S), NEW e \in S
    PROVE  ToSet(Append(s, e)) = ToSet(s) \cup {e}
<1>1. ToSet(Append(s, e)) \subseteq ToSet(s) \cup {e}
  BY DEF ToSet
<1>2. ASSUME NEW x \in ToSet(s) PROVE x \in ToSet(Append(s, e))
  <2>1. PICK i \in 1..Len(s) : x = s[i]
    BY DEF ToSet
  <2>2. i \in DOMAIN Append(s, e) /\ Append(s, e)[i] = x
    BY <2>1
  <2> QED BY <2>2 DEF ToSet
<1>3. e \in ToSet(Append(s, e))
  <2>1. Len(s)+1 \in DOMAIN Append(s, e) /\ Append(s, e)[Len(s)+1] = e
    OBVIOUS
  <2> QED BY <2>1 DEF ToSet
<1> QED BY <1>1, <1>2, <1>3

\* Taking the head leaves the other elements.
LEMMA ToSetTail ==
    ASSUME NEW S, NEW s \in Seq(S), s # <<>>
    PROVE  /\ Head(s) \in S
           /\ Tail(s) \in Seq(S)
           /\ ToSet(s) = ToSet(Tail(s)) \cup {Head(s)}
<1>1. Len(s) \in Nat \ {0} /\ Head(s) = s[1] /\ Tail(s) \in Seq(S) /\ Len(Tail(s)) = Len(s) - 1
  OBVIOUS
<1>2. \A i \in 1..Len(s)-1 : Tail(s)[i] = s[i+1]
  OBVIOUS
<1>3. ASSUME NEW x \in ToSet(s) PROVE x \in ToSet(Tail(s)) \cup {Head(s)}
  <2>1. PICK i \in 1..Len(s) : x = s[i]
    BY DEF ToSet
  <2>2. CASE i = 1
    BY <2>1, <2>2, <1>1
  <2>3. CASE i # 1
    <3>1. i-1 \in 1..Len(s)-1 /\ Tail(s)[i-1] = x
      BY <2>1, <2>3, <1>1, <1>2
    <3>2. DOMAIN Tail(s) = 1..Len(s)-1
      BY <1>1
    <3>3. x \in ToSet(Tail(s))
      BY <3>1, <3>2 DEF ToSet
    <3> QED BY <3>3
  <2> QED BY <2>2, <2>3
<1>4. ASSUME NEW x \in ToSet(Tail(s)) PROVE x \in ToSet(s)
  <2>1. PICK i \in 1..Len(s)-1 : x = Tail(s)[i]
    BY <1>1 DEF ToSet
  <2>2. i+1 \in 1..Len(s) /\ x = s[i+1]
    BY <2>1, <1>1, <1>2
  <2> QED BY <2>2 DEF ToSet
<1>5. Head(s) \in ToSet(s) /\ Head(s) \in S
  BY <1>1 DEF ToSet
<1> QED BY <1>1, <1>3, <1>4, <1>5

\* A queue of distinct elements stays one when a new element is appended.
LEMMA InjectiveAppend ==
    ASSUME NEW S, NEW s \in Seq(S), NEW e \in S, IsInjective(s), e \notin ToSet(s)
    PROVE  IsInjective(Append(s, e))
<1>1. \A i \in 1..Len(s) : s[i] # e
  BY DEF ToSet
<1>2. \A i, j \in 1..Len(s) : s[i] = s[j] => i = j
  BY DEF IsInjective
<1>3. /\ DOMAIN Append(s, e) = 1..Len(s)+1
      /\ \A i \in 1..Len(s) : Append(s, e)[i] = s[i]
      /\ Append(s, e)[Len(s)+1] = e
  OBVIOUS
<1> QED BY <1>1, <1>2, <1>3 DEF IsInjective

\* The head of a queue of distinct elements occurs in it once.
LEMMA InjectiveTail ==
    ASSUME NEW S, NEW s \in Seq(S), s # <<>>, IsInjective(s)
    PROVE  IsInjective(Tail(s)) /\ Head(s) \notin ToSet(Tail(s))
<1>1. /\ Len(s) \in Nat \ {0} /\ Head(s) = s[1]
      /\ DOMAIN Tail(s) = 1..Len(s)-1
      /\ \A i \in 1..Len(s)-1 : Tail(s)[i] = s[i+1]
  OBVIOUS
<1>2. \A i, j \in 1..Len(s) : s[i] = s[j] => i = j
  BY DEF IsInjective
<1>3. ASSUME NEW i \in 1..Len(s)-1, NEW j \in 1..Len(s)-1, Tail(s)[i] = Tail(s)[j]
      PROVE i = j
  BY <1>1, <1>2, <1>3
<1>4. \A i \in 1..Len(s)-1 : Tail(s)[i] # Head(s)
  BY <1>1, <1>2
<1> QED BY <1>1, <1>3, <1>4 DEF IsInjective, ToSet
-----------------------------------------------------------------------------
(* The inductive invariant.                                                *)

LEMMA ChanCapNat == ChanCap \in Nat
<1>1. Cardinality(Workers) \in Nat
  BY PoolAssumption, FS_CardinalityType
<1> QED BY <1>1, PoolAssumption DEF ChanCap

LEMMA InitInv == Init => IInv
<1> SUFFICES ASSUME Init PROVE IInv
  OBVIOUS
<1> USE DEF Init
<1>1. ToSet(<<>>) = {} /\ IsInjective(<<>>)
  BY DEF ToSet, IsInjective
<1>2. TypeOK
  <2>1. <<>> \in Seq(Calls) /\ Len(<<>>) = 0 /\ 0 <= ChanCap /\ 0 <= BatchSize
    BY ChanCapNat, PoolAssumption
  <2>2. batch \in [Workers -> Seq(Calls)]
    BY <2>1
  <2>3. \A w \in Workers : Len(batch[w]) <= BatchSize
    BY <2>1
  <2> QED
    BY <2>1, <2>2, <2>3 DEF TypeOK, PCs, Returned, Results, WorkerPCs, Modes
<1>3. ExactlyOneAnswer
  BY <1>1 DEF ExactlyOneAnswer, InChannel, InBatch
<1>4. SentBeforeAnswered
  BY <1>1 DEF SentBeforeAnswered, InPool, InChannel, InBatch
<1>5. NilIsStored
  BY DEF NilIsStored
<1>6. WorkerShape
  BY PoolAssumption DEF WorkerShape
<1>7. Draining
  BY DEF Draining
<1> QED BY <1>2, <1>3, <1>4, <1>5, <1>6, <1>7 DEF IInv

(* A step of a caller that changes its own pc only: Save returns without a *)
(* result, or starts.                                                      *)
LEMMA CallerStep ==
    ASSUME IInv, NEW c \in Calls, NEW next \in {"enqueue", "rejected", "closed", "expired"},
           pc[c] \in {"idle", "enqueue", "wait"},
           pc' = [pc EXCEPT ![c] = next],
           InPool(c) => next = "expired",
           next = "enqueue" => pc[c] = "idle",
           UNCHANGED <<pointCh, result, workerVars, closeVars, rows, early>>
    PROVE  IInv'
<1> USE DEF IInv, TypeOK, workerVars, closeVars, PCs, Returned
<1>1. TypeOK'
  OBVIOUS
<1>2. ExactlyOneAnswer'
  BY DEF ExactlyOneAnswer, InChannel, InBatch
<1>3. SentBeforeAnswered'
  BY DEF SentBeforeAnswered, InPool, InChannel, InBatch
<1>4. NilIsStored'
  BY DEF NilIsStored, InBatch
<1>5. WorkerShape'
  BY DEF WorkerShape
<1>6. Draining'
  BY DEF Draining, InPool, InChannel, InBatch
<1> QED BY <1>1, <1>2, <1>3, <1>4, <1>5, <1>6

LEMMA SaveSendStep ==
    ASSUME IInv, NEW c \in Calls, SaveSend(c)
    PROVE  IInv'
<1> USE DEF SaveSend, workerVars, closeVars
<1>1. c \notin ToSet(pointCh) /\ \A w \in Workers : c \notin ToSet(batch[w])
  BY DEF IInv, SentBeforeAnswered, InPool, InChannel, InBatch
<1>2. /\ pointCh \in Seq(Calls) /\ IsInjective(pointCh)
      /\ Len(pointCh') = Len(pointCh) + 1 /\ pointCh' \in Seq(Calls)
  BY DEF IInv, TypeOK, ExactlyOneAnswer
<1>3. ToSet(pointCh') = ToSet(pointCh) \cup {c}
  BY <1>2, ToSetAppend
<1>4. IsInjective(pointCh')
  BY <1>1, <1>2, InjectiveAppend
<1>5. TypeOK'
  BY <1>2, ChanCapNat DEF IInv, TypeOK, PCs, Returned
<1>6. ExactlyOneAnswer'
  BY <1>1, <1>3, <1>4 DEF IInv, TypeOK, SentBeforeAnswered, ExactlyOneAnswer, InChannel, InBatch
<1>7. SentBeforeAnswered'
  BY <1>3 DEF IInv, TypeOK, SentBeforeAnswered, InPool, InChannel, InBatch
<1>8. NilIsStored'
  BY DEF IInv, TypeOK, NilIsStored, InBatch
<1>9. WorkerShape'
  BY DEF IInv, WorkerShape
<1>10. Draining'
  <2>1. \A d \in Calls : /\ InPool(d)' <=> InPool(d) \/ d = c
                         /\ InChannel(d)' <=> InChannel(d) \/ d = c
    BY <1>3 DEF InPool, InChannel, InBatch
  <2>2. CASE stopped
    <3>1. c \notin early
      BY <1>1 DEF IInv, TypeOK, Draining, SentBeforeAnswered, InPool, InChannel, InBatch
    <3> QED BY <2>1, <2>2, <3>1 DEF IInv, TypeOK, Draining
  <2>3. CASE ~stopped
    <3>1. \A w \in Workers : mode[w] # "leaving"
      BY <2>3 DEF IInv, Draining
    <3>2. early' = early \cup {c}
      BY <2>3
    <3> QED BY <2>1, <2>3, <3>1, <3>2 DEF IInv, TypeOK, Draining
  <2> QED BY <2>2, <2>3
<1> QED BY <1>5, <1>6, <1>7, <1>8, <1>9, <1>10 DEF IInv

LEMMA SaveResultStep ==
    ASSUME IInv, NEW c \in Calls, SaveResult(c)
    PROVE  IInv'
<1> USE DEF IInv, SaveResult, workerVars, closeVars
<1>1. ~InPool(c)
  BY DEF ExactlyOneAnswer, InPool
<1>2. TypeOK'
  BY DEF TypeOK, PCs, Returned, Results
<1>3. ExactlyOneAnswer'
  BY <1>1 DEF TypeOK, ExactlyOneAnswer, InPool, InChannel, InBatch
<1>4. SentBeforeAnswered'
  BY <1>1 DEF TypeOK, SentBeforeAnswered, InPool, InChannel, InBatch
<1>5. NilIsStored'
  BY DEF TypeOK, NilIsStored, InBatch
<1>6. WorkerShape'
  BY DEF WorkerShape
<1>7. Draining'
  BY DEF TypeOK, Draining, InPool, InChannel, InBatch
<1> QED BY <1>2, <1>3, <1>4, <1>5, <1>6, <1>7

LEMMA WorkerReceiveStep ==
    ASSUME IInv, NEW w \in Workers, WorkerReceive(w)
    PROVE  IInv'
<1> DEFINE h == Head(pointCh)
<1> USE DEF WorkerReceive, closeVars
<1>1. /\ pointCh \in Seq(Calls) /\ pointCh # <<>> /\ IsInjective(pointCh)
      /\ batch[w] \in Seq(Calls) /\ IsInjective(batch[w])
      /\ batch \in [Workers -> Seq(Calls)]
  BY DEF IInv, TypeOK, ExactlyOneAnswer
<1>2. /\ h \in Calls
      /\ pointCh' \in Seq(Calls)
      /\ Len(pointCh') = Len(pointCh) - 1
      /\ ToSet(pointCh) = ToSet(pointCh') \cup {h}
  BY <1>1, ToSetTail
<1>3. IsInjective(pointCh') /\ h \notin ToSet(pointCh')
  BY <1>1, InjectiveTail
<1>4. \A v \in Workers : h \notin ToSet(batch[v])
  BY <1>2 DEF IInv, ExactlyOneAnswer, InChannel, InBatch
<1>5. /\ batch'[w] = Append(batch[w], h)
      /\ \A v \in Workers \ {w} : batch'[v] = batch[v]
      /\ batch' \in [Workers -> Seq(Calls)]
      /\ Len(batch'[w]) = Len(batch[w]) + 1
      /\ batch'[w] # <<>>
  BY <1>1, <1>2
<1>6. ToSet(batch'[w]) = ToSet(batch[w]) \cup {h}
  BY <1>1, <1>2, <1>5, ToSetAppend
<1>7. IsInjective(batch'[w])
  BY <1>1, <1>2, <1>4, <1>5, InjectiveAppend
<1> HIDE DEF h
<1>8. TypeOK'
  <2>1. Len(pointCh') <= ChanCap
    BY <1>1, <1>2, ChanCapNat DEF IInv, TypeOK
  <2>2. \A v \in Workers : Len(batch'[v]) <= BatchSize
    <3>1. Len(batch[w]) < BatchSize
      BY DEF IInv, WorkerShape
    <3>2. Len(batch'[w]) <= BatchSize
      BY <1>1, <1>5, <3>1, PoolAssumption
    <3> QED BY <1>5, <3>2 DEF IInv, TypeOK
  <2> QED BY <1>2, <1>5, <2>1, <2>2 DEF IInv, TypeOK, WorkerPCs, ChanCap
<1>9. ExactlyOneAnswer'
  <2>1. \A v \in Workers : IsInjective(batch'[v])
    BY <1>5, <1>7 DEF IInv, ExactlyOneAnswer
  <2>2. \A v \in Workers, c \in Calls : InBatch(v, c)' => ~InChannel(c)'
    BY <1>2, <1>3, <1>5, <1>6 DEF IInv, ExactlyOneAnswer, InChannel, InBatch
  <2>3. \A u, v \in Workers, c \in Calls : InBatch(u, c)' /\ InBatch(v, c)' => u = v
    BY <1>4, <1>5, <1>6 DEF IInv, ExactlyOneAnswer, InBatch
  <2>4. \A c \in Calls : InPool(c)' <=> InPool(c)
    BY <1>2, <1>5, <1>6 DEF InPool, InChannel, InBatch
  <2> QED BY <1>3, <2>1, <2>2, <2>3, <2>4 DEF IInv, ExactlyOneAnswer, InPool
<1>10. \A c \in Calls : InPool(c)' <=> InPool(c)
  BY <1>2, <1>5, <1>6 DEF InPool, InChannel, InBatch
<1>11. SentBeforeAnswered'
  BY <1>10 DEF IInv, SentBeforeAnswered
<1>12. NilIsStored'
  <2>1. ASSUME NEW v \in Workers, wpc'[v] = "notify"
        PROVE  v # w /\ wpc[v] = "notify" /\ batch'[v] = batch[v]
    BY <1>5, <2>1 DEF IInv, TypeOK
  <2> QED BY <2>1 DEF IInv, NilIsStored, InBatch
<1>13. WorkerShape'
  <2>1. wpc'[w] = "receive" => Len(batch'[w]) < BatchSize
    BY <1>1, <1>5, PoolAssumption DEF IInv, TypeOK
  <2>2. wpc'[w] \in {"receive", "write"} /\ mode[w] # "leaving"
    BY DEF IInv, TypeOK, WorkerShape
  <2>3. \A v \in Workers \ {w} : wpc'[v] = wpc[v]
    BY DEF IInv, TypeOK
  <2> QED BY <1>5, <2>1, <2>2, <2>3 DEF IInv, WorkerShape
<1>14. Draining'
  <2>1. \A c \in Calls : InChannel(c)' => InChannel(c)
    BY <1>2 DEF InChannel
  <2>2. closer # "closed"
    BY DEF IInv, Draining
  <2> QED BY <1>10, <2>1, <2>2 DEF IInv, TypeOK, Draining
<1> QED BY <1>8, <1>9, <1>11, <1>12, <1>13, <1>14 DEF IInv

(* A worker that starts its last or its next flush, or leaves at once:     *)
(* neither the channel nor a batch changes.                                *)
LEMMA WorkerTickStep ==
    ASSUME IInv, NEW w \in Workers, WorkerTick(w)
    PROVE  IInv'
<1> USE DEF IInv, WorkerTick, closeVars
<1>1. TypeOK'
  BY DEF TypeOK, WorkerPCs
<1>2. ExactlyOneAnswer'
  BY DEF ExactlyOneAnswer, InChannel, InBatch
<1>3. SentBeforeAnswered'
  BY DEF SentBeforeAnswered, InPool, InChannel, InBatch
<1>4. NilIsStored'
  BY DEF TypeOK, NilIsStored, InBatch
<1>5. WorkerShape'
  BY DEF TypeOK, WorkerShape
<1>6. Draining'
  BY DEF TypeOK, Draining, InPool, InChannel, InBatch
<1> QED BY <1>1, <1>2, <1>3, <1>4, <1>5, <1>6

LEMMA WorkerStopStep ==
    ASSUME IInv, NEW w \in Workers, WorkerStop(w)
    PROVE  IInv'
<1> USE DEF IInv, WorkerStop, closeVars
<1>1. TypeOK'
  BY DEF TypeOK, Modes
<1>2. ExactlyOneAnswer'
  BY DEF ExactlyOneAnswer, InChannel, InBatch
<1>3. SentBeforeAnswered'
  BY DEF SentBeforeAnswered, InPool, InChannel, InBatch
<1>4. NilIsStored'
  BY DEF NilIsStored, InBatch
<1>5. WorkerShape'
  BY DEF TypeOK, WorkerShape
<1>6. Draining'
  BY DEF TypeOK, Draining, InPool, InChannel, InBatch
<1> QED BY <1>1, <1>2, <1>3, <1>4, <1>5, <1>6

LEMMA WorkerDrainedStep ==
    ASSUME IInv, NEW w \in Workers, WorkerDrained(w)
    PROVE  IInv'
<1> USE DEF IInv, WorkerDrained, closeVars
<1>1. TypeOK'
  BY DEF TypeOK, Modes, WorkerPCs
<1>2. ExactlyOneAnswer'
  BY DEF ExactlyOneAnswer, InChannel, InBatch
<1>3. SentBeforeAnswered'
  BY DEF SentBeforeAnswered, InPool, InChannel, InBatch
<1>4. NilIsStored'
  BY DEF TypeOK, NilIsStored, InBatch
<1>5. WorkerShape'
  BY DEF TypeOK, WorkerShape
<1>6. Draining'
  <2>1. \A c \in Calls : ~InChannel(c)
    BY DEF InChannel, ToSet
  <2>2. closer # "closed" /\ stopped
    BY DEF Draining
  <2> QED BY <2>1, <2>2 DEF TypeOK, Draining, InPool, InChannel, InBatch
<1> QED BY <1>1, <1>2, <1>3, <1>4, <1>5, <1>6

LEMMA FlushWriteStep ==
    ASSUME IInv, NEW w \in Workers, FlushWrite(w)
    PROVE  IInv'
<1> USE DEF IInv, FlushWrite, closeVars
<1>1. rows \subseteq rows' /\ rows' \subseteq rows \cup PointsIn(w)
  OBVIOUS
<1>2. PointsIn(w) \subseteq Points
  <2>1. ToSet(batch[w]) \subseteq Calls
    BY DEF TypeOK, ToSet
  <2> QED BY <2>1, CallsAssumption DEF PointsIn
<1>3. TypeOK'
  BY <1>1, <1>2 DEF TypeOK, WorkerPCs
<1>4. ExactlyOneAnswer'
  BY DEF ExactlyOneAnswer, InChannel, InBatch
<1>5. SentBeforeAnswered'
  BY DEF SentBeforeAnswered, InPool, InChannel, InBatch
<1>6. NilIsStored'
  <2>1. outcome'[w] = "ok" => PointsIn(w) \subseteq rows'
    BY DEF TypeOK
  <2>2. \A c \in Calls : InBatch(w, c) => PointOf[c] \in PointsIn(w)
    BY DEF InBatch, PointsIn
  <2>3. \A v \in Workers \ {w} : wpc'[v] = wpc[v] /\ outcome'[v] = outcome[v]
    BY DEF TypeOK
  <2> QED BY <1>1, <2>1, <2>2, <2>3 DEF NilIsStored, InBatch
<1>7. WorkerShape'
  BY DEF TypeOK, WorkerShape
<1>8. Draining'
  BY DEF TypeOK, Draining, InPool, InChannel, InBatch
<1> QED BY <1>3, <1>4, <1>5, <1>6, <1>7, <1>8

LEMMA FlushNotifyStep ==
    ASSUME IInv, NEW w \in Workers, FlushNotify(w)
    PROVE  IInv'
<1> DEFINE h == Head(batch[w])
<1> USE DEF FlushNotify, closeVars
<1>1. /\ batch[w] \in Seq(Calls) /\ batch[w] # <<>> /\ IsInjective(batch[w])
      /\ batch \in [Workers -> Seq(Calls)]
  BY DEF IInv, TypeOK, ExactlyOneAnswer, WorkerShape
<1>2. /\ h \in Calls
      /\ Tail(batch[w]) \in Seq(Calls)
      /\ Len(Tail(batch[w])) = Len(batch[w]) - 1
      /\ ToSet(batch[w]) = ToSet(Tail(batch[w])) \cup {h}
  BY <1>1, ToSetTail
<1>3. /\ batch'[w] = Tail(batch[w])
      /\ \A v \in Workers \ {w} : batch'[v] = batch[v]
      /\ batch' \in [Workers -> Seq(Calls)]
  BY <1>1, <1>2
<1>4. IsInjective(batch'[w]) /\ h \notin ToSet(batch'[w])
  BY <1>1, <1>3, InjectiveTail
<1>5. ToSet(batch[w]) = ToSet(batch'[w]) \cup {h}
  BY <1>2, <1>3
<1>6. h \notin ToSet(pointCh) /\ \A v \in Workers : h \notin ToSet(batch'[v])
  BY <1>2, <1>3, <1>4, <1>5 DEF IInv, ExactlyOneAnswer, InChannel, InBatch
<1>7. /\ result' = [result EXCEPT ![h] = outcome[w]]
      /\ outcome[w] \in {"ok", "error"}
      /\ pc[h] \in {"wait", "expired"}
  BY <1>2, <1>5 DEF IInv, TypeOK, SentBeforeAnswered, InPool, InBatch
<1>8. /\ Len(batch[w]) \in Nat
      /\ Len(batch[w]) > 1 => batch'[w] # <<>>
      /\ ~(Len(batch[w]) > 1) => batch'[w] = <<>>
  <2>1. /\ Len(batch[w]) \in Nat \ {0}
        /\ batch'[w] \in Seq(Calls)
        /\ Len(batch'[w]) = Len(batch[w]) - 1
    BY <1>1, <1>2, <1>3, EmptySeq
  <2> QED BY <2>1, EmptySeq
<1> HIDE DEF h
<1>9. \A c \in Calls : InPool(c) <=> InPool(c)' \/ c = h
  BY <1>3, <1>5 DEF InPool, InChannel, InBatch
<1>10. TypeOK'
  <2>1. \A v \in Workers : Len(batch'[v]) <= BatchSize
    BY <1>1, <1>2, <1>3, PoolAssumption DEF IInv, TypeOK
  <2> QED BY <1>2, <1>3, <1>7, <2>1 DEF IInv, TypeOK, WorkerPCs, Results
<1>11. ExactlyOneAnswer'
  <2>1. \A v \in Workers : IsInjective(batch'[v])
    BY <1>3, <1>4 DEF IInv, ExactlyOneAnswer
  <2>2. \A v \in Workers, c \in Calls : InBatch(v, c)' => InBatch(v, c)
    BY <1>3, <1>5 DEF InBatch
  <2>3. \A c \in Calls : InPool(c)' => c # h
    BY <1>6 DEF InPool, InChannel, InBatch
  <2>4. \A c \in Calls : c # h => result'[c] = result[c]
    BY <1>2, <1>7 DEF IInv, TypeOK
  <2>5. result'[h] # "empty"
    BY <1>2, <1>7 DEF IInv, TypeOK
  <2> QED BY <1>9, <2>1, <2>2, <2>3, <2>4, <2>5 DEF IInv, ExactlyOneAnswer, InPool, InChannel
<1>12. SentBeforeAnswered'
  BY <1>2, <1>7, <1>9 DEF IInv, TypeOK, SentBeforeAnswered
<1>13. NilIsStored'
  <2>1. \A v \in Workers, c \in Calls : InBatch(v, c)' => InBatch(v, c)
    BY <1>3, <1>5 DEF InBatch
  <2>2. outcome[w] = "ok" => PointOf[h] \in rows
    BY <1>2, <1>5 DEF IInv, NilIsStored, InBatch
  <2>3. \A v \in Workers : wpc'[v] = "notify" => wpc[v] = "notify"
    BY DEF IInv, TypeOK
  <2> QED BY <1>2, <1>7, <2>1, <2>2, <2>3 DEF IInv, TypeOK, NilIsStored
<1>14. WorkerShape'
  <2>1. \A v \in Workers \ {w} : wpc'[v] = wpc[v]
    BY DEF IInv, TypeOK
  <2>2. CASE Len(batch[w]) > 1
    <3>1. wpc'[w] = "notify"
      BY <2>2 DEF IInv, TypeOK
    <3> QED BY <1>3, <1>8, <2>1, <2>2, <3>1 DEF IInv, WorkerShape
  <2>3. CASE ~(Len(batch[w]) > 1)
    <3>1. wpc'[w] = IF mode[w] = "leaving" THEN "exited" ELSE "receive"
      BY <2>3 DEF IInv, TypeOK
    <3>2. batch'[w] = <<>> /\ Len(batch'[w]) < BatchSize
      BY <1>8, <2>3, PoolAssumption
    <3> QED BY <1>3, <2>1, <3>1, <3>2 DEF IInv, WorkerShape
  <2> QED BY <2>2, <2>3
<1>15. Draining'
  <2>1. closer # "closed"
    BY DEF IInv, Draining
  <2>2. \A c \in early : result'[c] = "empty" => result[c] = "empty" /\ c # h
    BY <1>2, <1>7 DEF IInv, TypeOK
  <2> QED BY <1>9, <2>1, <2>2 DEF IInv, TypeOK, Draining, InChannel
<1> QED BY <1>10, <1>11, <1>12, <1>13, <1>14, <1>15 DEF IInv

LEMMA CloseStopStep ==
    ASSUME IInv, CloseStop
    PROVE  IInv'
<1> USE DEF IInv, CloseStop, workerVars
<1>1. TypeOK'
  BY DEF TypeOK
<1>2. ExactlyOneAnswer'
  BY DEF ExactlyOneAnswer, InChannel, InBatch
<1>3. SentBeforeAnswered'
  BY DEF SentBeforeAnswered, InPool, InChannel, InBatch
<1>4. NilIsStored'
  BY DEF NilIsStored, InBatch
<1>5. WorkerShape'
  BY DEF WorkerShape
<1>6. Draining'
  BY DEF Draining, InPool, InChannel, InBatch
<1> QED BY <1>1, <1>2, <1>3, <1>4, <1>5, <1>6

LEMMA CloseWaitStep ==
    ASSUME IInv, CloseWait
    PROVE  IInv'
<1> USE DEF IInv, CloseWait, workerVars
<1>1. TypeOK'
  BY DEF TypeOK
<1>2. ExactlyOneAnswer'
  BY DEF ExactlyOneAnswer, InChannel, InBatch
<1>3. SentBeforeAnswered'
  BY DEF SentBeforeAnswered, InPool, InChannel, InBatch
<1>4. NilIsStored'
  BY DEF NilIsStored, InBatch
<1>5. WorkerShape'
  BY DEF WorkerShape
<1>6. Draining'
  BY DEF Draining, InPool, InChannel, InBatch
<1> QED BY <1>1, <1>2, <1>3, <1>4, <1>5, <1>6

LEMMA StutterStep ==
    ASSUME IInv, UNCHANGED vars
    PROVE  IInv'
BY DEF vars, workerVars, closeVars, IInv, TypeOK, ExactlyOneAnswer,
       SentBeforeAnswered, NilIsStored, WorkerShape, Draining, InPool,
       InChannel, InBatch

LEMMA NextInv ==
    ASSUME IInv, [Next]_vars
    PROVE  IInv'
<1>1. ASSUME NEW c \in Calls, Caller(c) PROVE IInv'
  <2>1. ~InPool(c) \/ pc[c] \in {"wait", "expired"}
    BY DEF IInv, SentBeforeAnswered
  <2>2. CASE SaveReject(c)
    BY <2>1, <2>2, CallerStep DEF SaveReject
  <2>3. CASE SaveCall(c)
    BY <2>1, <2>3, CallerStep DEF SaveCall
  <2>4. CASE SaveSend(c)
    BY <2>4, SaveSendStep
  <2>5. CASE SaveSendClosed(c)
    BY <2>1, <2>5, CallerStep DEF SaveSendClosed
  <2>6. CASE SaveExpired(c)
    BY <2>6, CallerStep DEF SaveExpired
  <2>7. CASE SaveResult(c)
    BY <2>7, SaveResultStep
  <2> QED BY <1>1, <2>2, <2>3, <2>4, <2>5, <2>6, <2>7 DEF Caller
<1>2. ASSUME NEW w \in Workers, Worker(w) PROVE IInv'
  BY <1>2, WorkerReceiveStep, WorkerTickStep, WorkerStopStep, WorkerDrainedStep,
     FlushWriteStep, FlushNotifyStep DEF Worker
<1>3. CASE CloseStop \/ CloseWait
  BY <1>3, CloseStopStep, CloseWaitStep
<1>4. CASE Terminated \/ UNCHANGED vars
  BY <1>4, StutterStep DEF Terminated
<1> QED BY <1>1, <1>2, <1>3, <1>4 DEF Next

-----------------------------------------------------------------------------
(* The theorems.                                                           *)

\* The inductive invariant holds in every reachable state of the pool, with
\* or without fairness.
THEOREM Inductive == SafeSpec => []IInv
<1>1. Init => IInv
  BY InitInv
<1>2. IInv /\ [Next]_vars => IInv'
  BY NextInv
<1> QED BY <1>1, <1>2, PTL DEF SafeSpec

\* Type correctness: the channel never holds more than
\* workerCount*batchSize requests, a worker never more than batchSize.
THEOREM TypeCorrect == SafeSpec => []TypeOK
<1>1. IInv => TypeOK
  BY DEF IInv
<1> QED BY <1>1, Inductive, PTL

\* Save returns nil only when the point of its event is in InfluxDB: the
\* contract on which the subscriber acknowledges a message.
THEOREM NilMeansStored == SafeSpec => []SaveOkIsStored
<1>1. IInv => SaveOkIsStored
  BY DEF IInv, NilIsStored, SaveOkIsStored
<1> QED BY <1>1, Inductive, PTL

\* Requests are neither lost nor duplicated between callers and workers, and
\* flushBatch's send on a result channel never finds it full.
THEOREM NoRequestIsLost == SafeSpec => []ExactlyOneAnswer
<1>1. IInv => ExactlyOneAnswer
  BY DEF IInv
<1> QED BY <1>1, Inductive, PTL

\* The send of flushBatch finds the buffer of the result channel empty.
SendFindsRoom ==
    \A w \in Workers : wpc[w] = "notify" => result[Head(batch[w])] = "empty"

\* A result channel is written once, and read by its caller after that.
WrittenOnce ==
    \A c \in Calls : result'[c] # result[c] =>
        \/ result[c] = "empty" /\ result'[c] \in {"ok", "error"}
        \/ pc[c] = "wait" /\ result[c] \in {"ok", "error"} /\ result'[c] = "taken"

LEMMA Room == ASSUME IInv, NEW w \in Workers, wpc[w] = "notify"
              PROVE  Head(batch[w]) \in Calls /\ result[Head(batch[w])] = "empty"
<1>1. batch[w] \in Seq(Calls) /\ batch[w] # <<>>
  BY DEF IInv, TypeOK, WorkerShape
<1>2. Head(batch[w]) \in Calls /\ InBatch(w, Head(batch[w]))
  BY <1>1, ToSetTail DEF InBatch
<1> QED BY <1>2 DEF IInv, ExactlyOneAnswer

\* "Each point's result channel is always written to exactly once" (comment
\* above writeWorker) holds in its half of the upper bound: no worker waits for
\* room in a result channel, and none writes to one again.
THEOREM AtMostOneAnswer == SafeSpec => []SendFindsRoom /\ [][WrittenOnce]_vars
<1>1. IInv => SendFindsRoom
  BY Room DEF SendFindsRoom
<1>2. ASSUME IInv, Next PROVE WrittenOnce
  <2>1. ASSUME NEW w \in Workers, FlushNotify(w) PROVE WrittenOnce
    BY <1>2, <2>1, Room DEF FlushNotify, WrittenOnce, IInv, TypeOK
  <2>2. ASSUME NEW c \in Calls, SaveResult(c) PROVE WrittenOnce
    BY <1>2, <2>2 DEF SaveResult, WrittenOnce, IInv, TypeOK
  <2>3. ASSUME result' = result PROVE WrittenOnce
    BY <2>3 DEF WrittenOnce
  <2>4. ASSUME NEW c \in Calls, Caller(c), ~SaveResult(c) PROVE result' = result
    BY <2>4 DEF Caller, SaveReject, SaveCall, SaveSend, SaveSendClosed, SaveExpired
  <2>5. ASSUME NEW w \in Workers, Worker(w), ~FlushNotify(w) PROVE result' = result
    BY <2>5 DEF Worker, WorkerReceive, WorkerTick, WorkerStop, WorkerDrained, FlushWrite
  <2>6. CASE CloseStop \/ CloseWait \/ Terminated
    BY <2>3, <2>6 DEF CloseStop, CloseWait, Terminated, vars
  <2> QED BY <1>2, <2>1, <2>2, <2>3, <2>4, <2>5, <2>6 DEF Next
<1>3. IInv /\ [Next]_vars => [WrittenOnce]_vars
  BY <1>2
<1> QED BY <1>1, <1>3, Inductive, PTL DEF SafeSpec

\* When Close returns, every call accepted before it has been answered.
THEOREM CloseDrainsThePool == SafeSpec => []CloseDrains
<1>1. ASSUME IInv PROVE CloseDrains
  <2> SUFFICES ASSUME closer = "closed", NEW c \in early PROVE result[c] # "empty"
    BY DEF CloseDrains
  <2>1. \A w \in Workers : wpc[w] = "exited"
    BY <1>1 DEF IInv, Draining
  <2>2. \A w \in Workers : batch[w] = <<>> /\ mode[w] = "leaving"
    BY <1>1, <2>1 DEF IInv, WorkerShape
  <2>3. ~InChannel(c)
    BY <1>1, <2>2, PoolAssumption DEF IInv, Draining
  <2>4. \A w \in Workers : ~InBatch(w, c)
    BY <2>2 DEF InBatch, ToSet
  <2> QED BY <1>1, <2>3, <2>4 DEF IInv, Draining, InPool
<1> QED BY <1>1, Inductive, PTL

\* No write is issued once Close has returned and the client is closed.
THEOREM ClosedIsQuiet == SafeSpec => NoWriteAfterClose
<1>1. ASSUME IInv, [Next]_vars, closer = "closed" PROVE UNCHANGED <<rows, batch>>
  <2>1. \A w \in Workers : wpc[w] = "exited"
    BY <1>1 DEF IInv, Draining
  <2>2. \A w \in Workers : ~Worker(w)
    BY <2>1 DEF Worker, WorkerReceive, WorkerTick, WorkerStop, WorkerDrained,
                FlushWrite, FlushNotify
  <2>3. ASSUME NEW c \in Calls, Caller(c) PROVE UNCHANGED <<rows, batch>>
    BY <2>3 DEF Caller, SaveReject, SaveCall, SaveSend, SaveSendClosed,
                SaveExpired, SaveResult, workerVars
  <2> QED BY <1>1, <2>2, <2>3 DEF Next, CloseStop, CloseWait, Terminated, vars, workerVars
<1>2. IInv /\ [Next]_vars => [closer = "closed" => UNCHANGED <<rows, batch>>]_vars
  BY <1>1
<1> QED BY <1>2, Inductive, PTL DEF SafeSpec, NoWriteAfterClose

\* Every step of the pool is, for its callers and the database, a step the
\* port allows or none at all.
THEOREM PoolImplementsPort == SafeSpec => Repository!SafeSpec
<1> DEFINE seen == [c \in Calls |-> CallerSees(c)]
<1>1. Init => Repository!Init
  BY DEF Init, Repository!Init, CallerSees
<1>2. ASSUME IInv, [Next]_vars PROVE [Repository!Next]_(Repository!vars)
  <2> USE DEF Repository!vars
  <2>1. ASSUME NEW c \in Calls, SaveReject(c) PROVE Repository!ReturnError(c)
    BY <1>2, <2>1 DEF IInv, TypeOK, PCs, Returned, SaveReject, CallerSees, Repository!ReturnError
  <2>2. ASSUME NEW c \in Calls, SaveCall(c) PROVE Repository!Start(c)
    BY <1>2, <2>2 DEF IInv, TypeOK, PCs, Returned, SaveCall, CallerSees, Repository!Start
  <2>3. ASSUME NEW c \in Calls, SaveSend(c) PROVE UNCHANGED <<seen, rows>>
    BY <1>2, <2>3 DEF IInv, TypeOK, PCs, Returned, SaveSend, CallerSees
  <2>4. ASSUME NEW c \in Calls, SaveSendClosed(c) \/ SaveExpired(c) PROVE Repository!ReturnError(c)
    BY <1>2, <2>4 DEF IInv, TypeOK, PCs, Returned, SaveSendClosed, SaveExpired,
                      CallerSees, Repository!ReturnError
  <2>5. ASSUME NEW c \in Calls, SaveResult(c)
        PROVE Repository!ReturnOk(c) \/ Repository!ReturnError(c)
    <3>1. CASE result[c] = "ok"
      BY <1>2, <2>5, <3>1 DEF IInv, TypeOK, PCs, Returned, NilIsStored, SaveResult,
                              CallerSees, Repository!ReturnOk
    <3>2. CASE result[c] # "ok"
      BY <1>2, <2>5, <3>2 DEF IInv, TypeOK, PCs, Returned, SaveResult,
                              CallerSees, Repository!ReturnError
    <3> QED BY <3>1, <3>2
  <2>6. ASSUME NEW w \in Workers, FlushWrite(w) PROVE Repository!Store
    <3>1. PICK S \in SUBSET PointsIn(w) : rows' = rows \cup S
      BY <2>6 DEF FlushWrite
    <3>2. \A c \in ToSet(batch[w]) : c \in Calls /\ CallerSees(c) # "idle"
      <4>1. ToSet(batch[w]) \subseteq Calls
        BY <1>2 DEF IInv, TypeOK, ToSet
      <4>2. \A c \in ToSet(batch[w]) : pc[c] \in {"wait", "expired"}
        BY <1>2, <4>1 DEF IInv, SentBeforeAnswered, InPool, InBatch
      <4> QED BY <4>1, <4>2 DEF CallerSees
    <3>3. S \subseteq {PointOf[c] : c \in {d \in Calls : seen[d] # "idle"}}
      BY <3>2 DEF PointsIn
    <3>4. UNCHANGED seen
      BY <2>6 DEF FlushWrite, CallerSees
    <3> QED BY <3>1, <3>3, <3>4 DEF Repository!Store
  <2>7. ASSUME NEW w \in Workers, Worker(w), ~FlushWrite(w) PROVE UNCHANGED <<seen, rows>>
    BY <2>7 DEF Worker, WorkerReceive, WorkerTick, WorkerStop, WorkerDrained,
                FlushNotify, CallerSees
  <2>8. CASE CloseStop \/ CloseWait \/ Terminated \/ UNCHANGED vars
    BY <2>8 DEF CloseStop, CloseWait, Terminated, vars, CallerSees
  <2> QED BY <1>2, <2>1, <2>2, <2>3, <2>4, <2>5, <2>6, <2>7, <2>8
          DEF Next, Caller, Repository!Next
<1> QED BY <1>1, <1>2, Inductive, PTL DEF SafeSpec, Repository!SafeSpec

=============================================================================
