--------------------------- MODULE CanServerProofs ---------------------------
(***************************************************************************)
(* Theorems about CanServer, for every capacity, bound, junk set and kind  *)
(* of driver: the lock of the driver and the end of the tasks; the order   *)
(* of chunks and frames through canserver; and that its tasks, channels    *)
(* and lock implement the bridge.                                          *)
(***************************************************************************)
EXTENDS CanServer, SequenceLemmas

-----------------------------------------------------------------------------
(* Sequences: the library's RemoveAt *)

LEMMA RemoveAtProperties ==
  ASSUME NEW S, NEW s \in Seq(S), NEW i \in 1 .. Len(s)
  PROVE  /\ RemoveAt(s, i) \in Seq(S) /\ Len(RemoveAt(s, i)) = Len(s) - 1
         /\ \A j \in 1 .. Len(s) - 1 :
              RemoveAt(s, i)[j] = IF j < i THEN s[j] ELSE s[j + 1]
<1>. DEFINE left  == SubSeq(s, 1, i - 1)
            right == SubSeq(s, i + 1, Len(s))
<1>0. Len(s) \in Nat /\ i \in Nat /\ 1 <= i /\ i <= Len(s)
  OBVIOUS
<1>1. /\ left \in Seq(S) /\ Len(left) = i - 1
      /\ \A j \in 1 .. i - 1 : left[j] = s[j]
  BY <1>0, SubSeqProperties
<1>2. /\ right \in Seq(S) /\ Len(right) = Len(s) - i
      /\ \A j \in 1 .. Len(s) - i : right[j] = s[i + j]
  BY <1>0, SubSeqProperties
<1>3. RemoveAt(s, i) = left \o right
  BY DEF RemoveAt
<1>. HIDE DEF left, right
<1>. DEFINE r == left \o right
<1>4. /\ r \in Seq(S) /\ Len(r) = Len(left) + Len(right)
      /\ \A j \in 1 .. Len(left) + Len(right) :
            r[j] = IF j <= Len(left) THEN left[j] ELSE right[j - Len(left)]
  BY <1>1, <1>2, ConcatProperties, Zenon
<1>. HIDE DEF r
<1>5. Len(r) = Len(s) - 1
  BY <1>0, <1>1, <1>2, <1>4
<1>6. ASSUME NEW j \in 1 .. Len(s) - 1
      PROVE  r[j] = IF j < i THEN s[j] ELSE s[j + 1]
  <2>0. j \in 1 .. Len(left) + Len(right)
    BY <1>0, <1>1, <1>2
  <2>1. CASE j < i
    <3>1. j <= Len(left) /\ j \in 1 .. i - 1
      BY <1>0, <1>1, <2>1
    <3>2. r[j] = left[j]
      BY <1>4, <2>0, <3>1
    <3>. QED  BY <1>1, <2>1, <3>1, <3>2
  <2>2. CASE j >= i
    <3>1. ~ j <= Len(left) /\ j - Len(left) \in 1 .. Len(s) - i
      BY <1>0, <1>1, <2>2
    <3>2. r[j] = right[j - Len(left)]
      BY <1>4, <2>0, <3>1
    <3>3. right[j - Len(left)] = s[i + (j - Len(left))]
      BY <1>2, <3>1
    <3>4. i + (j - Len(left)) = j + 1
      BY <1>0, <1>1
    <3>. QED  BY <1>0, <2>2, <3>2, <3>3, <3>4
  <2>. QED  BY <1>0, <2>1, <2>2
<1>. QED  BY <1>3, <1>4, <1>5, <1>6 DEF r

\* Removing an element of a sequence without repetitions.
LEMMA RemoveAtInjective ==
  ASSUME NEW S, NEW s \in Seq(S), NEW i \in 1 .. Len(s), NEW r \in Seq(S),
         Len(r) = Len(s) - 1,
         \A j, k \in 1 .. Len(s) : s[j] = s[k] => j = k,
         \A j \in 1 .. Len(s) - 1 : r[j] = IF j < i THEN s[j] ELSE s[j + 1]
  PROVE  /\ \A j, k \in 1 .. Len(r) : r[j] = r[k] => j = k
         /\ \A x : x \in Range(r) <=> x \in Range(s) /\ x # s[i]
<1>1. \A j, k \in 1 .. Len(r) : r[j] = r[k] => j = k
  OBVIOUS
<1>2. ASSUME NEW j \in 1 .. Len(r)
      PROVE  \E k \in 1 .. Len(s) : r[j] = s[k] /\ r[j] # s[i]
  <2>1. CASE j < i
    BY <2>1
  <2>2. CASE ~ j < i
    BY <2>2
  <2>. QED  BY <2>1, <2>2
<1>3. ASSUME NEW k \in 1 .. Len(s), k # i
      PROVE  \E j \in 1 .. Len(r) : r[j] = s[k]
  <2>1. CASE k < i
    BY <2>1
  <2>2. CASE k > i
    <3>1. k - 1 \in 1 .. Len(r) /\ ~ k - 1 < i /\ (k - 1) + 1 = k
      BY <2>2
    <3>2. r[k - 1] = s[(k - 1) + 1]
      BY <3>1
    <3>. QED  BY <3>1, <3>2
  <2>3. k < i \/ k > i
    BY <1>3
  <2>. QED  BY <2>1, <2>2, <2>3
<1>4. /\ \A x : x \in Range(r) <=> \E j \in 1 .. Len(r) : r[j] = x
      /\ \A x : x \in Range(s) <=> \E j \in 1 .. Len(s) : s[j] = x
  BY DEF Range
<1>5. ASSUME NEW x, x \in Range(r) PROVE x \in Range(s) /\ x # s[i]
  <2>1. PICK j \in 1 .. Len(r) : r[j] = x
    BY <1>4, <1>5
  <2>2. PICK k \in 1 .. Len(s) : r[j] = s[k] /\ r[j] # s[i]
    BY <1>2
  <2>. QED  BY <1>4, <2>1, <2>2
<1>6. ASSUME NEW x, x \in Range(s), x # s[i] PROVE x \in Range(r)
  <2>1. PICK k \in 1 .. Len(s) : s[k] = x
    BY <1>4, <1>6
  <2>2. PICK j \in 1 .. Len(r) : r[j] = s[k]
    BY <1>3, <1>6, <2>1
  <2>. QED  BY <1>4, <2>1, <2>2
<1>. QED  BY <1>1, <1>5, <1>6

-----------------------------------------------------------------------------
(* Typing *)

\* A move of one task keeps the program counters typed.
LEMMA PcStep ==
  ASSUME PcType, NEW t \in Tasks, NEW l \in Labels[t], Goto(t, l)
  PROVE  PcType' /\ At(t, l)' /\ \A u \in Tasks \ {t} : pc'[u] = pc[u]
BY DEF PcType, Goto, At

\* The operations of the lock keep it typed.
LEMMA AcquireType ==
  ASSUME LockType, NEW t \in Clients, Acquire(t)
  PROVE  LockType'
BY DEF LockType, Acquire

LEMMA ReleaseType ==
  ASSUME LockType, Release
  PROVE  LockType'
BY DEF LockType, Release

LEMMA LeaveType ==
  ASSUME LockType, NEW t \in Clients, Leave(t)
  PROVE  LockType'
<1>1. CASE owner = t
  BY <1>1, ReleaseType DEF Leave
<1>2. CASE owner # t
  <2>1. PICK i \in 1 .. Len(waiters) : waiters' = RemoveAt(waiters, i) /\ owner' = owner
    BY <1>2 DEF Leave, Dequeue
  <2>. QED  BY <2>1, RemoveAtProperties DEF LockType
<1>. QED  BY <1>1, <1>2

\* What an action leaves alone keeps its type.
LEMMA TypeFrame ==
  ASSUME TypeOK
  PROVE  /\ UNCHANGED lockVars => LockType'
         /\ UNCHANGED inVars => InType'
         /\ UNCHANGED outVars => OutType'
         /\ UNCHANGED mainVars => MainType'
BY DEF TypeOK, LockType, InType, OutType, MainType, lockVars, inVars, outVars, mainVars

LEMMA InitType == Init => TypeOK
<1>. SUFFICES ASSUME Init PROVE TypeOK
  OBVIOUS
<1>1. PcType
  BY DEF Init, PcType, Tasks, Labels
<1>2. LockType
  BY DEF Init, LockType
<1>3. InType
  BY CapAssumption DEF Init, InType
<1>4. OutType
  BY CapAssumption DEF Init, OutType
<1>5. MainType
  BY DEF Init, MainType
<1>. QED  BY <1>1, <1>2, <1>3, <1>4, <1>5 DEF TypeOK

(***************************************************************************)
(* Every variable keeps its type and both channels stay within their       *)
(* capacity, in every reachable state.                                     *)
(***************************************************************************)
THEOREM TypeCorrect == Spec => []TypeOK
<1>1. TypeOK /\ [Next]_vars => TypeOK'
  <2>. SUFFICES ASSUME TypeOK, [Next]_vars PROVE TypeOK'
    OBVIOUS
  <2>1. CASE RdConnect
    <3>1. PcType'
      BY <2>1, PcStep DEF RdConnect, TypeOK, Tasks, Labels
    <3>. QED  BY <2>1, <3>1, TypeFrame DEF RdConnect, TypeOK
  <2>2. CASE RdRead
    <3>1. PcType'
      BY <2>2, PcStep DEF RdRead, TypeOK, Tasks, Labels
    <3>2. InType'
      BY <2>2, CapAssumption DEF RdRead, TypeOK, InType
    <3>. QED  BY <2>2, <3>1, <3>2, TypeFrame DEF RdRead, TypeOK
  <2>3. CASE RdEof
    <3>1. PcType'
      BY <2>3, PcStep DEF RdEof, TypeOK, Tasks, Labels
    <3>. QED  BY <2>3, <3>1, TypeFrame DEF RdEof, TypeOK
  <2>4. CASE RdFail
    <3>1. PcType'
      BY <2>4, PcStep DEF RdFail, TypeOK, Tasks, Labels
    <3>. QED  BY <2>4, <3>1, TypeFrame DEF RdFail, TypeOK
  <2>5. CASE RdSend
    <3>1. PcType'
      BY <2>5, PcStep DEF RdSend, TypeOK, Tasks, Labels
    <3>2. InType'
      BY <2>5, CapAssumption DEF RdSend, TypeOK, InType
    <3>. QED  BY <2>5, <3>1, <3>2, TypeFrame DEF RdSend, TypeOK
  <2>6. CASE RdSendClosed
    <3>1. PcType'
      BY <2>6, PcStep DEF RdSendClosed, TypeOK, Tasks, Labels
    <3>2. InType'
      BY <2>6, CapAssumption DEF RdSendClosed, TypeOK, InType
    <3>. QED  BY <2>6, <3>1, <3>2, TypeFrame DEF RdSendClosed, TypeOK
  <2>7. CASE InSkip
    <3>1. PcType'
      BY <2>7 DEF InSkip, TypeOK, PcType
    <3>2. InType'
      BY <2>7, CapAssumption DEF InSkip, TypeOK, InType
    <3>. QED  BY <2>7, <3>1, <3>2, TypeFrame DEF InSkip, TypeOK
  <2>8. CASE InRecv
    <3>1. PcType'
      BY <2>8, PcStep DEF InRecv, TypeOK, Tasks, Labels
    <3>2. LockType'
      BY <2>8, AcquireType DEF InRecv, TypeOK, Clients
    <3>3. InType'
      BY <2>8, CapAssumption DEF InRecv, TypeOK, InType
    <3>. QED  BY <2>8, <3>1, <3>2, <3>3, TypeFrame DEF InRecv, TypeOK
  <2>9. CASE InSend
    <3>1. PcType'
      BY <2>9, PcStep DEF InSend, TypeOK, Tasks, Labels
    <3>2. LockType'
      BY <2>9, ReleaseType DEF InSend, TypeOK, Clients
    <3>3. InType'
      BY <2>9, CapAssumption DEF InSend, TypeOK, InType
    <3>. QED  BY <2>9, <3>1, <3>2, <3>3, TypeFrame DEF InSend, TypeOK
  <2>10. CASE InEnd
    <3>1. PcType'
      BY <2>10, PcStep DEF InEnd, TypeOK, Tasks, Labels
    <3>. QED  BY <2>10, <3>1, TypeFrame DEF InEnd, TypeOK
  <2>11. CASE InCancel
    <3>1. PcType'
      BY <2>11, PcStep DEF InCancel, TypeOK, Tasks, Labels
    <3>2. LockType'
      BY <2>11, LeaveType, TypeFrame DEF InCancel, TypeOK, Clients
    <3>3. InType'
      BY <2>11, CapAssumption DEF InCancel, TypeOK, InType
    <3>. QED  BY <2>11, <3>1, <3>2, <3>3, TypeFrame DEF InCancel, TypeOK
  <2>12. CASE OutLock
    <3>1. PcType'
      BY <2>12, PcStep DEF OutLock, TypeOK, Tasks, Labels
    <3>2. LockType'
      BY <2>12, AcquireType DEF OutLock, TypeOK, Clients
    <3>. QED  BY <2>12, <3>1, <3>2, TypeFrame DEF OutLock, TypeOK
  <2>13. CASE OutRead
    <3>1. PcType'
      BY <2>13, PcStep DEF OutRead, TypeOK, Tasks, Labels
    <3>2. OutType'
      BY <2>13, CapAssumption DEF OutRead, TypeOK, OutType
    <3>. QED  BY <2>13, <3>1, <3>2, TypeFrame DEF OutRead, TypeOK
  <2>14. CASE OutPush
    <3>1. PcType'
      BY <2>14 DEF OutPush, TypeOK, PcType
    <3>2. OutType'
      BY <2>14, CapAssumption DEF OutPush, TypeOK, OutType
    <3>. QED  BY <2>14, <3>1, <3>2, TypeFrame DEF OutPush, TypeOK
  <2>15. CASE OutPushed
    <3>1. PcType'
      BY <2>15, PcStep DEF OutPushed, TypeOK, Tasks, Labels
    <3>2. LockType'
      BY <2>15, ReleaseType DEF OutPushed, TypeOK, Clients
    <3>. QED  BY <2>15, <3>1, <3>2, TypeFrame DEF OutPushed, TypeOK
  <2>16. CASE OutReadErr
    <3>1. PcType'
      BY <2>16, PcStep DEF OutReadErr, TypeOK, Tasks, Labels
    <3>2. LockType'
      BY <2>16, ReleaseType DEF OutReadErr, TypeOK, Clients
    <3>3. OutType'
      <4>1. rxbuf' = rxbuf \/ rxbuf' = <<>>
        BY <2>16 DEF OutReadErr
      <4>2. rxbuf' \in Seq(Nat)
        BY <4>1, EmptySeq DEF OutReadErr, TypeOK, OutType
      <4>. QED  BY <2>16, <4>2 DEF OutReadErr, TypeOK, OutType
    <3>. QED  BY <2>16, <3>1, <3>2, <3>3, TypeFrame DEF OutReadErr, TypeOK
  <2>17. CASE OutCancel
    <3>1. PcType'
      BY <2>17, PcStep DEF OutCancel, TypeOK, Tasks, Labels
    <3>2. LockType'
      BY <2>17, LeaveType, TypeFrame DEF OutCancel, TypeOK, Clients
    <3>. QED  BY <2>17, <3>1, <3>2, TypeFrame DEF OutCancel, TypeOK
  <2>18. CASE Hear
    <3>1. PcType'
      BY <2>18 DEF Hear, TypeOK, PcType
    <3>2. OutType'
      BY <2>18, CapAssumption DEF Hear, TypeOK, OutType
    <3>. QED  BY <2>18, <3>1, <3>2, TypeFrame DEF Hear, TypeOK
  <2>19. CASE WrConnect
    <3>1. PcType'
      BY <2>19, PcStep DEF WrConnect, TypeOK, Tasks, Labels
    <3>. QED  BY <2>19, <3>1, TypeFrame DEF WrConnect, TypeOK
  <2>20. CASE WrRecv
    <3>1. PcType'
      BY <2>20, PcStep DEF WrRecv, TypeOK, Tasks, Labels
    <3>2. OutType'
      BY <2>20, CapAssumption DEF WrRecv, TypeOK, OutType
    <3>. QED  BY <2>20, <3>1, <3>2, TypeFrame DEF WrRecv, TypeOK
  <2>21. CASE WrEnd
    <3>1. PcType'
      BY <2>21, PcStep DEF WrEnd, TypeOK, Tasks, Labels
    <3>. QED  BY <2>21, <3>1, TypeFrame DEF WrEnd, TypeOK
  <2>22. CASE WrWrite
    <3>1. PcType'
      BY <2>22, PcStep DEF WrWrite, TypeOK, Tasks, Labels
    <3>2. OutType'
      BY <2>22, CapAssumption DEF WrWrite, TypeOK, OutType
    <3>. QED  BY <2>22, <3>1, <3>2, TypeFrame DEF WrWrite, TypeOK
  <2>23. CASE WrBroken
    <3>1. PcType'
      BY <2>23, PcStep DEF WrBroken, TypeOK, Tasks, Labels
    <3>2. OutType'
      BY <2>23, CapAssumption DEF WrBroken, TypeOK, OutType
    <3>. QED  BY <2>23, <3>1, <3>2, TypeFrame DEF WrBroken, TypeOK
  <2>24. CASE WrFail
    <3>1. PcType'
      BY <2>24, PcStep DEF WrFail, TypeOK, Tasks, Labels
    <3>2. OutType'
      BY <2>24, CapAssumption DEF WrFail, TypeOK, OutType
    <3>. QED  BY <2>24, <3>1, <3>2, TypeFrame DEF WrFail, TypeOK
  <2>25. CASE CfgLock
    <3>1. PcType'
      BY <2>25, PcStep DEF CfgLock, TypeOK, Tasks, Labels
    <3>2. LockType'
      BY <2>25, AcquireType DEF CfgLock, TypeOK, Clients
    <3>. QED  BY <2>25, <3>1, <3>2, TypeFrame DEF CfgLock, TypeOK
  <2>26. CASE CfgGetBitrate
    <3>1. PcType'
      BY <2>26, PcStep DEF CfgGetBitrate, TypeOK, Tasks, Labels
    <3>2. LockType'
      BY <2>26, ReleaseType DEF CfgGetBitrate, TypeOK, Clients
    <3>. QED  BY <2>26, <3>1, <3>2, TypeFrame DEF CfgGetBitrate, TypeOK
  <2>27. CASE CfgFail
    <3>1. PcType'
      BY <2>27, PcStep DEF CfgFail, TypeOK, Tasks, Labels
    <3>. QED  BY <2>27, <3>1, TypeFrame DEF CfgFail, TypeOK
  <2>28. CASE CtrlC
    <3>1. PcType'
      BY <2>28, PcStep DEF CtrlC, TypeOK, Tasks, Labels
    <3>. QED  BY <2>28, <3>1, TypeFrame DEF CtrlC, TypeOK
  <2>29. ASSUME NEW t \in {"in", "out"}, TaskEnded(t) PROVE TypeOK'
    <3>1. PcType'
      BY <2>29, PcStep DEF TaskEnded, TypeOK, Tasks, Labels
    <3>2. MainType'
      BY <2>29 DEF TaskEnded, TypeOK, MainType
    <3>. QED  BY <2>29, <3>1, <3>2, TypeFrame DEF TaskEnded, TypeOK
  <2>30. CASE Abort
    <3>1. PcType'
      BY <2>30, PcStep DEF Abort, TypeOK, Tasks, Labels
    <3>2. MainType'
      BY <2>30 DEF Abort, TypeOK, MainType
    <3>. QED  BY <2>30, <3>1, <3>2, TypeFrame DEF Abort, TypeOK
  <2>31. CASE JoinIn
    <3>1. PcType'
      BY <2>31, PcStep DEF JoinIn, Joined, TypeOK, Tasks, Labels
    <3>. QED  BY <2>31, <3>1, TypeFrame DEF JoinIn, Joined, TypeOK
  <2>32. CASE JoinOut
    <3>1. PcType'
      BY <2>32, PcStep DEF JoinOut, Joined, TypeOK, Tasks, Labels
    <3>. QED  BY <2>32, <3>1, TypeFrame DEF JoinOut, Joined, TypeOK
  <2>33. CASE JoinTimeout
    <3>1. PcType'
      BY <2>33, PcStep DEF JoinTimeout, TypeOK, Tasks, Labels
    <3>2. MainType'
      BY <2>33 DEF JoinTimeout, TypeOK, MainType
    <3>. QED  BY <2>33, <3>1, <3>2, TypeFrame DEF JoinTimeout, TypeOK
  <2>34. CASE MainLock
    <3>1. PcType'
      BY <2>34, PcStep DEF MainLock, TypeOK, Tasks, Labels
    <3>2. LockType'
      BY <2>34, AcquireType DEF MainLock, TypeOK, Clients
    <3>. QED  BY <2>34, <3>1, <3>2, TypeFrame DEF MainLock, TypeOK
  <2>35. CASE Close
    <3>1. PcType'
      BY <2>35, PcStep DEF Close, TypeOK, Tasks, Labels
    <3>2. LockType'
      BY <2>35, ReleaseType DEF Close, TypeOK, Clients
    <3>3. MainType'
      BY <2>35 DEF Close, TypeOK, MainType
    <3>. QED  BY <2>35, <3>1, <3>2, <3>3, TypeFrame DEF Close, TypeOK
  <2>36. CASE Return
    <3>1. PcType'
      BY <2>36, PcStep DEF Return, TypeOK, Tasks, Labels
    <3>. QED  BY <2>36, <3>1, TypeFrame DEF Return, TypeOK
  <2>37. CASE UNCHANGED vars
    BY <2>37, TypeFrame DEF vars, TypeOK, PcType
  <2>. QED
    BY <2>1, <2>2, <2>3, <2>4, <2>5, <2>6, <2>7, <2>8, <2>9, <2>10, <2>11, <2>12, <2>13, <2>14, <2>15, <2>16, <2>17, <2>18, <2>19, <2>20, <2>21, <2>22, <2>23, <2>24, <2>25, <2>26, <2>27, <2>28, <2>29, <2>30, <2>31, <2>32, <2>33, <2>34, <2>35, <2>36, <2>37
    DEF Next, RdStep, InStep, OutStep, WrStep, CfgStep, MainStep, Environment, Gone
<1>. QED  BY InitType, <1>1, PTL DEF Spec

-----------------------------------------------------------------------------
(* The lock *)

Placed(t) == Holding(t) \/ Waiting(t)

\* Taking the lock adds one task to those placed and displaces no holder.
LEMMA AcquireEffect ==
  ASSUME LockType, LockShape, NEW t \in Clients, ~ Placed(t), Acquire(t)
  PROVE  /\ LockShape'
         /\ \A u \in Clients : Placed(u)' <=> Placed(u) \/ u = t
         /\ \A u \in Clients : Holding(u) => Holding(u)'
<1>1. CASE owner = None
  BY <1>1 DEF LockType, LockShape, Placed, Holding, Waiting, Range, Acquire, Clients, None
<1>2. CASE owner # None
  BY <1>2 DEF LockType, LockShape, Placed, Holding, Waiting, Range, Acquire, Clients, None
<1>. QED  BY <1>1, <1>2

\* Releasing it removes the holder and moves the first waiter up.
LEMMA ReleaseEffect ==
  ASSUME LockType, LockShape, owner # None, Release
  PROVE  /\ LockShape'
         /\ \A u \in Clients : Placed(u)' <=> Placed(u) /\ u # owner
<1>1. CASE waiters = <<>>
  BY <1>1 DEF LockType, LockShape, Placed, Holding, Waiting, Range, Release, Clients, None
<1>2. CASE waiters # <<>>
  <2>1. /\ owner' = waiters[1] /\ waiters' \in Seq(Clients)
        /\ Len(waiters') = Len(waiters) - 1
        /\ \A j \in 1 .. Len(waiters') : waiters'[j] = waiters[j + 1]
    BY <1>2, HeadTailProperties DEF LockType, Release
  <2>2. Len(waiters) \in Nat \ {0}
    BY <1>2, EmptySeq, LenProperties DEF LockType
  <2>3. \A u \in Clients : Waiting(u) <=> \E j \in 1 .. Len(waiters) : waiters[j] = u
    BY DEF Waiting, Range, LockType
  <2>4. \A u \in Clients : Waiting(u)' <=> \E j \in 1 .. Len(waiters') : waiters'[j] = u
    BY <2>1 DEF Waiting, Range
  <2>5. \A u \in Clients : Placed(u)' <=> Waiting(u)
    <3>. SUFFICES ASSUME NEW u \in Clients PROVE Placed(u)' <=> Waiting(u)
      OBVIOUS
    <3>1. ASSUME Waiting(u) PROVE Placed(u)'
      <4>1. PICK j \in 1 .. Len(waiters) : waiters[j] = u
        BY <2>3, <3>1
      <4>2. CASE j = 1
        BY <2>1, <4>1, <4>2 DEF Placed, Holding
      <4>3. CASE j # 1
        <5>1. j - 1 \in 1 .. Len(waiters') /\ waiters'[j - 1] = u
          BY <2>1, <2>2, <4>1, <4>3
        <5>. QED  BY <2>4, <5>1 DEF Placed
      <4>. QED  BY <4>2, <4>3
    <3>2. ASSUME Placed(u)' PROVE Waiting(u)
      BY <2>1, <2>2, <2>3, <2>4, <3>2 DEF Placed, Holding
    <3>. QED  BY <3>1, <3>2
  <2>6. LockShape'
    <3>1. \A u \in Clients : ~ (Holding(u)' /\ Waiting(u)')
      <4>. SUFFICES ASSUME NEW u \in Clients, Holding(u)', Waiting(u)' PROVE FALSE
        OBVIOUS
      <4>1. PICK j \in 1 .. Len(waiters') : waiters'[j] = u
        BY <2>4
      <4>2. j + 1 \in 1 .. Len(waiters) /\ waiters[j + 1] = u
        BY <2>1, <2>2, <4>1
      <4>3. 1 \in 1 .. Len(waiters) /\ waiters[1] = u
        BY <2>1, <2>2 DEF Holding
      <4>4. j + 1 = 1
        BY <4>2, <4>3 DEF LockShape
      <4>. QED  BY <2>1, <2>2, <4>1, <4>4
    <3>2. \A j, k \in 1 .. Len(waiters') : waiters'[j] = waiters'[k] => j = k
      BY <2>1, <2>2 DEF LockShape
    <3>3. owner' # None
      BY <2>1, <2>2, ElementOfSeq DEF LockType, Clients, None
    <3>. QED  BY <3>1, <3>2, <3>3 DEF LockShape
  <2>. QED  BY <2>5, <2>6 DEF LockShape, Placed, Holding
<1>. QED  BY <1>1, <1>2

\* Leaving removes the task that leaves, wherever it was placed.
LEMMA LeaveEffect ==
  ASSUME LockType, LockShape, NEW t \in Clients, Placed(t), Leave(t)
  PROVE  /\ LockShape'
         /\ \A u \in Clients : Placed(u)' <=> Placed(u) /\ u # t
         /\ \A u \in Clients \ {t} : Holding(u) => Holding(u)'
<1>1. CASE owner = t
  BY <1>1, ReleaseEffect DEF Leave, Holding, Clients, None
<1>2. CASE owner # t
  <2>1. PICK i \in 1 .. Len(waiters) :
          waiters[i] = t /\ waiters' = RemoveAt(waiters, i) /\ owner' = owner
    BY <1>2 DEF Leave, Dequeue
  <2>2. /\ waiters' \in Seq(Clients) /\ Len(waiters') = Len(waiters) - 1
        /\ \A j \in 1 .. Len(waiters) - 1 :
             waiters'[j] = IF j < i THEN waiters[j] ELSE waiters[j + 1]
    BY <2>1, RemoveAtProperties DEF LockType
  <2>3. waiters \in Seq(Clients) /\ \A j, k \in 1 .. Len(waiters) : waiters[j] = waiters[k] => j = k
    BY DEF LockType, LockShape
  <2>4. /\ \A j, k \in 1 .. Len(waiters') : waiters'[j] = waiters'[k] => j = k
        /\ \A x : x \in Range(waiters') <=> x \in Range(waiters) /\ x # waiters[i]
    BY <2>2, <2>3, RemoveAtInjective, SMTT(20)
  <2>5. \A u \in Clients : Waiting(u)' <=> Waiting(u) /\ u # t
    BY <2>1, <2>4 DEF Waiting
  <2>6. owner # None
    BY <2>1, EmptySeq DEF LockShape, LockType
  <2>. QED  BY <1>2, <2>1, <2>4, <2>5, <2>6 DEF LockShape, Placed, Holding
<1>. QED  BY <1>1, <1>2

\* A task that takes the lock enters its critical region.
LEMMA LockEnter ==
  ASSUME TypeOK, LockOK, NEW t \in Clients, ~ Wants(t), Acquire(t), Goto(t, "call")
  PROVE  LockOK'
<1>1. /\ LockShape'
      /\ \A u \in Clients : Placed(u)' <=> Placed(u) \/ u = t
      /\ \A u \in Clients : Holding(u) => Holding(u)'
  BY AcquireEffect DEF TypeOK, LockOK, Placed
<1>2. \A u \in Clients : Wants(u)' <=> Wants(u) \/ u = t
  BY DEF TypeOK, PcType, Wants, At, Goto, Clients, Tasks
<1>3. At("out", "push")' => Holding("out")'
  BY <1>1 DEF TypeOK, PcType, LockOK, At, Goto, Clients, Tasks
<1>. QED  BY <1>1, <1>2, <1>3 DEF LockOK, Placed

\* A task that gives the lock up, or its place, has left its region.
LEMMA LockExit ==
  ASSUME TypeOK, LockOK, NEW t \in Clients, NEW l, l \notin {"call", "push"},
         Wants(t), Leave(t), Goto(t, l)
  PROVE  LockOK'
<1>1. /\ LockShape'
      /\ \A u \in Clients : Placed(u)' <=> Placed(u) /\ u # t
      /\ \A u \in Clients \ {t} : Holding(u) => Holding(u)'
  BY LeaveEffect DEF TypeOK, LockOK, Placed
<1>2. \A u \in Clients : Wants(u)' <=> Wants(u) /\ u # t
  BY DEF TypeOK, PcType, Wants, At, Goto, Clients, Tasks
<1>3. At("out", "push")' => Holding("out")'
  BY <1>1 DEF TypeOK, PcType, LockOK, At, Goto, Clients, Tasks
<1>. QED  BY <1>1, <1>2, <1>3 DEF LockOK, Placed

\* A step that leaves the lock alone and takes no task in or out of a region.
LEMMA LockFrame ==
  ASSUME LockOK, UNCHANGED lockVars,
         \A u \in Clients : Wants(u)' <=> Wants(u),
         At("out", "push")' => Holding("out")
  PROVE  LockOK'
BY DEF LockOK, LockShape, Holding, Waiting, Range, lockVars

(***************************************************************************)
(* Whatever is cancelled, fails or times out, the driver mutex is held or  *)
(* waited for by exactly the tasks inside their critical region.           *)
(***************************************************************************)
THEOREM LockCorrect == Spec => []LockOK
<1>1. Init => LockOK
  BY DEF Init, LockOK, LockShape, Holding, Waiting, Wants, Range, At, Tasks, Clients, None
<1>2. TypeOK /\ LockOK /\ [Next]_vars => LockOK'
  <2>. SUFFICES ASSUME TypeOK, LockOK, [Next]_vars PROVE LockOK'
    OBVIOUS
  <2>1. CASE InRecv
    BY <2>1, LockEnter DEF InRecv, Wants, At, Clients
  <2>2. CASE OutLock
    BY <2>2, LockEnter DEF OutLock, Wants, At, Clients
  <2>3. CASE CfgLock
    BY <2>3, LockEnter DEF CfgLock, Wants, At, Clients
  <2>4. CASE MainLock
    BY <2>4, LockEnter DEF MainLock, Wants, At, Clients
  <2>5. CASE InSend
    BY <2>5, LockExit DEF InSend, Leave, LockOK, LockShape, Holding, Wants, At, Clients, None
  <2>6. CASE OutPushed
    BY <2>6, LockExit DEF OutPushed, Leave, LockOK, LockShape, Holding, Wants, At, Clients, None
  <2>7. CASE OutReadErr
    BY <2>7, LockExit DEF OutReadErr, Leave, LockOK, LockShape, Holding, Wants, At, Clients, None
  <2>8. CASE CfgGetBitrate
    BY <2>8, LockExit DEF CfgGetBitrate, Leave, LockOK, LockShape, Holding, Wants, At, Clients, None
  <2>9. CASE Close
    BY <2>9, LockExit DEF Close, Leave, LockOK, LockShape, Holding, Wants, At, Clients, None
  <2>10. CASE InCancel
    <3>1. CASE At("in", "call")
      BY <2>10, <3>1, LockExit DEF InCancel, Wants, At, Clients
    <3>2. CASE ~ At("in", "call")
      BY <2>10, <3>2, LockFrame DEF InCancel, TypeOK, PcType, LockOK, Wants, At, Goto, Clients, Tasks
    <3>. QED  BY <3>1, <3>2
  <2>11. CASE OutCancel
    <3>1. CASE At("out", "call")
      BY <2>11, <3>1, LockExit DEF OutCancel, Wants, At, Clients
    <3>2. CASE ~ At("out", "call")
      BY <2>11, <3>2, LockFrame DEF OutCancel, TypeOK, PcType, LockOK, Wants, At, Goto, Clients, Tasks
    <3>. QED  BY <3>1, <3>2
  <2>12. CASE RdConnect
    BY <2>12, LockFrame DEF RdConnect, TypeOK, PcType, LockOK, Wants, At, Goto, Clients, Tasks
  <2>13. CASE RdRead
    BY <2>13, LockFrame DEF RdRead, TypeOK, PcType, LockOK, Wants, At, Goto, Clients, Tasks
  <2>14. CASE RdEof
    BY <2>14, LockFrame DEF RdEof, TypeOK, PcType, LockOK, Wants, At, Goto, Clients, Tasks
  <2>15. CASE RdFail
    BY <2>15, LockFrame DEF RdFail, TypeOK, PcType, LockOK, Wants, At, Goto, Clients, Tasks
  <2>16. CASE RdSend
    BY <2>16, LockFrame DEF RdSend, TypeOK, PcType, LockOK, Wants, At, Goto, Clients, Tasks
  <2>17. CASE RdSendClosed
    BY <2>17, LockFrame DEF RdSendClosed, TypeOK, PcType, LockOK, Wants, At, Goto, Clients, Tasks
  <2>18. CASE InSkip
    BY <2>18, LockFrame DEF InSkip, LockOK, Wants, At
  <2>19. CASE InEnd
    BY <2>19, LockFrame DEF InEnd, TypeOK, PcType, LockOK, Wants, At, Goto, Clients, Tasks
  <2>20. CASE OutRead
    BY <2>20, LockFrame DEF OutRead, TypeOK, PcType, Holding, Wants, At, Goto, Clients, Tasks
  <2>21. CASE OutPush
    BY <2>21, LockFrame DEF OutPush, LockOK, Wants, At
  <2>22. CASE Hear
    BY <2>22, LockFrame DEF Hear, LockOK, Wants, At
  <2>23. CASE WrConnect
    BY <2>23, LockFrame DEF WrConnect, TypeOK, PcType, LockOK, Wants, At, Goto, Clients, Tasks
  <2>24. CASE WrRecv
    BY <2>24, LockFrame DEF WrRecv, TypeOK, PcType, LockOK, Wants, At, Goto, Clients, Tasks
  <2>25. CASE WrEnd
    BY <2>25, LockFrame DEF WrEnd, TypeOK, PcType, LockOK, Wants, At, Goto, Clients, Tasks
  <2>26. CASE WrWrite
    BY <2>26, LockFrame DEF WrWrite, TypeOK, PcType, LockOK, Wants, At, Goto, Clients, Tasks
  <2>27. CASE WrBroken
    BY <2>27, LockFrame DEF WrBroken, TypeOK, PcType, LockOK, Wants, At, Goto, Clients, Tasks
  <2>28. CASE WrFail
    BY <2>28, LockFrame DEF WrFail, TypeOK, PcType, LockOK, Wants, At, Goto, Clients, Tasks
  <2>29. CASE CfgFail
    BY <2>29, LockFrame DEF CfgFail, TypeOK, PcType, LockOK, Wants, At, Goto, Clients, Tasks
  <2>30. CASE CtrlC
    BY <2>30, LockFrame DEF CtrlC, TypeOK, PcType, LockOK, Wants, At, Goto, Clients, Tasks
  <2>31. CASE Abort
    BY <2>31, LockFrame DEF Abort, TypeOK, PcType, LockOK, Wants, At, Goto, Clients, Tasks
  <2>32. CASE JoinIn
    BY <2>32, LockFrame DEF JoinIn, Joined, TypeOK, PcType, LockOK, Wants, At, Goto, Clients, Tasks
  <2>33. CASE JoinOut
    BY <2>33, LockFrame DEF JoinOut, Joined, TypeOK, PcType, LockOK, Wants, At, Goto, Clients, Tasks
  <2>34. CASE JoinTimeout
    BY <2>34, LockFrame DEF JoinTimeout, TypeOK, PcType, LockOK, Wants, At, Goto, Clients, Tasks
  <2>35. CASE Return
    BY <2>35, LockFrame DEF Return, TypeOK, PcType, LockOK, Wants, At, Goto, Clients, Tasks
  <2>36. ASSUME NEW t \in {"in", "out"}, TaskEnded(t) PROVE LockOK'
    BY <2>36, LockFrame DEF TaskEnded, TypeOK, PcType, LockOK, Wants, At, Goto, Clients, Tasks
  <2>37. CASE UNCHANGED vars
    BY <2>37, LockFrame DEF vars, LockOK, Wants, At
  <2>. QED
    BY <2>1, <2>2, <2>3, <2>4, <2>5, <2>6, <2>7, <2>8, <2>9, <2>10, <2>11, <2>12, <2>13, <2>14,
       <2>15, <2>16, <2>17, <2>18, <2>19, <2>20, <2>21, <2>22, <2>23, <2>24, <2>25, <2>26, <2>27, <2>28,
       <2>29, <2>30, <2>31, <2>32, <2>33, <2>34, <2>35, <2>36, <2>37
    DEF Next, RdStep, InStep, OutStep, WrStep, CfgStep, MainStep, Environment, Gone
<1>. QED  BY TypeCorrect, <1>1, <1>2, PTL DEF Spec

-----------------------------------------------------------------------------
(* Shutdown *)

\* The order of the shutdown: past the first join without a timeout, `in' has
\* ended; the driver is closed by the last steps of main only.
ShutdownOrder ==
  /\ At("main", "join_out") \/ At("main", "lock") \/ At("main", "call")
       \/ At("main", "return") \/ At("main", "exited")
     => timedOut \/ At("in", "done")
  /\ closed => At("main", "return") \/ At("main", "exited")

LEMMA ShutdownOrdered == Spec => []ShutdownOrder
<1>1. Init => ShutdownOrder
  BY DEF Init, ShutdownOrder, At, Tasks
<1>2. TypeOK /\ ShutdownOrder /\ [Next]_vars => ShutdownOrder'
  <2>. SUFFICES ASSUME TypeOK, ShutdownOrder, [Next]_vars PROVE ShutdownOrder'
    OBVIOUS
  <2>1. CASE RdConnect
    BY <2>1 DEF RdConnect, TypeOK, PcType, ShutdownOrder, At, Goto, Tasks, mainVars
  <2>2. CASE RdRead
    BY <2>2 DEF RdRead, TypeOK, PcType, ShutdownOrder, At, Goto, Tasks, mainVars
  <2>3. CASE RdEof
    BY <2>3 DEF RdEof, TypeOK, PcType, ShutdownOrder, At, Goto, Tasks, mainVars
  <2>4. CASE RdFail
    BY <2>4 DEF RdFail, TypeOK, PcType, ShutdownOrder, At, Goto, Tasks, mainVars
  <2>5. CASE RdSend
    BY <2>5 DEF RdSend, TypeOK, PcType, ShutdownOrder, At, Goto, Tasks, mainVars
  <2>6. CASE RdSendClosed
    BY <2>6 DEF RdSendClosed, TypeOK, PcType, ShutdownOrder, At, Goto, Tasks, mainVars
  <2>7. CASE InSkip
    BY <2>7 DEF InSkip, TypeOK, PcType, ShutdownOrder, At, Goto, Tasks, mainVars
  <2>8. CASE InRecv
    BY <2>8 DEF InRecv, TypeOK, PcType, ShutdownOrder, At, Goto, Tasks, mainVars
  <2>9. CASE InSend
    BY <2>9 DEF InSend, TypeOK, PcType, ShutdownOrder, At, Goto, Tasks, mainVars
  <2>10. CASE InEnd
    BY <2>10 DEF InEnd, TypeOK, PcType, ShutdownOrder, At, Goto, Tasks, mainVars
  <2>11. CASE InCancel
    BY <2>11 DEF InCancel, TypeOK, PcType, ShutdownOrder, At, Goto, Tasks, mainVars
  <2>12. CASE OutLock
    BY <2>12 DEF OutLock, TypeOK, PcType, ShutdownOrder, At, Goto, Tasks, mainVars
  <2>13. CASE OutRead
    BY <2>13 DEF OutRead, TypeOK, PcType, ShutdownOrder, At, Goto, Tasks, mainVars
  <2>14. CASE OutPush
    BY <2>14 DEF OutPush, TypeOK, PcType, ShutdownOrder, At, Goto, Tasks, mainVars
  <2>15. CASE OutPushed
    BY <2>15 DEF OutPushed, TypeOK, PcType, ShutdownOrder, At, Goto, Tasks, mainVars
  <2>16. CASE OutReadErr
    BY <2>16 DEF OutReadErr, TypeOK, PcType, ShutdownOrder, At, Goto, Tasks, mainVars
  <2>17. CASE OutCancel
    BY <2>17 DEF OutCancel, TypeOK, PcType, ShutdownOrder, At, Goto, Tasks, mainVars
  <2>18. CASE Hear
    BY <2>18 DEF Hear, TypeOK, PcType, ShutdownOrder, At, Goto, Tasks, mainVars
  <2>19. CASE WrConnect
    BY <2>19 DEF WrConnect, TypeOK, PcType, ShutdownOrder, At, Goto, Tasks, mainVars
  <2>20. CASE WrRecv
    BY <2>20 DEF WrRecv, TypeOK, PcType, ShutdownOrder, At, Goto, Tasks, mainVars
  <2>21. CASE WrEnd
    BY <2>21 DEF WrEnd, TypeOK, PcType, ShutdownOrder, At, Goto, Tasks, mainVars
  <2>22. CASE WrWrite
    BY <2>22 DEF WrWrite, TypeOK, PcType, ShutdownOrder, At, Goto, Tasks, mainVars
  <2>23. CASE WrBroken
    BY <2>23 DEF WrBroken, TypeOK, PcType, ShutdownOrder, At, Goto, Tasks, mainVars
  <2>24. CASE WrFail
    BY <2>24 DEF WrFail, TypeOK, PcType, ShutdownOrder, At, Goto, Tasks, mainVars
  <2>25. CASE CfgLock
    BY <2>25 DEF CfgLock, TypeOK, PcType, ShutdownOrder, At, Goto, Tasks, mainVars
  <2>26. CASE CfgGetBitrate
    BY <2>26 DEF CfgGetBitrate, TypeOK, PcType, ShutdownOrder, At, Goto, Tasks, mainVars
  <2>27. CASE CfgFail
    BY <2>27 DEF CfgFail, TypeOK, PcType, ShutdownOrder, At, Goto, Tasks, mainVars
  <2>28. CASE CtrlC
    BY <2>28 DEF CtrlC, TypeOK, PcType, ShutdownOrder, At, Goto, Tasks, mainVars
  <2>29. ASSUME NEW t \in {"in", "out"}, TaskEnded(t) PROVE ShutdownOrder'
    BY <2>29 DEF TaskEnded, TypeOK, PcType, ShutdownOrder, At, Goto, Tasks, mainVars
  <2>30. CASE Abort
    BY <2>30 DEF Abort, TypeOK, PcType, ShutdownOrder, At, Goto, Tasks, mainVars
  <2>31. CASE JoinIn
    BY <2>31 DEF JoinIn, Joined, TypeOK, PcType, ShutdownOrder, At, Goto, Tasks, mainVars
  <2>32. CASE JoinOut
    BY <2>32 DEF JoinOut, Joined, TypeOK, PcType, ShutdownOrder, At, Goto, Tasks, mainVars
  <2>33. CASE JoinTimeout
    BY <2>33 DEF JoinTimeout, TypeOK, PcType, ShutdownOrder, At, Goto, Tasks, mainVars
  <2>34. CASE MainLock
    BY <2>34 DEF MainLock, TypeOK, PcType, ShutdownOrder, At, Goto, Tasks, mainVars
  <2>35. CASE Close
    BY <2>35 DEF Close, TypeOK, PcType, ShutdownOrder, At, Goto, Tasks, mainVars
  <2>36. CASE Return
    BY <2>36 DEF Return, TypeOK, PcType, ShutdownOrder, At, Goto, Tasks, mainVars
  <2>37. CASE UNCHANGED vars
    BY <2>37 DEF vars, mainVars, inVars, ShutdownOrder, At
  <2>. QED
    BY <2>1, <2>2, <2>3, <2>4, <2>5, <2>6, <2>7, <2>8, <2>9, <2>10, <2>11, <2>12, <2>13, <2>14,
       <2>15, <2>16, <2>17, <2>18, <2>19, <2>20, <2>21, <2>22, <2>23, <2>24, <2>25, <2>26, <2>27, <2>28,
       <2>29, <2>30, <2>31, <2>32, <2>33, <2>34, <2>35, <2>36, <2>37
    DEF Next, RdStep, InStep, OutStep, WrStep, CfgStep, MainStep, Environment, Gone
<1>. QED  BY TypeCorrect, <1>1, <1>2, PTL DEF Spec

(***************************************************************************)
(* After close_channel nothing is offered to the driver, unless the grace  *)
(* period ran out first.                                                   *)
(***************************************************************************)
THEOREM SendsEndBeforeClose == Spec => NoSendAfterClose
<1>1. ShutdownOrder /\ [Next]_vars => (closed /\ ~ timedOut => offered' = offered)
  <2>. SUFFICES ASSUME ShutdownOrder, [Next]_vars, closed, ~ timedOut
                PROVE  offered' = offered
    OBVIOUS
  <2>1. At("in", "done")
    BY DEF ShutdownOrder
  <2>2. ~ InSend /\ ~ InCancel
    BY <2>1 DEF InSend, InCancel, At
  <2>3. CASE UNCHANGED vars
    BY <2>3 DEF vars, inVars
  <2>4. CASE Next
    BY <2>2, <2>4 DEF Next, RdStep, InStep, OutStep, WrStep, CfgStep, MainStep,
       Environment, Gone, RdConnect, RdRead, RdEof, RdFail, RdSend, RdSendClosed,
       InSkip, InRecv, InEnd, OutLock, OutRead, OutPush, OutPushed, OutReadErr,
       OutCancel, Hear, WrConnect, WrRecv, WrEnd, WrWrite, WrBroken, WrFail,
       CfgLock, CfgGetBitrate, CfgFail, CtrlC, TaskEnded, Abort, JoinIn, JoinOut,
       Joined, JoinTimeout, MainLock, Close, Return, vars, inVars
  <2>. QED  BY <2>3, <2>4
<1>. QED  BY ShutdownOrdered, <1>1, PTL DEF Spec, NoSendAfterClose

\* Without failures no forwarding task ends before it is aborted, so that the
\* select! consumes no handle and main reaches the close.
CleanRun ==
  /\ At("main", "select") \/ At("main", "abort") => ~ aborted
  /\ ~ At("rd", "dead")
  /\ At("in", "done") \/ At("out", "done") => aborted
  /\ consumed = None
  /\ ~ At("main", "panicked")
  /\ At("main", "return") \/ At("main", "exited") => closed

(***************************************************************************)
(* With a driver whose reads and a pipe whose calls do not fail, the       *)
(* process never ends with its channel open: Ctrl-C is its only way out.   *)
(***************************************************************************)
THEOREM CleanExit ==
  ASSUME ~ ReadFails, ~ PipeFails
  PROVE  Spec => []CloseOnExit
<1>1. Init => CleanRun
  BY DEF Init, CleanRun, At, Tasks, None
<1>2. TypeOK /\ CleanRun /\ [Next]_vars => CleanRun'
  <2>. SUFFICES ASSUME TypeOK, CleanRun, [Next]_vars PROVE CleanRun'
    OBVIOUS
  <2>1. CASE RdConnect
    BY <2>1 DEF RdConnect, TypeOK, PcType, CleanRun, At, Goto, Tasks, mainVars, None
  <2>2. CASE RdRead
    BY <2>2 DEF RdRead, TypeOK, PcType, CleanRun, At, Goto, Tasks, mainVars, None
  <2>3. CASE RdEof
    BY <2>3 DEF RdEof, TypeOK, PcType, CleanRun, At, Goto, Tasks, mainVars, None
  <2>4. CASE RdFail
    BY <2>4 DEF RdFail, TypeOK, PcType, CleanRun, At, Goto, Tasks, mainVars, None
  <2>5. CASE RdSend
    BY <2>5 DEF RdSend, TypeOK, PcType, CleanRun, At, Goto, Tasks, mainVars, None
  <2>6. CASE RdSendClosed
    BY <2>6 DEF RdSendClosed, TypeOK, PcType, CleanRun, At, Goto, Tasks, mainVars, None
  <2>7. CASE InSkip
    BY <2>7 DEF InSkip, TypeOK, PcType, CleanRun, At, Goto, Tasks, mainVars, None
  <2>8. CASE InRecv
    BY <2>8 DEF InRecv, TypeOK, PcType, CleanRun, At, Goto, Tasks, mainVars, None
  <2>9. CASE InSend
    BY <2>9 DEF InSend, TypeOK, PcType, CleanRun, At, Goto, Tasks, mainVars, None
  <2>10. CASE InEnd
    BY <2>10 DEF InEnd, TypeOK, PcType, CleanRun, At, Goto, Tasks, mainVars, None
  <2>11. CASE InCancel
    BY <2>11 DEF InCancel, TypeOK, PcType, CleanRun, At, Goto, Tasks, mainVars, None
  <2>12. CASE OutLock
    BY <2>12 DEF OutLock, TypeOK, PcType, CleanRun, At, Goto, Tasks, mainVars, None
  <2>13. CASE OutRead
    BY <2>13 DEF OutRead, TypeOK, PcType, CleanRun, At, Goto, Tasks, mainVars, None
  <2>14. CASE OutPush
    BY <2>14 DEF OutPush, TypeOK, PcType, CleanRun, At, Goto, Tasks, mainVars, None
  <2>15. CASE OutPushed
    BY <2>15 DEF OutPushed, TypeOK, PcType, CleanRun, At, Goto, Tasks, mainVars, None
  <2>16. CASE OutReadErr
    BY <2>16 DEF OutReadErr, TypeOK, PcType, CleanRun, At, Goto, Tasks, mainVars, None
  <2>17. CASE OutCancel
    BY <2>17 DEF OutCancel, TypeOK, PcType, CleanRun, At, Goto, Tasks, mainVars, None
  <2>18. CASE Hear
    BY <2>18 DEF Hear, TypeOK, PcType, CleanRun, At, Goto, Tasks, mainVars, None
  <2>19. CASE WrConnect
    BY <2>19 DEF WrConnect, TypeOK, PcType, CleanRun, At, Goto, Tasks, mainVars, None
  <2>20. CASE WrRecv
    BY <2>20 DEF WrRecv, TypeOK, PcType, CleanRun, At, Goto, Tasks, mainVars, None
  <2>21. CASE WrEnd
    BY <2>21 DEF WrEnd, TypeOK, PcType, CleanRun, At, Goto, Tasks, mainVars, None
  <2>22. CASE WrWrite
    BY <2>22 DEF WrWrite, TypeOK, PcType, CleanRun, At, Goto, Tasks, mainVars, None
  <2>23. CASE WrBroken
    BY <2>23 DEF WrBroken, TypeOK, PcType, CleanRun, At, Goto, Tasks, mainVars, None
  <2>24. CASE WrFail
    BY <2>24 DEF WrFail, TypeOK, PcType, CleanRun, At, Goto, Tasks, mainVars, None
  <2>25. CASE CfgLock
    BY <2>25 DEF CfgLock, TypeOK, PcType, CleanRun, At, Goto, Tasks, mainVars, None
  <2>26. CASE CfgGetBitrate
    BY <2>26 DEF CfgGetBitrate, TypeOK, PcType, CleanRun, At, Goto, Tasks, mainVars, None
  <2>27. CASE CfgFail
    BY <2>27 DEF CfgFail, TypeOK, PcType, CleanRun, At, Goto, Tasks, mainVars, None
  <2>28. CASE CtrlC
    BY <2>28 DEF CtrlC, TypeOK, PcType, CleanRun, At, Goto, Tasks, mainVars, None
  <2>29. ASSUME NEW t \in {"in", "out"}, TaskEnded(t) PROVE CleanRun'
    BY <2>29 DEF TaskEnded, TypeOK, PcType, CleanRun, At, Goto, Tasks, mainVars, None
  <2>30. CASE Abort
    BY <2>30 DEF Abort, TypeOK, PcType, CleanRun, At, Goto, Tasks, mainVars, None
  <2>31. CASE JoinIn
    BY <2>31 DEF JoinIn, Joined, TypeOK, PcType, CleanRun, At, Goto, Tasks, mainVars, None
  <2>32. CASE JoinOut
    BY <2>32 DEF JoinOut, Joined, TypeOK, PcType, CleanRun, At, Goto, Tasks, mainVars, None
  <2>33. CASE JoinTimeout
    BY <2>33 DEF JoinTimeout, TypeOK, PcType, CleanRun, At, Goto, Tasks, mainVars, None
  <2>34. CASE MainLock
    BY <2>34 DEF MainLock, TypeOK, PcType, CleanRun, At, Goto, Tasks, mainVars, None
  <2>35. CASE Close
    BY <2>35 DEF Close, TypeOK, PcType, CleanRun, At, Goto, Tasks, mainVars, None
  <2>36. CASE Return
    BY <2>36 DEF Return, TypeOK, PcType, CleanRun, At, Goto, Tasks, mainVars, None
  <2>37. CASE UNCHANGED vars
    BY <2>37 DEF vars, mainVars, inVars, CleanRun, At
  <2>. QED
    BY <2>1, <2>2, <2>3, <2>4, <2>5, <2>6, <2>7, <2>8, <2>9, <2>10, <2>11, <2>12, <2>13, <2>14,
       <2>15, <2>16, <2>17, <2>18, <2>19, <2>20, <2>21, <2>22, <2>23, <2>24, <2>25, <2>26, <2>27, <2>28,
       <2>29, <2>30, <2>31, <2>32, <2>33, <2>34, <2>35, <2>36, <2>37
    DEF Next, RdStep, InStep, OutStep, WrStep, CfgStep, MainStep, Environment, Gone
<1>3. TypeOK /\ CleanRun => CloseOnExit
  BY DEF CleanRun, CloseOnExit, Running, At
<1>. QED  BY TypeCorrect, <1>1, <1>2, <1>3, PTL DEF Spec

-----------------------------------------------------------------------------
(* What a task carries *)

LEMMA CarriedRange ==
  ASSUME NEW n \in Nat
  PROVE  /\ Carried(n) \in Seq(Nat) /\ Increasing(Carried(n))
         /\ Range(Carried(n)) = {n} \ {0}
<1>1. CASE n = 0
  BY <1>1, RangeEmpty, EmptySeq DEF Carried
<1>2. CASE n # 0
  <2>1. Carried(n) \in Seq(Nat) /\ Len(Carried(n)) = 1 /\ Carried(n)[1] = n
    BY <1>2 DEF Carried
  <2>2. \A x : x \in Range(Carried(n)) <=> x = n
    BY <2>1, RangeIndex
  <2>. QED  BY <1>2, <2>1, <2>2 DEF Increasing
<1>. QED  BY <1>1, <1>2

-----------------------------------------------------------------------------
(* The two inductive invariants *)

(***************************************************************************)
(* Pipe to bus.  Chunks are in order through offered, in, the channel and  *)
(* the reader; while `in' lives, one that is in none of them is junk.      *)
(***************************************************************************)
InInv ==
  /\ At("in", "call") <=> inHand # 0
  /\ At("rd", "send") <=> rdHand # 0
  /\ Increasing(offered) /\ Increasing(inQ)
  /\ Range(offered) \cup Held(inHand) \cup Range(inQ) \cup Held(rdHand) \subseteq 1 .. nIn
  /\ Below(Range(offered), Held(inHand))
  /\ Below(Range(offered) \cup Held(inHand), Range(inQ))
  /\ Below(Range(offered) \cup Held(inHand) \cup Range(inQ), Held(rdHand))
  /\ (Range(offered) \cup Held(inHand)) \cap Junk = {}
  /\ ~ At("in", "done") =>
       (1 .. nIn) \ Junk
         \subseteq Range(offered) \cup Held(inHand) \cup Range(inQ) \cup Held(rdHand)

(***************************************************************************)
(* Bus to pipe.  Frames are in order through the output pipe, the writer,  *)
(* the channel, the batch being pushed and the driver.                     *)
(***************************************************************************)
OutInv ==
  /\ At("wr", "write") <=> wrHand # 0
  /\ ~ At("out", "push") => batch = <<>>
  /\ Increasing(delivered) /\ Increasing(outQ) /\ Increasing(batch) /\ Increasing(rxbuf)
  /\ Range(delivered) \cup Held(wrHand) \cup Range(outQ) \cup Range(batch) \cup Range(rxbuf)
       \subseteq 1 .. nRx
  /\ Below(Range(delivered), Held(wrHand))
  /\ Below(Range(delivered) \cup Held(wrHand), Range(outQ))
  /\ Below(Range(delivered) \cup Held(wrHand) \cup Range(outQ), Range(batch))
  /\ Below(Range(delivered) \cup Held(wrHand) \cup Range(outQ) \cup Range(batch), Range(rxbuf))

-----------------------------------------------------------------------------
(* Pipe to bus *)

\* A step that touches no chunk.
InQuiet ==
  /\ UNCHANGED inVars
  /\ At("in", "call")' <=> At("in", "call")
  /\ At("rd", "send")' <=> At("rd", "send")
  /\ At("in", "done") => At("in", "done")'

LEMMA InSteps ==
  ASSUME TypeOK, [Next]_vars
  PROVE  InQuiet \/ RdRead \/ RdSend \/ RdSendClosed \/ InSkip \/ InRecv \/ InSend \/ InCancel
<1>1. CASE RdConnect
  BY <1>1 DEF RdConnect, TypeOK, PcType, InQuiet, At, Goto, Tasks, inVars
<1>2. CASE RdEof
  BY <1>2 DEF RdEof, TypeOK, PcType, InQuiet, At, Goto, Tasks, inVars
<1>3. CASE RdFail
  BY <1>3 DEF RdFail, TypeOK, PcType, InQuiet, At, Goto, Tasks, inVars
<1>4. CASE InEnd
  BY <1>4 DEF InEnd, TypeOK, PcType, InQuiet, At, Goto, Tasks, inVars
<1>5. CASE OutLock
  BY <1>5 DEF OutLock, TypeOK, PcType, InQuiet, At, Goto, Tasks, inVars
<1>6. CASE OutRead
  BY <1>6 DEF OutRead, TypeOK, PcType, InQuiet, At, Goto, Tasks, inVars
<1>7. CASE OutPush
  BY <1>7 DEF OutPush, TypeOK, PcType, InQuiet, At, Goto, Tasks, inVars
<1>8. CASE OutPushed
  BY <1>8 DEF OutPushed, TypeOK, PcType, InQuiet, At, Goto, Tasks, inVars
<1>9. CASE OutReadErr
  BY <1>9 DEF OutReadErr, TypeOK, PcType, InQuiet, At, Goto, Tasks, inVars
<1>10. CASE OutCancel
  BY <1>10 DEF OutCancel, TypeOK, PcType, InQuiet, At, Goto, Tasks, inVars
<1>11. CASE Hear
  BY <1>11 DEF Hear, TypeOK, PcType, InQuiet, At, Goto, Tasks, inVars
<1>12. CASE WrConnect
  BY <1>12 DEF WrConnect, TypeOK, PcType, InQuiet, At, Goto, Tasks, inVars
<1>13. CASE WrRecv
  BY <1>13 DEF WrRecv, TypeOK, PcType, InQuiet, At, Goto, Tasks, inVars
<1>14. CASE WrEnd
  BY <1>14 DEF WrEnd, TypeOK, PcType, InQuiet, At, Goto, Tasks, inVars
<1>15. CASE WrWrite
  BY <1>15 DEF WrWrite, TypeOK, PcType, InQuiet, At, Goto, Tasks, inVars
<1>16. CASE WrBroken
  BY <1>16 DEF WrBroken, TypeOK, PcType, InQuiet, At, Goto, Tasks, inVars
<1>17. CASE WrFail
  BY <1>17 DEF WrFail, TypeOK, PcType, InQuiet, At, Goto, Tasks, inVars
<1>18. CASE CfgLock
  BY <1>18 DEF CfgLock, TypeOK, PcType, InQuiet, At, Goto, Tasks, inVars
<1>19. CASE CfgGetBitrate
  BY <1>19 DEF CfgGetBitrate, TypeOK, PcType, InQuiet, At, Goto, Tasks, inVars
<1>20. CASE CfgFail
  BY <1>20 DEF CfgFail, TypeOK, PcType, InQuiet, At, Goto, Tasks, inVars
<1>21. CASE CtrlC
  BY <1>21 DEF CtrlC, TypeOK, PcType, InQuiet, At, Goto, Tasks, inVars
<1>22. CASE Abort
  BY <1>22 DEF Abort, TypeOK, PcType, InQuiet, At, Goto, Tasks, inVars
<1>23. CASE JoinIn
  BY <1>23 DEF JoinIn, Joined, TypeOK, PcType, InQuiet, At, Goto, Tasks, inVars
<1>24. CASE JoinOut
  BY <1>24 DEF JoinOut, Joined, TypeOK, PcType, InQuiet, At, Goto, Tasks, inVars
<1>25. CASE JoinTimeout
  BY <1>25 DEF JoinTimeout, TypeOK, PcType, InQuiet, At, Goto, Tasks, inVars
<1>26. CASE MainLock
  BY <1>26 DEF MainLock, TypeOK, PcType, InQuiet, At, Goto, Tasks, inVars
<1>27. CASE Close
  BY <1>27 DEF Close, TypeOK, PcType, InQuiet, At, Goto, Tasks, inVars
<1>28. CASE Return
  BY <1>28 DEF Return, TypeOK, PcType, InQuiet, At, Goto, Tasks, inVars
<1>29. ASSUME NEW t \in {"in", "out"}, TaskEnded(t) PROVE InQuiet
  BY <1>29 DEF TaskEnded, TypeOK, PcType, InQuiet, At, Goto, Tasks, inVars
<1>30. CASE UNCHANGED vars
  BY <1>30 DEF vars, InQuiet, At, inVars
<1>. QED
  BY <1>1, <1>2, <1>3, <1>4, <1>5, <1>6, <1>7, <1>8, <1>9, <1>10, <1>11, <1>12, <1>13,
     <1>14, <1>15, <1>16, <1>17, <1>18, <1>19, <1>20, <1>21, <1>22, <1>23, <1>24, <1>25,
     <1>26, <1>27, <1>28, <1>29, <1>30
  DEF Next, RdStep, InStep, OutStep, WrStep, CfgStep, MainStep, Environment, Gone

LEMMA InInvFrame ==
  ASSUME InInv, InQuiet
  PROVE  InInv'
BY Zenon DEF InInv, InQuiet, inVars, At, Below, Held, Increasing

LEMMA InInvStep ==
  ASSUME TypeOK, InInv, [Next]_vars
  PROVE  InInv'
<1>0. /\ nIn \in Nat /\ rdHand \in Nat /\ inHand \in Nat
      /\ offered \in Seq(Nat) /\ inQ \in Seq(Nat)
  BY DEF TypeOK, InType
<1>1. CASE RdRead
  <2>1. rdHand = 0 /\ rdHand' = nIn + 1 /\ nIn' = nIn + 1 /\ UNCHANGED <<inQ, inHand, offered>>
    BY <1>1 DEF RdRead, InInv, At
  <2>2. /\ At("rd", "send")' /\ (At("in", "call")' <=> At("in", "call"))
        /\ (At("in", "done")' <=> At("in", "done"))
    BY <1>1 DEF RdRead, TypeOK, PcType, Goto, At, Tasks
  <2>3. Held(rdHand) = {} /\ Held(rdHand)' = {nIn + 1}
    BY <1>0, <2>1, HeldOne
  <2>4. /\ UNCHANGED <<Range(offered), Range(inQ), Held(inHand)>>
        /\ Increasing(offered)' /\ Increasing(inQ)'
    BY <2>1 DEF InInv, Held, Increasing
  <2>5. /\ Below(Range(offered), Held(inHand))'
        /\ Below(Range(offered) \cup Held(inHand), Range(inQ))'
    BY <2>4 DEF InInv, Below
  <2>6. Below(Range(offered) \cup Held(inHand) \cup Range(inQ), Held(rdHand))'
    BY <1>0, <2>3, <2>4 DEF InInv, Below
  <2>. QED  BY <1>0, <2>1, <2>2, <2>3, <2>4, <2>5, <2>6 DEF InInv
<1>2. CASE RdSend
  <2>1. /\ inQ' = Append(inQ, rdHand) /\ rdHand' = 0 /\ UNCHANGED <<nIn, inHand, offered>>
        /\ rdHand # 0
    BY <1>2 DEF RdSend, InInv
  <2>2. /\ ~ At("rd", "send")' /\ (At("in", "call")' <=> At("in", "call"))
        /\ (At("in", "done")' <=> At("in", "done"))
    BY <1>2 DEF RdSend, TypeOK, PcType, Goto, At, Tasks
  <2>3. Held(rdHand) = {rdHand} /\ Held(rdHand)' = {}
    BY <1>0, <2>1, HeldOne
  <2>4. Range(inQ') = Range(inQ) \cup {rdHand} /\ Increasing(inQ')
    <3>1. Increasing(inQ) /\ \A x \in Range(inQ) : x < rdHand
      BY <2>3 DEF InInv, Below
    <3>. QED  BY <1>0, <2>1, <3>1, PutLast
  <2>. QED  BY <1>0, <2>1, <2>2, <2>3, <2>4 DEF InInv, Below, Increasing
<1>3. CASE RdSendClosed
  <2>1. rdHand' = 0 /\ UNCHANGED <<nIn, inQ, inHand, offered>>
    BY <1>3 DEF RdSendClosed
  <2>2. ~ At("rd", "send")' /\ (At("in", "call")' <=> At("in", "call")) /\ At("in", "done")'
    BY <1>3 DEF RdSendClosed, TypeOK, PcType, Goto, At, Tasks
  <2>3. Held(rdHand)' = {}
    BY <2>1, HeldOne
  <2>. QED  BY <1>0, <2>1, <2>2, <2>3 DEF InInv, Below, Increasing
<1>4. CASE InSkip
  <2>1. inQ # <<>> /\ Head(inQ) \in Junk /\ inQ' = Tail(inQ)
        /\ UNCHANGED <<pc, nIn, rdHand, inHand, offered>>
    BY <1>4 DEF InSkip
  <2>2. Range(inQ) = {Head(inQ)} \cup Range(inQ') /\ Increasing(inQ')
    BY <1>0, <2>1, TakeFirst DEF InInv
  <2>. QED  BY <1>0, <2>1, <2>2 DEF InInv, Below, Held, At, Increasing
<1>5. CASE InRecv
  <2>1. inQ # <<>> /\ Head(inQ) \notin Junk /\ inQ' = Tail(inQ) /\ inHand' = Head(inQ)
        /\ UNCHANGED <<nIn, rdHand, offered>>
    BY <1>5 DEF InRecv
  <2>2. /\ At("in", "call")' /\ (At("rd", "send")' <=> At("rd", "send"))
        /\ ~ At("in", "done") /\ ~ At("in", "call")
    BY <1>5 DEF InRecv, TypeOK, PcType, Goto, At, Tasks
  <2>3. /\ Range(inQ) = {Head(inQ)} \cup Range(inQ') /\ Increasing(inQ')
        /\ \A x \in Range(inQ') : Head(inQ) < x
    BY <1>0, <2>1, TakeFirst DEF InInv
  <2>4. inHand = 0 /\ Head(inQ) \in 1 .. nIn
    BY <2>2, <2>3 DEF InInv
  <2>5. Held(inHand) = {} /\ Held(inHand)' = {Head(inQ)}
    BY <1>0, <2>1, <2>4, HeldOne
  <2>6. Held(rdHand)' = Held(rdHand) /\ Range(offered)' = Range(offered) /\ Increasing(offered)'
    BY <2>1 DEF InInv, Held, Increasing
  <2>7. /\ Below(Range(offered), Held(inHand))'
        /\ Below(Range(offered) \cup Held(inHand), Range(inQ))'
    BY <2>3, <2>5, <2>6 DEF InInv, Below
  <2>8. Below(Range(offered) \cup Held(inHand) \cup Range(inQ), Held(rdHand))'
    BY <2>3, <2>5, <2>6 DEF InInv, Below
  <2>. QED
    BY <1>0, <2>1, <2>2, <2>3, <2>4, <2>5, <2>6, <2>7, <2>8 DEF InInv
<1>6. CASE InSend
  <2>1. offered' = Append(offered, inHand) /\ inHand' = 0 /\ inHand # 0
        /\ UNCHANGED <<nIn, rdHand, inQ>>
    BY <1>6 DEF InSend, InInv
  <2>2. /\ ~ At("in", "call")' /\ (At("rd", "send")' <=> At("rd", "send"))
        /\ ~ At("in", "done")
    BY <1>6 DEF InSend, TypeOK, PcType, Goto, At, Tasks
  <2>3. Held(inHand) = {inHand} /\ Held(inHand)' = {}
    BY <1>0, <2>1, HeldOne
  <2>4. Range(offered') = Range(offered) \cup {inHand} /\ Increasing(offered')
    <3>1. Increasing(offered) /\ \A x \in Range(offered) : x < inHand
      BY <2>3 DEF InInv, Below
    <3>. QED  BY <1>0, <2>1, <3>1, PutLast
  <2>. QED  BY <1>0, <2>1, <2>2, <2>3, <2>4 DEF InInv, Below, Increasing
<1>7. CASE InCancel
  <2>1. inQ' = <<>> /\ inHand' = 0 /\ UNCHANGED <<nIn, rdHand>>
    BY <1>7 DEF InCancel
  <2>2. /\ ~ At("in", "call")' /\ (At("rd", "send")' <=> At("rd", "send"))
        /\ At("in", "done")'
    BY <1>7 DEF InCancel, TypeOK, PcType, Goto, At, Tasks
  <2>3. Held(inHand)' = {} /\ Range(inQ') = {} /\ Increasing(inQ')
    BY <2>1, HeldOne, RangeEmpty
  <2>4. \/ offered' = offered
        \/ At("in", "call") /\ offered' = Append(offered, inHand)
    BY <1>7 DEF InCancel
  <2>5. CASE offered' = offered
    BY <1>0, <2>1, <2>2, <2>3, <2>5 DEF InInv, Below, Held, Increasing
  <2>6. CASE At("in", "call") /\ offered' = Append(offered, inHand)
    <3>1. inHand # 0 /\ Held(inHand) = {inHand}
      BY <1>0, <2>6, HeldOne DEF InInv
    <3>2. Increasing(offered) /\ \A x \in Range(offered) : x < inHand
      BY <3>1 DEF InInv, Below
    <3>3. Range(offered') = Range(offered) \cup {inHand} /\ Increasing(offered')
      BY <1>0, <2>6, <3>2, PutLast
    <3>. QED  BY <1>0, <2>1, <2>2, <2>3, <3>1, <3>3 DEF InInv, Below, Increasing
  <2>. QED  BY <2>4, <2>5, <2>6
<1>. QED
  BY <1>1, <1>2, <1>3, <1>4, <1>5, <1>6, <1>7, InSteps, InInvFrame

LEMMA InInvInit == Init => InInv
<1>. SUFFICES ASSUME Init PROVE InInv
  OBVIOUS
<1>1. /\ nIn = 0 /\ rdHand = 0 /\ inQ = <<>> /\ inHand = 0 /\ offered = <<>>
      /\ ~ At("in", "call") /\ ~ At("rd", "send")
  BY DEF Init, At, Tasks
<1>2. Range(offered) = {} /\ Range(inQ) = {} /\ Held(inHand) = {} /\ Held(rdHand) = {}
      /\ Increasing(offered) /\ Increasing(inQ) /\ 1 .. nIn = {}
  BY <1>1, RangeEmpty, HeldOne
<1>. QED  BY <1>1, <1>2 DEF InInv, Below

LEMMA InInvHolds == Spec => []InInv
BY TypeCorrect, InInvInit, InInvStep, PTL DEF Spec

(***************************************************************************)
(* Until the forwarding task ends, the chunks read that decode are, once   *)
(* and in the order of the pipe, offered to the driver or on their way to  *)
(* it: for every capacity of the channel and every set of junk.            *)
(***************************************************************************)
THEOREM ChunksInOrder == Spec => []InFifo
<1>1. TypeOK /\ InInv => InFifo
  <2>. SUFFICES ASSUME TypeOK, InInv, ~ At("in", "done")
                PROVE  /\ Increasing(offered \o Carried(inHand) \o inQ \o Carried(rdHand))
                       /\ Range(offered \o Carried(inHand) \o inQ \o Carried(rdHand)) \ Junk
                            = (1 .. nIn) \ Junk
                       /\ Range(offered) \cap Junk = {}
    BY Zenon DEF InFifo
  <2>. DEFINE a == offered \o Carried(inHand)
              b == a \o inQ
              c == b \o Carried(rdHand)
  <2>0. /\ nIn \in Nat /\ rdHand \in Nat /\ inHand \in Nat
        /\ offered \in Seq(Nat) /\ inQ \in Seq(Nat)
    BY DEF TypeOK, InType
  <2>1. /\ Carried(inHand) \in Seq(Nat) /\ Increasing(Carried(inHand))
        /\ Range(Carried(inHand)) = Held(inHand)
        /\ Carried(rdHand) \in Seq(Nat) /\ Increasing(Carried(rdHand))
        /\ Range(Carried(rdHand)) = Held(rdHand)
    BY <2>0, CarriedRange DEF Held
  <2>2. a \in Seq(Nat) /\ Increasing(a) /\ Range(a) = Range(offered) \cup Held(inHand)
    BY <2>0, <2>1, JoinIncreasing DEF InInv, Below
  <2>. HIDE DEF a
  <2>3. b \in Seq(Nat) /\ Increasing(b) /\ Range(b) = Range(a) \cup Range(inQ)
    BY <2>0, <2>2, JoinIncreasing DEF InInv, Below
  <2>. HIDE DEF b
  <2>4. c \in Seq(Nat) /\ Increasing(c) /\ Range(c) = Range(b) \cup Held(rdHand)
    <3>1. \A x \in Range(b), y \in Range(Carried(rdHand)) : x < y
      <4>1. Range(b) = Range(offered) \cup Held(inHand) \cup Range(inQ)
        BY <2>2, <2>3
      <4>2. Below(Range(offered) \cup Held(inHand) \cup Range(inQ), Held(rdHand))
        BY DEF InInv
      <4>. QED  BY <2>1, <4>1, <4>2 DEF Below
    <3>2. /\ b \in Seq(Nat) /\ Increasing(b)
          /\ Carried(rdHand) \in Seq(Nat) /\ Increasing(Carried(rdHand))
      BY <2>1, <2>3
    <3>3. c \in Seq(Nat) /\ Increasing(c) /\ Range(c) = Range(b) \cup Range(Carried(rdHand))
      BY <3>1, <3>2, JoinIncreasing
    <3>. QED  BY <2>1, <3>3
  <2>. HIDE DEF c
  <2>5. Range(c) \ Junk = (1 .. nIn) \ Junk
    BY <2>2, <2>3, <2>4 DEF InInv
  <2>6. Range(offered) \cap Junk = {}
    BY DEF InInv
  <2>. QED  BY <2>4, <2>5, <2>6 DEF a, b, c
<1>. QED  BY TypeCorrect, InInvHolds, <1>1, PTL

-----------------------------------------------------------------------------
(* Bus to pipe *)

\* A step that touches no frame.
OutQuiet ==
  /\ UNCHANGED outVars
  /\ At("wr", "write")' <=> At("wr", "write")
  /\ At("out", "push") => At("out", "push")' \/ batch = <<>>

LEMMA OutSteps ==
  ASSUME TypeOK, [Next]_vars
  PROVE  \/ OutQuiet \/ OutRead \/ OutPush \/ OutReadErr \/ Hear
         \/ WrRecv \/ WrWrite \/ WrBroken \/ WrFail
<1>1. CASE RdConnect
  BY <1>1 DEF RdConnect, TypeOK, PcType, OutQuiet, At, Goto, Tasks, outVars
<1>2. CASE RdRead
  BY <1>2 DEF RdRead, TypeOK, PcType, OutQuiet, At, Goto, Tasks, outVars
<1>3. CASE RdEof
  BY <1>3 DEF RdEof, TypeOK, PcType, OutQuiet, At, Goto, Tasks, outVars
<1>4. CASE RdFail
  BY <1>4 DEF RdFail, TypeOK, PcType, OutQuiet, At, Goto, Tasks, outVars
<1>5. CASE RdSend
  BY <1>5 DEF RdSend, TypeOK, PcType, OutQuiet, At, Goto, Tasks, outVars
<1>6. CASE RdSendClosed
  BY <1>6 DEF RdSendClosed, TypeOK, PcType, OutQuiet, At, Goto, Tasks, outVars
<1>7. CASE InSkip
  BY <1>7 DEF InSkip, TypeOK, PcType, OutQuiet, At, Goto, Tasks, outVars
<1>8. CASE InRecv
  BY <1>8 DEF InRecv, TypeOK, PcType, OutQuiet, At, Goto, Tasks, outVars
<1>9. CASE InSend
  BY <1>9 DEF InSend, TypeOK, PcType, OutQuiet, At, Goto, Tasks, outVars
<1>10. CASE InEnd
  BY <1>10 DEF InEnd, TypeOK, PcType, OutQuiet, At, Goto, Tasks, outVars
<1>11. CASE InCancel
  BY <1>11 DEF InCancel, TypeOK, PcType, OutQuiet, At, Goto, Tasks, outVars
<1>12. CASE OutLock
  BY <1>12 DEF OutLock, TypeOK, PcType, OutQuiet, At, Goto, Tasks, outVars
<1>13. CASE OutPushed
  BY <1>13 DEF OutPushed, TypeOK, PcType, OutQuiet, At, Goto, Tasks, outVars
<1>14. CASE OutCancel
  BY <1>14 DEF OutCancel, TypeOK, PcType, OutQuiet, At, Goto, Tasks, outVars
<1>15. CASE WrConnect
  BY <1>15 DEF WrConnect, TypeOK, PcType, OutQuiet, At, Goto, Tasks, outVars
<1>16. CASE WrEnd
  BY <1>16 DEF WrEnd, TypeOK, PcType, OutQuiet, At, Goto, Tasks, outVars
<1>17. CASE CfgLock
  BY <1>17 DEF CfgLock, TypeOK, PcType, OutQuiet, At, Goto, Tasks, outVars
<1>18. CASE CfgGetBitrate
  BY <1>18 DEF CfgGetBitrate, TypeOK, PcType, OutQuiet, At, Goto, Tasks, outVars
<1>19. CASE CfgFail
  BY <1>19 DEF CfgFail, TypeOK, PcType, OutQuiet, At, Goto, Tasks, outVars
<1>20. CASE CtrlC
  BY <1>20 DEF CtrlC, TypeOK, PcType, OutQuiet, At, Goto, Tasks, outVars
<1>21. CASE Abort
  BY <1>21 DEF Abort, TypeOK, PcType, OutQuiet, At, Goto, Tasks, outVars
<1>22. CASE JoinIn
  BY <1>22 DEF JoinIn, Joined, TypeOK, PcType, OutQuiet, At, Goto, Tasks, outVars
<1>23. CASE JoinOut
  BY <1>23 DEF JoinOut, Joined, TypeOK, PcType, OutQuiet, At, Goto, Tasks, outVars
<1>24. CASE JoinTimeout
  BY <1>24 DEF JoinTimeout, TypeOK, PcType, OutQuiet, At, Goto, Tasks, outVars
<1>25. CASE MainLock
  BY <1>25 DEF MainLock, TypeOK, PcType, OutQuiet, At, Goto, Tasks, outVars
<1>26. CASE Close
  BY <1>26 DEF Close, TypeOK, PcType, OutQuiet, At, Goto, Tasks, outVars
<1>27. CASE Return
  BY <1>27 DEF Return, TypeOK, PcType, OutQuiet, At, Goto, Tasks, outVars
<1>28. ASSUME NEW t \in {"in", "out"}, TaskEnded(t) PROVE OutQuiet
  BY <1>28 DEF TaskEnded, TypeOK, PcType, OutQuiet, At, Goto, Tasks, outVars
<1>29. CASE UNCHANGED vars
  BY <1>29 DEF vars, OutQuiet, At, outVars
<1>. QED
  BY <1>1, <1>2, <1>3, <1>4, <1>5, <1>6, <1>7, <1>8, <1>9, <1>10, <1>11, <1>12, <1>13,
     <1>14, <1>15, <1>16, <1>17, <1>18, <1>19, <1>20, <1>21, <1>22, <1>23, <1>24, <1>25,
     <1>26, <1>27, <1>28, <1>29
  DEF Next, RdStep, InStep, OutStep, WrStep, CfgStep, MainStep, Environment, Gone

LEMMA OutInvFrame ==
  ASSUME OutInv, OutQuiet
  PROVE  OutInv'
<1>1. /\ ~ At("out", "push")' => batch' = <<>>
      /\ At("wr", "write")' <=> wrHand' # 0
  BY RangeEmpty, Zenon DEF OutInv, OutQuiet, outVars
<1>. QED  BY <1>1, Zenon DEF OutInv, OutQuiet, outVars, Below, Held, Increasing

LEMMA OutInvStep ==
  ASSUME TypeOK, OutInv, [Next]_vars
  PROVE  OutInv'
<1>0. /\ nRx \in Nat /\ wrHand \in Nat /\ rxbuf \in Seq(Nat) /\ batch \in Seq(Nat)
      /\ delivered \in Seq(Nat) /\ outQ \in Seq(Nat)
  BY DEF TypeOK, OutType
<1>1. CASE OutRead
  <2>1. batch' = rxbuf /\ rxbuf' = <<>> /\ UNCHANGED <<nRx, outQ, wrHand, delivered>>
    BY <1>1 DEF OutRead
  <2>2. /\ At("out", "push")' /\ (At("wr", "write")' <=> At("wr", "write"))
        /\ ~ At("out", "push")
    BY <1>1 DEF OutRead, TypeOK, PcType, Goto, At, Tasks
  <2>3. Range(rxbuf') = {} /\ Increasing(rxbuf')
    BY <2>1, RangeEmpty
  <2>4. Range(batch) = {}
    BY <2>2, RangeEmpty DEF OutInv
  <2>. QED  BY <1>0, <2>1, <2>2, <2>3, <2>4 DEF OutInv, Below, Held, Increasing
<1>2. CASE OutPush
  <2>1. batch # <<>> /\ batch' = Tail(batch) /\ UNCHANGED <<pc, nRx, rxbuf, wrHand, delivered>>
    BY <1>2 DEF OutPush
  <2>2. At("out", "push")' /\ (At("wr", "write")' <=> At("wr", "write"))
    BY <1>2, <2>1 DEF OutPush, At
  <2>3. /\ Head(batch) \in Nat /\ Range(batch) = {Head(batch)} \cup Range(batch')
        /\ Increasing(batch') /\ \A x \in Range(batch') : Head(batch) < x
    BY <1>0, <2>1, TakeFirst DEF OutInv
  <2>4. outQ' = outQ \/ outQ' = Append(outQ, Head(batch))
    BY <1>2 DEF OutPush
  <2>5. CASE outQ' = outQ
    BY <1>0, <2>1, <2>2, <2>3, <2>5 DEF OutInv, Below, Held, Increasing
  <2>6. CASE outQ' = Append(outQ, Head(batch))
    <3>1. Increasing(outQ) /\ \A x \in Range(outQ) : x < Head(batch)
      BY <2>3 DEF OutInv, Below
    <3>2. Range(outQ') = Range(outQ) \cup {Head(batch)} /\ Increasing(outQ')
      BY <1>0, <2>3, <2>6, <3>1, PutLast
    <3>3. Held(wrHand)' = Held(wrHand) /\ UNCHANGED <<Range(delivered), Range(rxbuf)>>
      BY <2>1 DEF Held
    <3>4. /\ Increasing(delivered) /\ Increasing(rxbuf)
          /\ UNCHANGED <<Increasing(delivered), Increasing(rxbuf)>>
      BY <2>1 DEF OutInv, Increasing
    <3>5. /\ Below(Range(delivered), Held(wrHand))'
          /\ Below(Range(delivered) \cup Held(wrHand), Range(outQ))'
      BY <2>3, <3>2, <3>3 DEF OutInv, Below
    <3>6. Below(Range(delivered) \cup Held(wrHand) \cup Range(outQ), Range(batch))'
      BY <2>3, <3>2, <3>3 DEF OutInv, Below
    <3>7. Below(Range(delivered) \cup Held(wrHand) \cup Range(outQ) \cup Range(batch),
                Range(rxbuf))'
      BY <2>3, <3>2, <3>3 DEF OutInv, Below
    <3>8. Range(delivered)' \cup Held(wrHand)' \cup Range(outQ)' \cup Range(batch)' \cup Range(rxbuf)'
            \subseteq 1 .. nRx'
      BY <2>1, <2>3, <3>2, <3>3 DEF OutInv
    <3>9. (At("wr", "write") <=> wrHand # 0)' /\ (~ At("out", "push") => batch = <<>>)'
      BY <2>1, <2>2 DEF OutInv
    <3>. QED  BY <2>3, <3>2, <3>4, <3>5, <3>6, <3>7, <3>8, <3>9 DEF OutInv
  <2>. QED  BY <2>4, <2>5, <2>6
<1>3. CASE OutReadErr
  <2>1. rxbuf' = rxbuf \/ rxbuf' = <<>>
    BY <1>3 DEF OutReadErr
  <2>2. UNCHANGED <<nRx, batch, outQ, wrHand, delivered>>
    BY <1>3 DEF OutReadErr
  <2>3. /\ ~ At("out", "push") /\ ~ At("out", "push")'
        /\ (At("wr", "write")' <=> At("wr", "write"))
    BY <1>3 DEF OutReadErr, TypeOK, PcType, Goto, At, Tasks
  <2>4. CASE rxbuf' = rxbuf
    BY <2>2, <2>3, <2>4 DEF OutInv, Below, Held, Increasing
  <2>5. CASE rxbuf' = <<>>
    <3>1. Range(rxbuf') = {} /\ Increasing(rxbuf')
      BY <2>5, RangeEmpty
    <3>. QED  BY <2>2, <2>3, <3>1 DEF OutInv, Below, Held, Increasing
  <2>. QED  BY <2>1, <2>4, <2>5
<1>4. CASE Hear
  <2>1. nRx' = nRx + 1 /\ rxbuf' = Append(rxbuf, nRx + 1)
        /\ UNCHANGED <<pc, batch, outQ, wrHand, delivered>>
    BY <1>4 DEF Hear
  <2>2. Increasing(rxbuf) /\ \A x \in Range(rxbuf) : x < nRx + 1
    BY <1>0 DEF OutInv
  <2>3. Range(rxbuf') = Range(rxbuf) \cup {nRx + 1} /\ Increasing(rxbuf')
    <3>1. nRx + 1 \in Nat
      BY <1>0
    <3>. QED  BY <1>0, <2>1, <2>2, <3>1, PutLast
  <2>. QED  BY <1>0, <2>1, <2>3 DEF OutInv, Below, Held, At, Increasing
<1>5. CASE WrRecv
  <2>1. outQ # <<>> /\ wrHand' = Head(outQ) /\ outQ' = Tail(outQ)
        /\ UNCHANGED <<nRx, rxbuf, batch, delivered>>
    BY <1>5 DEF WrRecv
  <2>2. /\ At("wr", "write")' /\ ~ At("wr", "write")
        /\ (At("out", "push")' <=> At("out", "push"))
    BY <1>5 DEF WrRecv, TypeOK, PcType, Goto, At, Tasks
  <2>3. /\ Range(outQ) = {Head(outQ)} \cup Range(outQ') /\ Increasing(outQ')
        /\ \A x \in Range(outQ') : Head(outQ) < x
    BY <1>0, <2>1, TakeFirst DEF OutInv
  <2>4. wrHand = 0 /\ Head(outQ) \in 1 .. nRx
    BY <2>2, <2>3 DEF OutInv
  <2>5. Held(wrHand) = {} /\ Held(wrHand)' = {Head(outQ)}
    BY <1>0, <2>1, <2>4, HeldOne
  <2>. QED  BY <1>0, <2>1, <2>2, <2>3, <2>4, <2>5 DEF OutInv, Below, Increasing
<1>6. CASE WrWrite
  <2>1. delivered' = Append(delivered, wrHand) /\ wrHand' = 0 /\ wrHand # 0
        /\ UNCHANGED <<nRx, rxbuf, batch, outQ>>
    BY <1>6 DEF WrWrite, OutInv
  <2>2. ~ At("wr", "write")' /\ (At("out", "push")' <=> At("out", "push"))
    BY <1>6 DEF WrWrite, TypeOK, PcType, Goto, At, Tasks
  <2>3. Held(wrHand) = {wrHand} /\ Held(wrHand)' = {}
    BY <1>0, <2>1, HeldOne
  <2>4. Range(delivered') = Range(delivered) \cup {wrHand} /\ Increasing(delivered')
    <3>1. Increasing(delivered) /\ \A x \in Range(delivered) : x < wrHand
      BY <2>3 DEF OutInv, Below
    <3>. QED  BY <1>0, <2>1, <3>1, PutLast
  <2>5. /\ UNCHANGED <<Range(outQ), Range(batch), Range(rxbuf)>>
        /\ Increasing(outQ)' /\ Increasing(batch)' /\ Increasing(rxbuf)'
    BY <2>1 DEF OutInv, Increasing
  <2>6. /\ Below(Range(delivered), Held(wrHand))'
        /\ Below(Range(delivered) \cup Held(wrHand), Range(outQ))'
        /\ Below(Range(delivered) \cup Held(wrHand) \cup Range(outQ), Range(batch))'
    BY <2>3, <2>4, <2>5 DEF OutInv, Below
  <2>7. Below(Range(delivered) \cup Held(wrHand) \cup Range(outQ) \cup Range(batch),
              Range(rxbuf))'
    BY <2>3, <2>4, <2>5 DEF OutInv, Below
  <2>. QED  BY <2>1, <2>2, <2>3, <2>4, <2>5, <2>6, <2>7 DEF OutInv
<1>7. CASE WrBroken
  <2>1. wrHand' = 0 /\ UNCHANGED <<nRx, rxbuf, batch, outQ, delivered>>
    BY <1>7 DEF WrBroken
  <2>2. ~ At("wr", "write")' /\ (At("out", "push")' <=> At("out", "push"))
    BY <1>7 DEF WrBroken, TypeOK, PcType, Goto, At, Tasks
  <2>3. Held(wrHand)' = {}
    BY <2>1, HeldOne
  <2>. QED  BY <1>0, <2>1, <2>2, <2>3 DEF OutInv, Below, Increasing
<1>8. CASE WrFail
  <2>1. wrHand' = 0 /\ outQ' = <<>> /\ UNCHANGED <<nRx, rxbuf, batch, delivered>>
    BY <1>8 DEF WrFail
  <2>2. ~ At("wr", "write")' /\ (At("out", "push")' <=> At("out", "push"))
    BY <1>8 DEF WrFail, TypeOK, PcType, Goto, At, Tasks
  <2>3. Held(wrHand)' = {} /\ Range(outQ') = {} /\ Increasing(outQ')
    BY <2>1, HeldOne, RangeEmpty
  <2>. QED  BY <1>0, <2>1, <2>2, <2>3 DEF OutInv, Below, Increasing
<1>. QED
  BY <1>1, <1>2, <1>3, <1>4, <1>5, <1>6, <1>7, <1>8, OutSteps, OutInvFrame

LEMMA OutInvInit == Init => OutInv
<1>. SUFFICES ASSUME Init PROVE OutInv
  OBVIOUS
<1>1. /\ nRx = 0 /\ rxbuf = <<>> /\ batch = <<>> /\ outQ = <<>> /\ wrHand = 0
      /\ delivered = <<>> /\ ~ At("wr", "write")
  BY DEF Init, At, Tasks
<1>2. /\ Range(delivered) = {} /\ Range(outQ) = {} /\ Range(batch) = {} /\ Range(rxbuf) = {}
      /\ Increasing(delivered) /\ Increasing(outQ) /\ Increasing(batch) /\ Increasing(rxbuf)
      /\ Held(wrHand) = {} /\ 1 .. nRx = {}
  BY <1>1, RangeEmpty, HeldOne
<1>. QED  BY <1>1, <1>2 DEF OutInv, Below

LEMMA OutInvHolds == Spec => []OutInv
BY TypeCorrect, OutInvInit, OutInvStep, PTL DEF Spec

(***************************************************************************)
(* No frame is repeated or overtaken between the driver and the client,    *)
(* whatever is dropped at the channel or lost with a client: for every     *)
(* capacity of the channel and every kind of driver.                       *)
(***************************************************************************)
THEOREM FramesInOrder == Spec => []OutOrder
<1>1. TypeOK /\ OutInv => OutOrder
  <2>. SUFFICES ASSUME TypeOK, OutInv
                PROVE  Increasing(delivered \o Carried(wrHand) \o outQ \o batch \o rxbuf)
    BY DEF OutOrder
  <2>. DEFINE a == delivered \o Carried(wrHand)
              b == a \o outQ
              c == b \o batch
              d == c \o rxbuf
  <2>0. /\ wrHand \in Nat /\ rxbuf \in Seq(Nat) /\ batch \in Seq(Nat)
        /\ delivered \in Seq(Nat) /\ outQ \in Seq(Nat)
    BY DEF TypeOK, OutType
  <2>1. /\ Carried(wrHand) \in Seq(Nat) /\ Increasing(Carried(wrHand))
        /\ Range(Carried(wrHand)) = Held(wrHand)
    BY <2>0, CarriedRange DEF Held
  <2>2. a \in Seq(Nat) /\ Increasing(a) /\ Range(a) = Range(delivered) \cup Held(wrHand)
    <3>1. \A x \in Range(delivered), y \in Range(Carried(wrHand)) : x < y
      BY <2>1 DEF OutInv, Below
    <3>. QED  BY <2>0, <2>1, <3>1, JoinIncreasing DEF OutInv
  <2>. HIDE DEF a
  <2>3. b \in Seq(Nat) /\ Increasing(b) /\ Range(b) = Range(a) \cup Range(outQ)
    <3>1. \A x \in Range(a), y \in Range(outQ) : x < y
      BY <2>2 DEF OutInv, Below
    <3>. QED  BY <2>0, <2>2, <3>1, JoinIncreasing DEF OutInv
  <2>. HIDE DEF b
  <2>4. c \in Seq(Nat) /\ Increasing(c) /\ Range(c) = Range(b) \cup Range(batch)
    <3>1. \A x \in Range(b), y \in Range(batch) : x < y
      BY <2>2, <2>3 DEF OutInv, Below
    <3>. QED  BY <2>0, <2>3, <3>1, JoinIncreasing DEF OutInv
  <2>. HIDE DEF c
  <2>5. Increasing(d)
    <3>1. \A x \in Range(c), y \in Range(rxbuf) : x < y
      BY <2>2, <2>3, <2>4 DEF OutInv, Below
    <3>. QED  BY <2>0, <2>4, <3>1, JoinIncreasing DEF OutInv
  <2>. QED  BY <2>5 DEF a, b, c, d
<1>. QED  BY TypeCorrect, OutInvHolds, <1>1, PTL

-----------------------------------------------------------------------------
(* The bridge *)

LEMMA LastOfIncreasing ==
  ASSUME NEW s \in Seq(Nat), Increasing(s)
  PROVE  /\ Bridge!LastOf(s) \in {0} \cup Range(s)
         /\ \A x \in Range(s) : x <= Bridge!LastOf(s)
<1>1. CASE s = <<>>
  BY <1>1, RangeEmpty DEF Bridge!LastOf
<1>2. CASE s # <<>>
  <2>1. Len(s) \in 1 .. Len(s) /\ Bridge!LastOf(s) = s[Len(s)]
    BY <1>2, LenProperties, EmptySeq DEF Bridge!LastOf
  <2>2. ASSUME NEW i \in 1 .. Len(s) PROVE s[i] <= s[Len(s)]
    <3>1. CASE i = Len(s)
      BY <2>1, <3>1
    <3>2. CASE i < Len(s)
      BY <2>1, <3>2 DEF Increasing
    <3>. QED  BY <2>1, <3>1, <3>2
  <2>3. s[Len(s)] \in Range(s)
    BY <2>1, RangeIndex
  <2>4. ASSUME NEW x \in Range(s) PROVE x <= s[Len(s)]
    <3>1. PICK i \in 1 .. Len(s) : s[i] = x
      BY RangeIndex
    <3>. QED  BY <2>2, <3>1
  <2>. QED  BY <2>1, <2>3, <2>4
<1>. QED  BY <1>1, <1>2

\* The chunk in hand is the one the bridge would offer next.
LEMMA OfferNext ==
  ASSUME TypeOK, InInv, At("in", "call"), offered' = Append(offered, inHand),
         UNCHANGED <<nIn, nRx, delivered>>
  PROVE  Bridge!Next
<1>0. nIn \in Nat /\ inHand \in Nat /\ offered \in Seq(Nat) /\ ~ At("in", "done")
  BY DEF TypeOK, InType, At
<1>1. inHand # 0 /\ Held(inHand) = {inHand} /\ inHand \in 1 .. nIn /\ inHand \notin Junk
  <2>1. inHand # 0
    BY DEF InInv
  <2>2. Held(inHand) = {inHand}
    BY <1>0, <2>1, HeldOne
  <2>. QED  BY <2>1, <2>2 DEF InInv
<1>2. /\ Bridge!LastOf(offered) \in {0} \cup Range(offered)
      /\ \A x \in Range(offered) : x <= Bridge!LastOf(offered)
  BY <1>0, LastOfIncreasing DEF InInv
<1>. DEFINE last == Bridge!LastOf(offered)
<1>. HIDE DEF last
<1>3. last \in Nat /\ inHand > last
  <2>1. \A x \in Range(offered) : x \in Nat /\ x < inHand
    BY <1>0, <1>1 DEF InInv, Below
  <2>. QED  BY <1>0, <1>1, <1>2, <2>1 DEF last
<1>4. ASSUME NEW k \in (last + 1) .. (inHand - 1) PROVE k \in Junk
  <2>1. k \in 1 .. nIn /\ last < k /\ k < inHand
    BY <1>0, <1>1, <1>3
  <2>2. k \notin Range(offered) /\ k \notin Held(inHand)
    BY <1>0, <1>1, <1>2, <1>3, <2>1 DEF last
  <2>3. k \notin Range(inQ) /\ k \notin Held(rdHand)
    <3>1. \A y \in Range(inQ) : inHand < y
      BY <1>1 DEF InInv, Below
    <3>2. \A y \in Held(rdHand) : inHand < y
      BY <1>1 DEF InInv, Below
    <3>3. ~ inHand < k
      BY <1>0, <2>1
    <3>. QED  BY <3>1, <3>2, <3>3
  <2>. QED  BY <1>0, <2>1, <2>2, <2>3 DEF InInv
<1>5. Bridge!Offer(inHand)
  BY <1>1, <1>3, <1>4 DEF Bridge!Offer, last
<1>. QED  BY <1>1, <1>5 DEF Bridge!Next

\* The frame in the writer's hand is beyond those the client has.
LEMMA DeliverNext ==
  ASSUME TypeOK, OutInv, At("wr", "write"), delivered' = Append(delivered, wrHand),
         UNCHANGED <<nIn, nRx, offered>>
  PROVE  Bridge!Next
<1>0. nRx \in Nat /\ wrHand \in Nat /\ delivered \in Seq(Nat)
  BY DEF TypeOK, OutType
<1>1. wrHand # 0
  BY DEF OutInv
<1>2. Held(wrHand) = {wrHand} /\ wrHand \in 1 .. nRx
  <2>1. Held(wrHand) = {wrHand}
    BY <1>0, <1>1, HeldOne
  <2>. QED  BY <2>1 DEF OutInv
<1>3. Bridge!LastOf(delivered) \in {0} \cup Range(delivered)
  BY <1>0, LastOfIncreasing DEF OutInv
<1>4. \A x \in Range(delivered) : x < wrHand
  BY <1>2 DEF OutInv, Below
<1>5. wrHand > Bridge!LastOf(delivered)
  BY <1>0, <1>1, <1>2, <1>3, <1>4
<1>. QED  BY <1>2, <1>5 DEF Bridge!Next, Bridge!Deliver

(***************************************************************************)
(* The tasks, channels and lock of canserver implement the bridge: every   *)
(* step of the server reads a chunk, hears a frame, offers the next        *)
(* decodable chunk, delivers a later frame, or is invisible.               *)
(***************************************************************************)
THEOREM ServerIsBridge == Spec => ImplementsBridge
<1>1. Init => Bridge!Init
  BY DEF Init, Bridge!Init
<1>2. TypeOK /\ InInv /\ OutInv /\ [Next]_vars => [Bridge!Next]_(Bridge!vars)
  <2>. SUFFICES ASSUME TypeOK, InInv, OutInv, [Next]_vars
                PROVE  Bridge!Next \/ UNCHANGED <<nIn, offered, nRx, delivered>>
    BY DEF Bridge!vars
  <2>1. UNCHANGED <<nIn, offered>> \/ RdRead \/ InSend \/ InCancel
    BY InSteps DEF InQuiet, inVars, RdSend, RdSendClosed, InSkip, InRecv
  <2>2. UNCHANGED <<nRx, delivered>> \/ Hear \/ WrWrite
    BY OutSteps DEF OutQuiet, outVars, OutRead, OutPush, OutReadErr, WrRecv, WrBroken, WrFail
  <2>3. CASE RdRead
    BY <2>3 DEF RdRead, outVars, Bridge!Next, Bridge!Accept
  <2>4. CASE InSend
    BY <2>4, OfferNext DEF InSend, outVars
  <2>5. CASE InCancel
    <3>1. UNCHANGED <<nIn, nRx, delivered>>
      BY <2>5 DEF InCancel, outVars
    <3>2. offered' = offered \/ (At("in", "call") /\ offered' = Append(offered, inHand))
      BY <2>5 DEF InCancel
    <3>. QED  BY <3>1, <3>2, OfferNext
  <2>6. CASE Hear
    BY <2>6 DEF Hear, inVars, Bridge!Next, Bridge!Hear
  <2>7. CASE WrWrite
    BY <2>7, DeliverNext DEF WrWrite, inVars
  <2>. QED  BY <2>1, <2>2, <2>3, <2>4, <2>5, <2>6, <2>7
<1>. QED
  BY TypeCorrect, InInvHolds, OutInvHolds, <1>1, <1>2, PTL DEF Spec, ImplementsBridge, Bridge!Spec
=============================================================================
