---------------------------- MODULE AsyncRxProofs ----------------------------
(***************************************************************************)
(* Proofs about AsyncRx for every number of transfers and buffers: the     *)
(* invariant IInv is inductive, and with it the ownership of the buffers   *)
(* and the arming of the pool (AInv).                                      *)
(***************************************************************************)
EXTENDS AsyncRx, FiniteSetTheorems, SequenceTheorems, TLAPS

\* Popping the free list (freeList.back() and pop_back()) yields a buffer.
LEMMA PopShape ==
  ASSUME NEW s \in Seq(Buf), s # <<>>
  PROVE  AllButLast(s) \in Seq(Buf) /\ Final(s) \in Buf
<1>1. Len(s) \in Nat /\ Len(s) > 0
  OBVIOUS
<1>2. \A i \in 1 .. Len(s) - 1 : s[i] \in Buf
  OBVIOUS
<1>3. SubSeq(s, 1, Len(s) - 1) \in Seq(Buf)
  BY <1>1, <1>2, SubSeqProperties
<1> QED
  BY <1>1, <1>3 DEF AllButLast, Final

\* A push leaves the free list non-empty.
LEMMA PushShape ==
  ASSUME NEW s \in Seq(Buf), NEW b \in Buf
  PROVE  Append(s, b) # <<>>
BY AppendProperties

\* The flags stay Boolean.
LEMMA StepFlagTypes == FlagTypes /\ [Next]_vars => FlagTypes'
<1> SUFFICES ASSUME FlagTypes, [Next]_vars PROVE FlagTypes'
  OBVIOUS
<1> USE DEF FlagTypes, vars, flags, pool, control, handler, worker, life,
        history
<1>1. ASSUME NEW u \in Urb, NEW s \in Status, HcComplete(u, s) PROVE FlagTypes'
  BY <1>1 DEF HcComplete, Status
<1>2. ASSUME NEW u \in Urb, CbStart(u) PROVE FlagTypes'
  BY <1>2 DEF CbStart, AfterStatus, Status
<1>3. CASE CbQueue
  BY <1>3 DEF CbQueue
<1>4. CASE CbLoad
  BY <1>4 DEF CbLoad
<1>5. CASE CbSwap
  BY <1>5 DEF CbSwap, StoreFreeList
<1>6. CASE CbCheck
  BY <1>6 DEF CbCheck
<1>7. CASE CbSubmit
  BY <1>7 DEF CbSubmit
<1>8. CASE CbSubmitFails
  BY <1>8 DEF CbSubmitFails
<1>9. CASE CbRetire
  BY <1>9 DEF CbRetire
<1>10. CASE CbDecrement
  BY <1>10 DEF CbDecrement
<1>11. CASE WkPop
  BY <1>11 DEF WkPop
<1>12. CASE WkParse
  BY <1>12 DEF WkParse
<1>13. CASE WkPush
  BY <1>13 DEF WkPush, StoreFreeList
<1>14. CASE WkExit
  BY <1>14 DEF WkExit
<1>15. CASE StartLoad
  BY <1>15 DEF StartLoad
<1>16. CASE StartNoBuffer
  BY <1>16 DEF StartNoBuffer
<1>17. CASE StartSubmit
  BY <1>17 DEF StartSubmit, StartTake, StoreFreeList
<1>18. CASE StartSubmitFails
  BY <1>18 DEF StartSubmitFails, StartTake, StoreFreeList, NextStart
<1>19. CASE StartMark
  BY <1>19 DEF StartMark
<1>20. CASE StartCount
  BY <1>20 DEF StartCount, NextStart
<1>21. CASE Pause
  BY <1>21 DEF Pause
<1>22. CASE PauseCancel
  BY <1>22 DEF PauseCancel, CancelAll
<1>23. ASSUME NEW d \in BOOLEAN, PauseDrained(d) PROVE FlagTypes'
  BY <1>23 DEF PauseDrained
<1>24. CASE Resume
  BY <1>24 DEF Resume
<1>25. CASE ResumeSkip
  BY <1>25 DEF ResumeSkip, NextResume, LastTransfer
<1>26. CASE ResumeClaim
  BY <1>26 DEF ResumeClaim
<1>27. CASE ResumeSubmit
  BY <1>27 DEF ResumeSubmit
<1>28. CASE ResumeSubmitFails
  BY <1>28 DEF ResumeSubmitFails, NextResume, LastTransfer
<1>29. CASE ResumeCount
  BY <1>29 DEF ResumeCount, NextResume, LastTransfer
<1>30. CASE Stop
  BY <1>30 DEF Stop
<1>31. CASE StopCancel
  BY <1>31 DEF StopCancel, CancelAll
<1>32. ASSUME NEW d \in BOOLEAN, StopDrained(d) PROVE FlagTypes'
  BY <1>32 DEF StopDrained
<1>33. CASE StopQueue
  BY <1>33 DEF StopQueue
<1>34. CASE StopFinish
  BY <1>34 DEF StopFinish
<1>35. CASE UNCHANGED vars
  BY <1>35
<1>36. QED
  BY <1>1, <1>2, <1>3, <1>4, <1>5, <1>6, <1>7, <1>8, <1>9, <1>10, <1>11,
     <1>12, <1>13, <1>14, <1>15, <1>16, <1>17, <1>18, <1>19, <1>20, <1>21,
     <1>22, <1>23, <1>24, <1>25, <1>26, <1>27, <1>28, <1>29, <1>30, <1>31,
     <1>32, <1>33, <1>34, <1>35 DEF Next, Callback, Worker, Control

\* The free list and the queue only ever hold buffers of the pool.
LEMMA StepPoolTypes == TypeOK /\ Flow /\ [Next]_vars => PoolTypes'
<1> SUFFICES ASSUME TypeOK /\ Flow, [Next]_vars PROVE PoolTypes'
  OBVIOUS
<1> USE DEF TypeOK, PoolTypes, vars, flags, pool, control, handler, worker,
        life, history
<1>1. ASSUME NEW u \in Urb, NEW s \in Status, HcComplete(u, s) PROVE PoolTypes'
  BY <1>1 DEF HcComplete, Status
<1>2. ASSUME NEW u \in Urb, CbStart(u) PROVE PoolTypes'
  BY <1>2 DEF CbStart, AfterStatus, Status
<1>3. CASE CbQueue
  BY <1>3, AppendProperties DEF CbQueue, Flow, CallbackHolds,
     BuffersPresent, StepTypes, NoUrb, NoBuf
<1>4. CASE CbLoad
  BY <1>4 DEF CbLoad
<1>5. CASE CbSwap
  <2>1. AllButLast(cbSnap) \in Seq(Buf) /\ Final(cbSnap) \in Buf
    BY <1>5, PopShape DEF CbSwap, Flow, CallbackHolds
  <2>2. transferBuf' \in [Urb -> Buf \cup {NoBuf}]
    BY <1>5, <2>1 DEF CbSwap, StoreFreeList
  <2> QED
    BY <1>5, <2>1, <2>2 DEF CbSwap, StoreFreeList
<1>6. CASE CbCheck
  BY <1>6 DEF CbCheck
<1>7. CASE CbSubmit
  BY <1>7 DEF CbSubmit
<1>8. CASE CbSubmitFails
  BY <1>8 DEF CbSubmitFails
<1>9. CASE CbRetire
  BY <1>9 DEF CbRetire
<1>10. CASE CbDecrement
  BY <1>10 DEF CbDecrement
<1>11. CASE WkPop
  BY <1>11, HeadTailProperties DEF WkPop
<1>12. CASE WkParse
  BY <1>12 DEF WkParse
<1>13. CASE WkPush
  BY <1>13, AppendProperties DEF WkPush, StoreFreeList, Flow,
     BuffersPresent, NoBuf
<1>14. CASE WkExit
  BY <1>14 DEF WkExit
<1>15. CASE StartLoad
  BY <1>15 DEF StartLoad
<1>16. CASE StartNoBuffer
  BY <1>16 DEF StartNoBuffer
<1>17. CASE StartSubmit
  <2>1. AllButLast(ctlSnap) \in Seq(Buf) /\ Final(ctlSnap) \in Buf
    BY <1>17, PopShape DEF StartSubmit, Flow, NotYetStarted
  <2>2. transferBuf' \in [Urb -> Buf \cup {NoBuf}]
    BY <1>17, <2>1 DEF StartSubmit, StartTake, StoreFreeList
  <2> QED
    BY <1>17, <2>1, <2>2 DEF StartSubmit, StartTake, StoreFreeList
<1>18. CASE StartSubmitFails
  <2>1. AllButLast(ctlSnap) \in Seq(Buf) /\ Final(ctlSnap) \in Buf
    BY <1>18, PopShape DEF StartSubmitFails, Flow, NotYetStarted
  <2>2. transferBuf' \in [Urb -> Buf \cup {NoBuf}]
    BY <1>18, <2>1 DEF StartSubmitFails, StartTake, StoreFreeList, NextStart
  <2> QED
    BY <1>18, <2>1, <2>2 DEF StartSubmitFails, StartTake, StoreFreeList, NextStart
<1>19. CASE StartMark
  BY <1>19 DEF StartMark
<1>20. CASE StartCount
  BY <1>20 DEF StartCount, NextStart
<1>21. CASE Pause
  BY <1>21 DEF Pause
<1>22. CASE PauseCancel
  BY <1>22 DEF PauseCancel, CancelAll
<1>23. ASSUME NEW d \in BOOLEAN, PauseDrained(d) PROVE PoolTypes'
  BY <1>23 DEF PauseDrained
<1>24. CASE Resume
  BY <1>24 DEF Resume
<1>25. CASE ResumeSkip
  BY <1>25 DEF ResumeSkip, NextResume, LastTransfer
<1>26. CASE ResumeClaim
  BY <1>26 DEF ResumeClaim
<1>27. CASE ResumeSubmit
  BY <1>27 DEF ResumeSubmit
<1>28. CASE ResumeSubmitFails
  BY <1>28 DEF ResumeSubmitFails, NextResume, LastTransfer
<1>29. CASE ResumeCount
  BY <1>29 DEF ResumeCount, NextResume, LastTransfer
<1>30. CASE Stop
  BY <1>30 DEF Stop
<1>31. CASE StopCancel
  BY <1>31 DEF StopCancel, CancelAll
<1>32. ASSUME NEW d \in BOOLEAN, StopDrained(d) PROVE PoolTypes'
  BY <1>32 DEF StopDrained
<1>33. CASE StopQueue
  BY <1>33, ConcatProperties DEF StopQueue
<1>34. CASE StopFinish
  BY <1>34 DEF StopFinish
<1>35. CASE UNCHANGED vars
  BY <1>35
<1>36. QED
  BY <1>1, <1>2, <1>3, <1>4, <1>5, <1>6, <1>7, <1>8, <1>9, <1>10, <1>11,
     <1>12, <1>13, <1>14, <1>15, <1>16, <1>17, <1>18, <1>19, <1>20, <1>21,
     <1>22, <1>23, <1>24, <1>25, <1>26, <1>27, <1>28, <1>29, <1>30, <1>31,
     <1>32, <1>33, <1>34, <1>35 DEF Next, Callback, Worker, Control

\* The steps, the counters and the transfers keep their types.
LEMMA StepStepTypes == TypeOK /\ Flow /\ [Next]_vars => StepTypes'
<1> SUFFICES ASSUME TypeOK /\ Flow, [Next]_vars PROVE StepTypes'
  OBVIOUS
<1> USE PoolAssumption DEF TypeOK, StepTypes, UrbState, Status, CtlStep,
        CbStep, WkStep, Urb, vars, flags, pool, control, handler, worker,
        life, history
<1>1. ASSUME NEW u \in Urb, NEW s \in Status, HcComplete(u, s) PROVE StepTypes'
  BY <1>1 DEF HcComplete, Status
<1>2. ASSUME NEW u \in Urb, CbStart(u) PROVE StepTypes'
  BY <1>2 DEF CbStart, AfterStatus, Status
<1>3. CASE CbQueue
  BY <1>3 DEF CbQueue
<1>4. CASE CbLoad
  BY <1>4 DEF CbLoad
<1>5. CASE CbSwap
  BY <1>5 DEF CbSwap, StoreFreeList
<1>6. CASE CbCheck
  BY <1>6 DEF CbCheck
<1>7. CASE CbSubmit
  BY <1>7 DEF CbSubmit
<1>8. CASE CbSubmitFails
  BY <1>8 DEF CbSubmitFails, Flow, CallbackHolds
<1>9. CASE CbRetire
  BY <1>9 DEF CbRetire
<1>10. CASE CbDecrement
  BY <1>10 DEF CbDecrement
<1>11. CASE WkPop
  BY <1>11 DEF WkPop
<1>12. CASE WkParse
  BY <1>12 DEF WkParse
<1>13. CASE WkPush
  BY <1>13 DEF WkPush, StoreFreeList
<1>14. CASE WkExit
  BY <1>14 DEF WkExit
<1>15. CASE StartLoad
  BY <1>15 DEF StartLoad
<1>16. CASE StartNoBuffer
  BY <1>16 DEF StartNoBuffer
<1>17. CASE StartSubmit
  BY <1>17 DEF StartSubmit, StartTake, StoreFreeList
<1>18. CASE StartSubmitFails
  BY <1>18 DEF StartSubmitFails, StartTake, StoreFreeList, NextStart
<1>19. CASE StartMark
  BY <1>19 DEF StartMark
<1>20. CASE StartCount
  BY <1>20 DEF StartCount, NextStart
<1>21. CASE Pause
  BY <1>21 DEF Pause
<1>22. CASE PauseCancel
  BY <1>22 DEF PauseCancel, CancelAll
<1>23. ASSUME NEW d \in BOOLEAN, PauseDrained(d) PROVE StepTypes'
  BY <1>23 DEF PauseDrained
<1>24. CASE Resume
  BY <1>24 DEF Resume
<1>25. CASE ResumeSkip
  BY <1>25 DEF ResumeSkip, NextResume, LastTransfer
<1>26. CASE ResumeClaim
  BY <1>26 DEF ResumeClaim
<1>27. CASE ResumeSubmit
  BY <1>27 DEF ResumeSubmit
<1>28. CASE ResumeSubmitFails
  BY <1>28 DEF ResumeSubmitFails, NextResume, LastTransfer
<1>29. CASE ResumeCount
  BY <1>29 DEF ResumeCount, NextResume, LastTransfer
<1>30. CASE Stop
  BY <1>30 DEF Stop
<1>31. CASE StopCancel
  BY <1>31 DEF StopCancel, CancelAll
<1>32. ASSUME NEW d \in BOOLEAN, StopDrained(d) PROVE StepTypes'
  BY <1>32 DEF StopDrained
<1>33. CASE StopQueue
  BY <1>33 DEF StopQueue
<1>34. CASE StopFinish
  BY <1>34 DEF StopFinish
<1>35. CASE UNCHANGED vars
  BY <1>35
<1>36. QED
  BY <1>1, <1>2, <1>3, <1>4, <1>5, <1>6, <1>7, <1>8, <1>9, <1>10, <1>11,
     <1>12, <1>13, <1>14, <1>15, <1>16, <1>17, <1>18, <1>19, <1>20, <1>21,
     <1>22, <1>23, <1>24, <1>25, <1>26, <1>27, <1>28, <1>29, <1>30, <1>31,
     <1>32, <1>33, <1>34, <1>35 DEF Next, Callback, Worker, Control

\* The flags follow the control thread.
LEMMA StepFlags == TypeOK /\ Flow /\ [Next]_vars => FlagsFollowControl'
<1> SUFFICES ASSUME TypeOK /\ Flow, [Next]_vars PROVE FlagsFollowControl'
  OBVIOUS
<1> USE DEF TypeOK, FlagTypes, StepTypes, Flow, FlagsFollowControl, CtlStep,
        vars, flags, pool, control, handler, worker, life, history
<1>1. ASSUME NEW u \in Urb, NEW s \in Status, HcComplete(u, s) PROVE FlagsFollowControl'
  BY <1>1 DEF HcComplete, Status
<1>2. ASSUME NEW u \in Urb, CbStart(u) PROVE FlagsFollowControl'
  BY <1>2 DEF CbStart, AfterStatus, Status
<1>3. CASE CbQueue
  BY <1>3 DEF CbQueue
<1>4. CASE CbLoad
  BY <1>4 DEF CbLoad
<1>5. CASE CbSwap
  BY <1>5 DEF CbSwap, StoreFreeList
<1>6. CASE CbCheck
  BY <1>6 DEF CbCheck
<1>7. CASE CbSubmit
  BY <1>7 DEF CbSubmit
<1>8. CASE CbSubmitFails
  BY <1>8 DEF CbSubmitFails
<1>9. CASE CbRetire
  BY <1>9 DEF CbRetire
<1>10. CASE CbDecrement
  BY <1>10 DEF CbDecrement
<1>11. CASE WkPop
  BY <1>11 DEF WkPop
<1>12. CASE WkParse
  BY <1>12 DEF WkParse
<1>13. CASE WkPush
  BY <1>13 DEF WkPush, StoreFreeList
<1>14. CASE WkExit
  BY <1>14 DEF WkExit
<1>15. CASE StartLoad
  BY <1>15 DEF StartLoad
<1>16. CASE StartNoBuffer
  BY <1>16 DEF StartNoBuffer
<1>17. CASE StartSubmit
  BY <1>17 DEF StartSubmit, StartTake, StoreFreeList
<1>18. CASE StartSubmitFails
  BY <1>18 DEF StartSubmitFails, StartTake, StoreFreeList, NextStart
<1>19. CASE StartMark
  BY <1>19 DEF StartMark
<1>20. CASE StartCount
  BY <1>20 DEF StartCount, NextStart
<1>21. CASE Pause
  BY <1>21 DEF Pause
<1>22. CASE PauseCancel
  BY <1>22 DEF PauseCancel, CancelAll
<1>23. ASSUME NEW d \in BOOLEAN, PauseDrained(d) PROVE FlagsFollowControl'
  BY <1>23 DEF PauseDrained
<1>24. CASE Resume
  BY <1>24 DEF Resume
<1>25. CASE ResumeSkip
  BY <1>25 DEF ResumeSkip, NextResume, LastTransfer
<1>26. CASE ResumeClaim
  BY <1>26 DEF ResumeClaim
<1>27. CASE ResumeSubmit
  BY <1>27 DEF ResumeSubmit
<1>28. CASE ResumeSubmitFails
  BY <1>28 DEF ResumeSubmitFails, NextResume, LastTransfer
<1>29. CASE ResumeCount
  BY <1>29 DEF ResumeCount, NextResume, LastTransfer
<1>30. CASE Stop
  BY <1>30 DEF Stop
<1>31. CASE StopCancel
  BY <1>31 DEF StopCancel, CancelAll
<1>32. ASSUME NEW d \in BOOLEAN, StopDrained(d) PROVE FlagsFollowControl'
  BY <1>32 DEF StopDrained
<1>33. CASE StopQueue
  BY <1>33 DEF StopQueue
<1>34. CASE StopFinish
  BY <1>34 DEF StopFinish
<1>35. CASE UNCHANGED vars
  BY <1>35
<1>36. QED
  BY <1>1, <1>2, <1>3, <1>4, <1>5, <1>6, <1>7, <1>8, <1>9, <1>10, <1>11,
     <1>12, <1>13, <1>14, <1>15, <1>16, <1>17, <1>18, <1>19, <1>20, <1>21,
     <1>22, <1>23, <1>24, <1>25, <1>26, <1>27, <1>28, <1>29, <1>30, <1>31,
     <1>32, <1>33, <1>34, <1>35 DEF Next, Callback, Worker, Control

\* Nobody submits a transfer while its callback holds it.
LEMMA StepCallback == TypeOK /\ Flow /\ [Next]_vars => CallbackHolds'
<1> SUFFICES ASSUME TypeOK /\ Flow, [Next]_vars PROVE CallbackHolds'
  OBVIOUS
<1> USE PoolAssumption DEF CallbackHolds, NotYetStarted, ClaimIsExclusive,
        TypeOK, StepTypes, PoolTypes, Flow, UrbState, Status, CtlStep,
        CbStep, Urb, NoUrb, Holding, Untouched, vars, flags, pool, control,
        handler, worker, life, history
<1>1. ASSUME NEW u \in Urb, NEW s \in Status, HcComplete(u, s) PROVE CallbackHolds'
  BY <1>1 DEF HcComplete, Status
<1>2. ASSUME NEW u \in Urb, CbStart(u) PROVE CallbackHolds'
  BY <1>2 DEF CbStart, AfterStatus, Status
<1>3. CASE CbQueue
  BY <1>3 DEF CbQueue
<1>4. CASE CbLoad
  BY <1>4 DEF CbLoad
<1>5. CASE CbSwap
  BY <1>5 DEF CbSwap, StoreFreeList
<1>6. CASE CbCheck
  BY <1>6 DEF CbCheck
<1>7. CASE CbSubmit
  BY <1>7 DEF CbSubmit
<1>8. CASE CbSubmitFails
  BY <1>8 DEF CbSubmitFails
<1>9. CASE CbRetire
  BY <1>9 DEF CbRetire
<1>10. CASE CbDecrement
  BY <1>10 DEF CbDecrement
<1>11. CASE WkPop
  BY <1>11 DEF WkPop
<1>12. CASE WkParse
  BY <1>12 DEF WkParse
<1>13. CASE WkPush
  BY <1>13 DEF WkPush, StoreFreeList
<1>14. CASE WkExit
  BY <1>14 DEF WkExit
<1>15. CASE StartLoad
  BY <1>15 DEF StartLoad
<1>16. CASE StartNoBuffer
  BY <1>16 DEF StartNoBuffer
<1>17. CASE StartSubmit
  BY <1>17 DEF StartSubmit, StartTake, StoreFreeList
<1>18. CASE StartSubmitFails
  BY <1>18 DEF StartSubmitFails, StartTake, StoreFreeList, NextStart
<1>19. CASE StartMark
  BY <1>19 DEF StartMark
<1>20. CASE StartCount
  BY <1>20 DEF StartCount, NextStart
<1>21. CASE Pause
  BY <1>21 DEF Pause
<1>22. CASE PauseCancel
  BY <1>22 DEF PauseCancel, CancelAll
<1>23. ASSUME NEW d \in BOOLEAN, PauseDrained(d) PROVE CallbackHolds'
  BY <1>23 DEF PauseDrained
<1>24. CASE Resume
  BY <1>24 DEF Resume
<1>25. CASE ResumeSkip
  BY <1>25 DEF ResumeSkip, NextResume, LastTransfer
<1>26. CASE ResumeClaim
  BY <1>26 DEF ResumeClaim
<1>27. CASE ResumeSubmit
  BY <1>27 DEF ResumeSubmit
<1>28. CASE ResumeSubmitFails
  BY <1>28 DEF ResumeSubmitFails, NextResume, LastTransfer
<1>29. CASE ResumeCount
  BY <1>29 DEF ResumeCount, NextResume, LastTransfer
<1>30. CASE Stop
  BY <1>30 DEF Stop
<1>31. CASE StopCancel
  BY <1>31 DEF StopCancel, CancelAll
<1>32. ASSUME NEW d \in BOOLEAN, StopDrained(d) PROVE CallbackHolds'
  BY <1>32 DEF StopDrained
<1>33. CASE StopQueue
  BY <1>33 DEF StopQueue
<1>34. CASE StopFinish
  BY <1>34 DEF StopFinish
<1>35. CASE UNCHANGED vars
  BY <1>35
<1>36. QED
  BY <1>1, <1>2, <1>3, <1>4, <1>5, <1>6, <1>7, <1>8, <1>9, <1>10, <1>11,
     <1>12, <1>13, <1>14, <1>15, <1>16, <1>17, <1>18, <1>19, <1>20, <1>21,
     <1>22, <1>23, <1>24, <1>25, <1>26, <1>27, <1>28, <1>29, <1>30, <1>31,
     <1>32, <1>33, <1>34, <1>35 DEF Next, Callback, Worker, Control

\* The transfers startAsyncRx has not reached stay untouched.
LEMMA StepStarting == TypeOK /\ Flow /\ [Next]_vars => NotYetStarted'
<1> SUFFICES ASSUME TypeOK /\ Flow, [Next]_vars PROVE NotYetStarted'
  OBVIOUS
<1> USE PoolAssumption DEF NotYetStarted, CallbackHolds, TypeOK, StepTypes,
        PoolTypes, Flow, UrbState, Status, CtlStep, CbStep, Urb, NoUrb,
        Holding, Untouched, vars, flags, pool, control, handler, worker,
        life, history
<1>1. ASSUME NEW u \in Urb, NEW s \in Status, HcComplete(u, s) PROVE NotYetStarted'
  BY <1>1 DEF HcComplete, Status
<1>2. ASSUME NEW u \in Urb, CbStart(u) PROVE NotYetStarted'
  <2>1. /\ UNCHANGED <<ctl, ci, freeList, ctlSnap>>
        /\ urb[u] # "idle" /\ cbUrb' = u
        /\ urb' = [urb EXCEPT ![u] = "idle"]
    BY <1>2 DEF CbStart
  <2>2. ASSUME NEW v \in Urb, Untouched(v) PROVE Untouched(v)'
    BY <2>1, <2>2
  <2> QED
    BY <2>1, <2>2
<1>3. CASE CbQueue
  BY <1>3 DEF CbQueue
<1>4. CASE CbLoad
  BY <1>4 DEF CbLoad
<1>5. CASE CbSwap
  BY <1>5 DEF CbSwap, StoreFreeList
<1>6. CASE CbCheck
  BY <1>6 DEF CbCheck
<1>7. CASE CbSubmit
  BY <1>7 DEF CbSubmit
<1>8. CASE CbSubmitFails
  BY <1>8 DEF CbSubmitFails
<1>9. CASE CbRetire
  BY <1>9 DEF CbRetire
<1>10. CASE CbDecrement
  BY <1>10 DEF CbDecrement
<1>11. CASE WkPop
  BY <1>11 DEF WkPop
<1>12. CASE WkParse
  BY <1>12 DEF WkParse
<1>13. CASE WkPush
  <2>1. wkSnap \in Seq(Buf) /\ wkBuf \in Buf
    BY <1>13 DEF WkPush, BuffersPresent, NoBuf
  <2>2. Append(wkSnap, wkBuf) # <<>>
    BY <2>1, PushShape
  <2> QED
    BY <1>13, <2>2 DEF WkPush, StoreFreeList
<1>14. CASE WkExit
  BY <1>14 DEF WkExit
<1>15. CASE StartLoad
  BY <1>15 DEF StartLoad
<1>16. CASE StartNoBuffer
  BY <1>16 DEF StartNoBuffer
<1>17. CASE StartSubmit
  BY <1>17 DEF StartSubmit, StartTake, StoreFreeList
<1>18. CASE StartSubmitFails
  BY <1>18 DEF StartSubmitFails, StartTake, StoreFreeList, NextStart
<1>19. CASE StartMark
  BY <1>19 DEF StartMark
<1>20. CASE StartCount
  BY <1>20 DEF StartCount, NextStart
<1>21. CASE Pause
  BY <1>21 DEF Pause
<1>22. CASE PauseCancel
  BY <1>22 DEF PauseCancel, CancelAll
<1>23. ASSUME NEW d \in BOOLEAN, PauseDrained(d) PROVE NotYetStarted'
  BY <1>23 DEF PauseDrained
<1>24. CASE Resume
  BY <1>24 DEF Resume
<1>25. CASE ResumeSkip
  BY <1>25 DEF ResumeSkip, NextResume, LastTransfer
<1>26. CASE ResumeClaim
  BY <1>26 DEF ResumeClaim
<1>27. CASE ResumeSubmit
  BY <1>27 DEF ResumeSubmit
<1>28. CASE ResumeSubmitFails
  BY <1>28 DEF ResumeSubmitFails, NextResume, LastTransfer
<1>29. CASE ResumeCount
  BY <1>29 DEF ResumeCount, NextResume, LastTransfer
<1>30. CASE Stop
  BY <1>30 DEF Stop
<1>31. CASE StopCancel
  BY <1>31 DEF StopCancel, CancelAll
<1>32. ASSUME NEW d \in BOOLEAN, StopDrained(d) PROVE NotYetStarted'
  BY <1>32 DEF StopDrained
<1>33. CASE StopQueue
  BY <1>33 DEF StopQueue
<1>34. CASE StopFinish
  BY <1>34 DEF StopFinish
<1>35. CASE UNCHANGED vars
  BY <1>35
<1>36. QED
  BY <1>1, <1>2, <1>3, <1>4, <1>5, <1>6, <1>7, <1>8, <1>9, <1>10, <1>11,
     <1>12, <1>13, <1>14, <1>15, <1>16, <1>17, <1>18, <1>19, <1>20, <1>21,
     <1>22, <1>23, <1>24, <1>25, <1>26, <1>27, <1>28, <1>29, <1>30, <1>31,
     <1>32, <1>33, <1>34, <1>35 DEF Next, Callback, Worker, Control

\* submitted keeps covering what libusb and the callback have.
LEMMA StepSubmitted == TypeOK /\ Flow /\ [Next]_vars => SubmittedCovers'
<1> SUFFICES ASSUME TypeOK /\ Flow, [Next]_vars PROVE SubmittedCovers'
  OBVIOUS
<1> USE PoolAssumption DEF SubmittedCovers, CallbackHolds, NotYetStarted,
        ClaimIsExclusive, TypeOK, StepTypes, PoolTypes, Flow, UrbState,
        Status, CtlStep, CbStep, Urb, NoUrb, Holding, Untouched, vars,
        flags, pool, control, handler, worker, life, history
<1>1. ASSUME NEW u \in Urb, NEW s \in Status, HcComplete(u, s) PROVE SubmittedCovers'
  BY <1>1 DEF HcComplete, Status
<1>2. ASSUME NEW u \in Urb, CbStart(u) PROVE SubmittedCovers'
  BY <1>2 DEF CbStart, AfterStatus, Status
<1>3. CASE CbQueue
  BY <1>3 DEF CbQueue
<1>4. CASE CbLoad
  BY <1>4 DEF CbLoad
<1>5. CASE CbSwap
  BY <1>5 DEF CbSwap, StoreFreeList
<1>6. CASE CbCheck
  BY <1>6 DEF CbCheck
<1>7. CASE CbSubmit
  BY <1>7 DEF CbSubmit
<1>8. CASE CbSubmitFails
  BY <1>8 DEF CbSubmitFails
<1>9. CASE CbRetire
  BY <1>9 DEF CbRetire
<1>10. CASE CbDecrement
  BY <1>10 DEF CbDecrement
<1>11. CASE WkPop
  BY <1>11 DEF WkPop
<1>12. CASE WkParse
  BY <1>12 DEF WkParse
<1>13. CASE WkPush
  BY <1>13 DEF WkPush, StoreFreeList
<1>14. CASE WkExit
  BY <1>14 DEF WkExit
<1>15. CASE StartLoad
  BY <1>15 DEF StartLoad
<1>16. CASE StartNoBuffer
  BY <1>16 DEF StartNoBuffer
<1>17. CASE StartSubmit
  BY <1>17 DEF StartSubmit, StartTake, StoreFreeList
<1>18. CASE StartSubmitFails
  BY <1>18 DEF StartSubmitFails, StartTake, StoreFreeList, NextStart
<1>19. CASE StartMark
  BY <1>19 DEF StartMark
<1>20. CASE StartCount
  BY <1>20 DEF StartCount, NextStart
<1>21. CASE Pause
  BY <1>21 DEF Pause
<1>22. CASE PauseCancel
  BY <1>22 DEF PauseCancel, CancelAll
<1>23. ASSUME NEW d \in BOOLEAN, PauseDrained(d) PROVE SubmittedCovers'
  BY <1>23 DEF PauseDrained
<1>24. CASE Resume
  BY <1>24 DEF Resume
<1>25. CASE ResumeSkip
  BY <1>25 DEF ResumeSkip, NextResume, LastTransfer
<1>26. CASE ResumeClaim
  BY <1>26 DEF ResumeClaim
<1>27. CASE ResumeSubmit
  BY <1>27 DEF ResumeSubmit
<1>28. CASE ResumeSubmitFails
  BY <1>28 DEF ResumeSubmitFails, NextResume, LastTransfer
<1>29. CASE ResumeCount
  BY <1>29 DEF ResumeCount, NextResume, LastTransfer
<1>30. CASE Stop
  BY <1>30 DEF Stop
<1>31. CASE StopCancel
  BY <1>31 DEF StopCancel, CancelAll
<1>32. ASSUME NEW d \in BOOLEAN, StopDrained(d) PROVE SubmittedCovers'
  BY <1>32 DEF StopDrained
<1>33. CASE StopQueue
  BY <1>33 DEF StopQueue
<1>34. CASE StopFinish
  BY <1>34 DEF StopFinish
<1>35. CASE UNCHANGED vars
  BY <1>35
<1>36. QED
  BY <1>1, <1>2, <1>3, <1>4, <1>5, <1>6, <1>7, <1>8, <1>9, <1>10, <1>11,
     <1>12, <1>13, <1>14, <1>15, <1>16, <1>17, <1>18, <1>19, <1>20, <1>21,
     <1>22, <1>23, <1>24, <1>25, <1>26, <1>27, <1>28, <1>29, <1>30, <1>31,
     <1>32, <1>33, <1>34, <1>35 DEF Next, Callback, Worker, Control

\* A claimed transfer stays the control thread's alone.
LEMMA StepClaim == TypeOK /\ Flow /\ [Next]_vars => ClaimIsExclusive'
<1> SUFFICES ASSUME TypeOK /\ Flow, [Next]_vars PROVE ClaimIsExclusive'
  OBVIOUS
<1> USE PoolAssumption DEF SubmittedCovers, CallbackHolds, ClaimIsExclusive,
        TypeOK, StepTypes, PoolTypes, Flow, UrbState, Status, CtlStep,
        CbStep, Urb, NoUrb, Holding, Untouched, vars, flags, pool, control,
        handler, worker, life, history
<1>1. ASSUME NEW u \in Urb, NEW s \in Status, HcComplete(u, s) PROVE ClaimIsExclusive'
  BY <1>1 DEF HcComplete, Status
<1>2. ASSUME NEW u \in Urb, CbStart(u) PROVE ClaimIsExclusive'
  BY <1>2 DEF CbStart, AfterStatus, Status
<1>3. CASE CbQueue
  BY <1>3 DEF CbQueue
<1>4. CASE CbLoad
  BY <1>4 DEF CbLoad
<1>5. CASE CbSwap
  BY <1>5 DEF CbSwap, StoreFreeList
<1>6. CASE CbCheck
  BY <1>6 DEF CbCheck
<1>7. CASE CbSubmit
  BY <1>7 DEF CbSubmit
<1>8. CASE CbSubmitFails
  BY <1>8 DEF CbSubmitFails
<1>9. CASE CbRetire
  BY <1>9 DEF CbRetire
<1>10. CASE CbDecrement
  BY <1>10 DEF CbDecrement
<1>11. CASE WkPop
  BY <1>11 DEF WkPop
<1>12. CASE WkParse
  BY <1>12 DEF WkParse
<1>13. CASE WkPush
  BY <1>13 DEF WkPush, StoreFreeList
<1>14. CASE WkExit
  BY <1>14 DEF WkExit
<1>15. CASE StartLoad
  BY <1>15 DEF StartLoad
<1>16. CASE StartNoBuffer
  BY <1>16 DEF StartNoBuffer
<1>17. CASE StartSubmit
  BY <1>17 DEF StartSubmit, StartTake, StoreFreeList
<1>18. CASE StartSubmitFails
  BY <1>18 DEF StartSubmitFails, StartTake, StoreFreeList, NextStart
<1>19. CASE StartMark
  BY <1>19 DEF StartMark
<1>20. CASE StartCount
  BY <1>20 DEF StartCount, NextStart
<1>21. CASE Pause
  BY <1>21 DEF Pause
<1>22. CASE PauseCancel
  BY <1>22 DEF PauseCancel, CancelAll
<1>23. ASSUME NEW d \in BOOLEAN, PauseDrained(d) PROVE ClaimIsExclusive'
  BY <1>23 DEF PauseDrained
<1>24. CASE Resume
  BY <1>24 DEF Resume
<1>25. CASE ResumeSkip
  BY <1>25 DEF ResumeSkip, NextResume, LastTransfer
<1>26. CASE ResumeClaim
  BY <1>26 DEF ResumeClaim
<1>27. CASE ResumeSubmit
  BY <1>27 DEF ResumeSubmit
<1>28. CASE ResumeSubmitFails
  BY <1>28 DEF ResumeSubmitFails, NextResume, LastTransfer
<1>29. CASE ResumeCount
  BY <1>29 DEF ResumeCount, NextResume, LastTransfer
<1>30. CASE Stop
  BY <1>30 DEF Stop
<1>31. CASE StopCancel
  BY <1>31 DEF StopCancel, CancelAll
<1>32. ASSUME NEW d \in BOOLEAN, StopDrained(d) PROVE ClaimIsExclusive'
  BY <1>32 DEF StopDrained
<1>33. CASE StopQueue
  BY <1>33 DEF StopQueue
<1>34. CASE StopFinish
  BY <1>34 DEF StopFinish
<1>35. CASE UNCHANGED vars
  BY <1>35
<1>36. QED
  BY <1>1, <1>2, <1>3, <1>4, <1>5, <1>6, <1>7, <1>8, <1>9, <1>10, <1>11,
     <1>12, <1>13, <1>14, <1>15, <1>16, <1>17, <1>18, <1>19, <1>20, <1>21,
     <1>22, <1>23, <1>24, <1>25, <1>26, <1>27, <1>28, <1>29, <1>30, <1>31,
     <1>32, <1>33, <1>34, <1>35 DEF Next, Callback, Worker, Control

\* Transfers in use keep a buffer.
LEMMA StepBuffers == TypeOK /\ Flow /\ [Next]_vars => BuffersPresent'
<1> SUFFICES ASSUME TypeOK /\ Flow, [Next]_vars PROVE BuffersPresent'
  OBVIOUS
<1> USE PoolAssumption DEF BuffersPresent, CallbackHolds, NotYetStarted,
        NoBuf, Buf, TypeOK, StepTypes, PoolTypes, Flow, UrbState, Status,
        CtlStep, CbStep, Urb, NoUrb, Holding, Untouched, vars, flags, pool,
        control, handler, worker, life, history
<1>1. ASSUME NEW u \in Urb, NEW s \in Status, HcComplete(u, s) PROVE BuffersPresent'
  BY <1>1 DEF HcComplete, Status
<1>2. ASSUME NEW u \in Urb, CbStart(u) PROVE BuffersPresent'
  BY <1>2 DEF CbStart, AfterStatus, Status
<1>3. CASE CbQueue
  BY <1>3 DEF CbQueue
<1>4. CASE CbLoad
  BY <1>4 DEF CbLoad
<1>5. CASE CbSwap
  BY <1>5, PopShape DEF CbSwap, StoreFreeList
<1>6. CASE CbCheck
  BY <1>6 DEF CbCheck
<1>7. CASE CbSubmit
  BY <1>7 DEF CbSubmit
<1>8. CASE CbSubmitFails
  BY <1>8 DEF CbSubmitFails
<1>9. CASE CbRetire
  BY <1>9 DEF CbRetire
<1>10. CASE CbDecrement
  BY <1>10 DEF CbDecrement
<1>11. CASE WkPop
  BY <1>11, HeadTailProperties DEF WkPop
<1>12. CASE WkParse
  BY <1>12 DEF WkParse
<1>13. CASE WkPush
  BY <1>13 DEF WkPush, StoreFreeList
<1>14. CASE WkExit
  BY <1>14 DEF WkExit
<1>15. CASE StartLoad
  BY <1>15 DEF StartLoad
<1>16. CASE StartNoBuffer
  BY <1>16 DEF StartNoBuffer
<1>17. CASE StartSubmit
  BY <1>17, PopShape DEF StartSubmit, StartTake, StoreFreeList
<1>18. CASE StartSubmitFails
  <2>1. /\ transferBuf' = [transferBuf EXCEPT ![ci] = Final(ctlSnap)]
        /\ UNCHANGED <<urb, cbUrb, wk, wkBuf>>
        /\ ctl' \in {"run", "take"}
    BY <1>18 DEF StartSubmitFails, StartTake, NextStart
  <2>2. Final(ctlSnap) # NoBuf
    BY <1>18, PopShape DEF StartSubmitFails
  <2>3. transferBuf'[1] # NoBuf
    BY <1>18, <2>1, <2>2 DEF StartSubmitFails
  <2> QED
    BY <2>1, <2>2, <2>3
<1>19. CASE StartMark
  BY <1>19 DEF StartMark
<1>20. CASE StartCount
  BY <1>20 DEF StartCount, NextStart
<1>21. CASE Pause
  BY <1>21 DEF Pause
<1>22. CASE PauseCancel
  BY <1>22 DEF PauseCancel, CancelAll
<1>23. ASSUME NEW d \in BOOLEAN, PauseDrained(d) PROVE BuffersPresent'
  BY <1>23 DEF PauseDrained
<1>24. CASE Resume
  BY <1>24 DEF Resume
<1>25. CASE ResumeSkip
  BY <1>25 DEF ResumeSkip, NextResume, LastTransfer
<1>26. CASE ResumeClaim
  BY <1>26 DEF ResumeClaim
<1>27. CASE ResumeSubmit
  BY <1>27 DEF ResumeSubmit
<1>28. CASE ResumeSubmitFails
  BY <1>28 DEF ResumeSubmitFails, NextResume, LastTransfer
<1>29. CASE ResumeCount
  BY <1>29 DEF ResumeCount, NextResume, LastTransfer
<1>30. CASE Stop
  BY <1>30 DEF Stop
<1>31. CASE StopCancel
  BY <1>31 DEF StopCancel, CancelAll
<1>32. ASSUME NEW d \in BOOLEAN, StopDrained(d) PROVE BuffersPresent'
  BY <1>32 DEF StopDrained
<1>33. CASE StopQueue
  BY <1>33 DEF StopQueue
<1>34. CASE StopFinish
  BY <1>34 DEF StopFinish
<1>35. CASE UNCHANGED vars
  BY <1>35
<1>36. QED
  BY <1>1, <1>2, <1>3, <1>4, <1>5, <1>6, <1>7, <1>8, <1>9, <1>10, <1>11,
     <1>12, <1>13, <1>14, <1>15, <1>16, <1>17, <1>18, <1>19, <1>20, <1>21,
     <1>22, <1>23, <1>24, <1>25, <1>26, <1>27, <1>28, <1>29, <1>30, <1>31,
     <1>32, <1>33, <1>34, <1>35 DEF Next, Callback, Worker, Control

\* Owned depends on urb alone.
LEMMA OwnedSame == urb' = urb => Owned' = Owned
BY DEF Owned

\* The transfers libusb holds can be counted.
LEMMA OwnedFinite == IsFiniteSet(Owned) /\ Cardinality(Owned) \in Nat
<1>1. IsFiniteSet(Urb)
  BY PoolAssumption, FS_Interval DEF Urb
<1>2. Owned \in SUBSET Urb
  BY DEF Owned
<1> QED
  BY <1>1, <1>2, FS_Subset, FS_CardinalityType

\* When the counter has fallen to zero, libusb holds nothing: what the drain
\* loops of pauseAsyncRx and stopAsyncRx rely on.
LEMMA IdleWhenZero ==
  ASSUME InflightExact, inflight <= 0, ctl \notin {"mark", "count", "recount"}
  PROVE  Owned = {} /\ cb = "none"
<1>1. Cardinality(Owned) = 0 /\ cb = "none"
  BY OwnedFinite DEF InflightExact
<1> QED
  BY <1>1, OwnedFinite, FS_EmptySet

\* inflight keeps agreeing with the transfers libusb holds.
LEMMA StepInflight == TypeOK /\ Flow /\ InflightExact /\ [Next]_vars => InflightExact'
<1> SUFFICES ASSUME TypeOK /\ Flow /\ InflightExact, [Next]_vars PROVE InflightExact'
  OBVIOUS
<1> USE DEF TypeOK, StepTypes, UrbState, Status, CtlStep, CbStep, vars,
        flags, pool, control, handler, worker, life, history
<1>1. ASSUME NEW u \in Urb, NEW s \in Status, HcComplete(u, s) PROVE InflightExact'
  <2>1. Owned' = Owned
    BY <1>1 DEF HcComplete, Status, Owned
  <2> QED
    BY <1>1, <2>1, OwnedFinite DEF HcComplete, InflightExact
<1>2. ASSUME NEW u \in Urb, CbStart(u) PROVE InflightExact'
  <2>1. u \in Owned /\ Owned' = Owned \ {u}
    BY <1>2 DEF CbStart, Owned
  <2>2. Cardinality(Owned') = Cardinality(Owned) - 1
    BY <2>1, OwnedFinite, FS_RemoveElement
  <2>3. cb = "none" /\ cb' # "none"
    BY <1>2 DEF CbStart, AfterStatus
  <2> QED
    BY <1>2, <2>2, <2>3, OwnedFinite DEF CbStart, InflightExact
<1>3. CASE CbQueue
  BY <1>3, OwnedSame, OwnedFinite DEF CbQueue, InflightExact
<1>4. CASE CbLoad
  BY <1>4, OwnedSame, OwnedFinite DEF CbLoad, InflightExact
<1>5. CASE CbSwap
  BY <1>5, OwnedSame, OwnedFinite DEF CbSwap, StoreFreeList, InflightExact
<1>6. CASE CbCheck
  BY <1>6, OwnedSame, OwnedFinite DEF CbCheck, InflightExact
<1>7. CASE CbSubmit
  <2>1. cbUrb \notin Owned /\ Owned' = Owned \cup {cbUrb}
    BY <1>7 DEF CbSubmit, Flow, CallbackHolds, Holding, NoUrb, Owned
  <2>2. Cardinality(Owned') = Cardinality(Owned) + 1
    BY <2>1, OwnedFinite, FS_AddElement
  <2> QED
    BY <1>7, <2>2, OwnedFinite DEF CbSubmit, InflightExact
<1>8. CASE CbSubmitFails
  BY <1>8, OwnedSame, OwnedFinite DEF CbSubmitFails, InflightExact
<1>9. CASE CbRetire
  BY <1>9, OwnedSame, OwnedFinite DEF CbRetire, InflightExact
<1>10. CASE CbDecrement
  BY <1>10, OwnedSame, OwnedFinite DEF CbDecrement, InflightExact
<1>11. CASE WkPop
  BY <1>11, OwnedSame, OwnedFinite DEF WkPop, InflightExact
<1>12. CASE WkParse
  BY <1>12, OwnedSame, OwnedFinite DEF WkParse, InflightExact
<1>13. CASE WkPush
  BY <1>13, OwnedSame, OwnedFinite DEF WkPush, StoreFreeList, InflightExact
<1>14. CASE WkExit
  BY <1>14, OwnedSame, OwnedFinite DEF WkExit, InflightExact
<1>15. CASE StartLoad
  BY <1>15, OwnedSame, OwnedFinite DEF StartLoad, InflightExact
<1>16. CASE StartNoBuffer
  BY <1>16, OwnedSame, OwnedFinite DEF StartNoBuffer, InflightExact
<1>17. CASE StartSubmit
  <2>1. ci \notin Owned /\ Owned' = Owned \cup {ci}
    BY <1>17 DEF StartSubmit, StartTake, StoreFreeList, Flow, NotYetStarted, Untouched, Owned, Urb
  <2>2. Cardinality(Owned') = Cardinality(Owned) + 1
    BY <2>1, OwnedFinite, FS_AddElement
  <2> QED
    BY <1>17, <2>2, OwnedFinite DEF StartSubmit, InflightExact
<1>18. CASE StartSubmitFails
  BY <1>18, OwnedSame, OwnedFinite DEF StartSubmitFails, StartTake,
     StoreFreeList, NextStart, InflightExact
<1>19. CASE StartMark
  BY <1>19, OwnedSame, OwnedFinite DEF StartMark, InflightExact
<1>20. CASE StartCount
  BY <1>20, OwnedSame, OwnedFinite DEF StartCount, NextStart, InflightExact
<1>21. CASE Pause
  BY <1>21, OwnedSame, OwnedFinite DEF Pause, InflightExact
<1>22. CASE PauseCancel
  <2>1. Owned' = Owned
    BY <1>22 DEF PauseCancel, CancelAll, Owned
  <2> QED
    BY <1>22, <2>1, OwnedFinite DEF PauseCancel, InflightExact
<1>23. ASSUME NEW d \in BOOLEAN, PauseDrained(d) PROVE InflightExact'
  BY <1>23, OwnedSame, OwnedFinite DEF PauseDrained, InflightExact
<1>24. CASE Resume
  BY <1>24, OwnedSame, OwnedFinite DEF Resume, InflightExact
<1>25. CASE ResumeSkip
  BY <1>25, OwnedSame, OwnedFinite DEF ResumeSkip, NextResume, LastTransfer,
     InflightExact
<1>26. CASE ResumeClaim
  BY <1>26, OwnedSame, OwnedFinite DEF ResumeClaim, InflightExact
<1>27. CASE ResumeSubmit
  <2>1. ci \notin Owned /\ Owned' = Owned \cup {ci}
    BY <1>27 DEF ResumeSubmit, Flow, ClaimIsExclusive, Owned
  <2>2. Cardinality(Owned') = Cardinality(Owned) + 1
    BY <2>1, OwnedFinite, FS_AddElement
  <2> QED
    BY <1>27, <2>2, OwnedFinite DEF ResumeSubmit, InflightExact
<1>28. CASE ResumeSubmitFails
  BY <1>28, OwnedSame, OwnedFinite DEF ResumeSubmitFails, NextResume,
     LastTransfer, InflightExact
<1>29. CASE ResumeCount
  BY <1>29, OwnedSame, OwnedFinite DEF ResumeCount, NextResume,
     LastTransfer, InflightExact
<1>30. CASE Stop
  BY <1>30, OwnedSame, OwnedFinite DEF Stop, InflightExact
<1>31. CASE StopCancel
  <2>1. Owned' = Owned
    BY <1>31 DEF StopCancel, CancelAll, Owned
  <2> QED
    BY <1>31, <2>1, OwnedFinite DEF StopCancel, InflightExact
<1>32. ASSUME NEW d \in BOOLEAN, StopDrained(d) PROVE InflightExact'
  BY <1>32, OwnedSame, OwnedFinite DEF StopDrained, InflightExact
<1>33. CASE StopQueue
  BY <1>33, OwnedSame, OwnedFinite DEF StopQueue, InflightExact
<1>34. CASE StopFinish
  BY <1>34, OwnedSame, OwnedFinite DEF StopFinish, InflightExact
<1>35. CASE UNCHANGED vars
  BY <1>35, OwnedSame DEF InflightExact
<1>36. QED
  BY <1>1, <1>2, <1>3, <1>4, <1>5, <1>6, <1>7, <1>8, <1>9, <1>10, <1>11,
     <1>12, <1>13, <1>14, <1>15, <1>16, <1>17, <1>18, <1>19, <1>20, <1>21,
     <1>22, <1>23, <1>24, <1>25, <1>26, <1>27, <1>28, <1>29, <1>30, <1>31,
     <1>32, <1>33, <1>34, <1>35 DEF Next, Callback, Worker, Control

\* A drained pool stays quiet, and freed transfers stay idle.
LEMMA StepQuiet == IInv /\ [Next]_vars => (QuietAfterDrain /\ FreedOnlyWhenIdle)'
<1> SUFFICES ASSUME IInv, [Next]_vars PROVE (QuietAfterDrain /\ FreedOnlyWhenIdle)'
  OBVIOUS
<1> USE DEF IInv, TypeOK, StepTypes, Flow, Status, CtlStep, CbStep, vars,
        flags, pool, control, handler, worker, life, history
<1>1. ASSUME NEW u \in Urb, NEW s \in Status, HcComplete(u, s) PROVE (QuietAfterDrain /\ FreedOnlyWhenIdle)'
  <2>1. Owned' = Owned
    BY <1>1 DEF HcComplete, Status, Owned
  <2> QED
    BY <1>1, <2>1 DEF HcComplete, QuietAfterDrain, FreedOnlyWhenIdle, Owned
<1>2. ASSUME NEW u \in Urb, CbStart(u) PROVE (QuietAfterDrain /\ FreedOnlyWhenIdle)'
  BY <1>2 DEF CbStart, QuietAfterDrain, FreedOnlyWhenIdle, Owned
<1>3. CASE CbQueue
  BY <1>3, OwnedSame DEF CbQueue, QuietAfterDrain, FreedOnlyWhenIdle
<1>4. CASE CbLoad
  BY <1>4, OwnedSame DEF CbLoad, QuietAfterDrain, FreedOnlyWhenIdle
<1>5. CASE CbSwap
  BY <1>5, OwnedSame DEF CbSwap, StoreFreeList, QuietAfterDrain,
     FreedOnlyWhenIdle
<1>6. CASE CbCheck
  BY <1>6, OwnedSame DEF CbCheck, QuietAfterDrain, FreedOnlyWhenIdle
<1>7. CASE CbSubmit
  BY <1>7 DEF CbSubmit, QuietAfterDrain, FreedOnlyWhenIdle, FlagsFollowControl
<1>8. CASE CbSubmitFails
  BY <1>8, OwnedSame DEF CbSubmitFails, QuietAfterDrain, FreedOnlyWhenIdle
<1>9. CASE CbRetire
  BY <1>9, OwnedSame DEF CbRetire, QuietAfterDrain, FreedOnlyWhenIdle
<1>10. CASE CbDecrement
  BY <1>10, OwnedSame DEF CbDecrement, QuietAfterDrain, FreedOnlyWhenIdle
<1>11. CASE WkPop
  BY <1>11, OwnedSame DEF WkPop, QuietAfterDrain, FreedOnlyWhenIdle
<1>12. CASE WkParse
  BY <1>12, OwnedSame DEF WkParse, QuietAfterDrain, FreedOnlyWhenIdle
<1>13. CASE WkPush
  BY <1>13, OwnedSame DEF WkPush, StoreFreeList, QuietAfterDrain,
     FreedOnlyWhenIdle
<1>14. CASE WkExit
  BY <1>14, OwnedSame DEF WkExit, QuietAfterDrain, FreedOnlyWhenIdle
<1>15. CASE StartLoad
  BY <1>15, OwnedSame DEF StartLoad, QuietAfterDrain, FreedOnlyWhenIdle
<1>16. CASE StartNoBuffer
  BY <1>16, OwnedSame DEF StartNoBuffer, QuietAfterDrain, FreedOnlyWhenIdle
<1>17. CASE StartSubmit
  BY <1>17 DEF StartSubmit, QuietAfterDrain, FreedOnlyWhenIdle, FlagsFollowControl
<1>18. CASE StartSubmitFails
  BY <1>18, OwnedSame DEF StartSubmitFails, StartTake, StoreFreeList,
     NextStart, QuietAfterDrain, FreedOnlyWhenIdle
<1>19. CASE StartMark
  BY <1>19, OwnedSame DEF StartMark, QuietAfterDrain, FreedOnlyWhenIdle
<1>20. CASE StartCount
  BY <1>20, OwnedSame DEF StartCount, NextStart, QuietAfterDrain,
     FreedOnlyWhenIdle
<1>21. CASE Pause
  BY <1>21, OwnedSame DEF Pause, QuietAfterDrain, FreedOnlyWhenIdle
<1>22. CASE PauseCancel
  <2>1. Owned' = Owned
    BY <1>22 DEF PauseCancel, CancelAll, Owned
  <2> QED
    BY <1>22, <2>1 DEF PauseCancel, QuietAfterDrain, FreedOnlyWhenIdle, Owned
<1>23. ASSUME NEW d \in BOOLEAN, PauseDrained(d) PROVE (QuietAfterDrain /\ FreedOnlyWhenIdle)'
  BY <1>23, OwnedSame, IdleWhenZero DEF PauseDrained, QuietAfterDrain,
     FreedOnlyWhenIdle
<1>24. CASE Resume
  BY <1>24, OwnedSame DEF Resume, QuietAfterDrain, FreedOnlyWhenIdle
<1>25. CASE ResumeSkip
  BY <1>25, OwnedSame DEF ResumeSkip, NextResume, LastTransfer,
     QuietAfterDrain, FreedOnlyWhenIdle
<1>26. CASE ResumeClaim
  BY <1>26, OwnedSame DEF ResumeClaim, QuietAfterDrain, FreedOnlyWhenIdle
<1>27. CASE ResumeSubmit
  BY <1>27 DEF ResumeSubmit, QuietAfterDrain, FreedOnlyWhenIdle, FlagsFollowControl
<1>28. CASE ResumeSubmitFails
  BY <1>28, OwnedSame DEF ResumeSubmitFails, NextResume, LastTransfer,
     QuietAfterDrain, FreedOnlyWhenIdle
<1>29. CASE ResumeCount
  BY <1>29, OwnedSame DEF ResumeCount, NextResume, LastTransfer,
     QuietAfterDrain, FreedOnlyWhenIdle
<1>30. CASE Stop
  BY <1>30, OwnedSame DEF Stop, QuietAfterDrain, FreedOnlyWhenIdle
<1>31. CASE StopCancel
  <2>1. Owned' = Owned
    BY <1>31 DEF StopCancel, CancelAll, Owned
  <2> QED
    BY <1>31, <2>1 DEF StopCancel, QuietAfterDrain, FreedOnlyWhenIdle, Owned
<1>32. ASSUME NEW d \in BOOLEAN, StopDrained(d) PROVE (QuietAfterDrain /\ FreedOnlyWhenIdle)'
  BY <1>32, OwnedSame DEF StopDrained, QuietAfterDrain, FreedOnlyWhenIdle
<1>33. CASE StopQueue
  BY <1>33, OwnedSame DEF StopQueue, QuietAfterDrain, FreedOnlyWhenIdle
<1>34. CASE StopFinish
  BY <1>34, OwnedSame, IdleWhenZero DEF StopFinish, QuietAfterDrain,
     FreedOnlyWhenIdle
<1>35. CASE UNCHANGED vars
  BY <1>35, OwnedSame DEF QuietAfterDrain, FreedOnlyWhenIdle
<1>36. QED
  BY <1>1, <1>2, <1>3, <1>4, <1>5, <1>6, <1>7, <1>8, <1>9, <1>10, <1>11,
     <1>12, <1>13, <1>14, <1>15, <1>16, <1>17, <1>18, <1>19, <1>20, <1>21,
     <1>22, <1>23, <1>24, <1>25, <1>26, <1>27, <1>28, <1>29, <1>30, <1>31,
     <1>32, <1>33, <1>34, <1>35 DEF Next, Callback, Worker, Control

\* The invariant holds when startAsyncRx begins.
LEMMA InitIInv == Init => IInv
<1> SUFFICES ASSUME Init PROVE IInv
  OBVIOUS
<1> USE PoolAssumption DEF Init
<1>1. freeList \in Seq(Buf) /\ freeList # <<>>
  BY DEF Buf
<1>2. TypeOK
  <2>1. FlagTypes
    BY DEF FlagTypes
  <2>2. PoolTypes
    BY <1>1 DEF PoolTypes
  <2>3. StepTypes
    BY DEF StepTypes, UrbState, CtlStep, CbStep, WkStep, Urb
  <2> QED
    BY <2>1, <2>2, <2>3 DEF TypeOK
<1>3. Flow
  BY <1>1 DEF Flow, FlagsFollowControl, CallbackHolds, NotYetStarted,
     SubmittedCovers, ClaimIsExclusive, BuffersPresent, Holding, Untouched,
     Urb, NoUrb
<1>4. Owned = {}
  BY DEF Owned
<1>5. InflightExact
  BY <1>4, FS_EmptySet DEF InflightExact
<1>6. QuietAfterDrain /\ FreedOnlyWhenIdle
  BY DEF QuietAfterDrain, FreedOnlyWhenIdle
<1> QED
  BY <1>2, <1>3, <1>5, <1>6 DEF IInv

\* IInv is inductive.
LEMMA StepIInv == IInv /\ [Next]_vars => IInv'
<1> SUFFICES ASSUME IInv, [Next]_vars PROVE IInv'
  OBVIOUS
<1>1. TypeOK'
  BY StepFlagTypes, StepPoolTypes, StepStepTypes DEF IInv, TypeOK
<1>2. Flow'
  BY StepFlags, StepCallback, StepStarting, StepSubmitted, StepClaim,
     StepBuffers DEF IInv, Flow
<1>3. InflightExact'
  BY StepInflight DEF IInv
<1>4. (QuietAfterDrain /\ FreedOnlyWhenIdle)'
  BY StepQuiet
<1> QED
  BY <1>1, <1>2, <1>3, <1>4 DEF IInv

\* IInv holds throughout every run of the pool.
THEOREM Inductive == Spec => []IInv
BY InitIInv, StepIInv, PTL DEF Spec

\* The pool's state keeps its types: in particular every transfer libusb is
\* given reads into a buffer of the pool.
THEOREM TypeCorrect == Spec => []TypeOK
<1>1. IInv => TypeOK
  BY DEF IInv
<1> QED
  BY <1>1, Inductive, PTL

\* inflight never drifts from the number of transfers libusb holds, so the
\* drain loops of pauseAsyncRx and stopAsyncRx wait for exactly those.
THEOREM CounterExact == Spec => []InflightExact
<1>1. IInv => InflightExact
  BY DEF IInv
<1> QED
  BY <1>1, Inductive, PTL

\* start, resume and the callback never submit a transfer libusb already has.
THEOREM SubmitsOnce == Spec => []NoDoubleSubmit
<1>1. IInv => NoDoubleSubmit
  BY PoolAssumption DEF IInv, TypeOK, StepTypes, Flow, CallbackHolds,
     NotYetStarted, ClaimIsExclusive, NoDoubleSubmit, Holding, Untouched, Urb,
     NoUrb
<1> QED
  BY <1>1, Inductive, PTL

\* A pause that ended with inflight = 0 leaves the bus silent until resume.
THEOREM DrainedIsQuiet == Spec => []QuietAfterDrain
<1>1. IInv => QuietAfterDrain
  BY DEF IInv
<1> QED
  BY <1>1, Inductive, PTL

\* stopAsyncRx never frees a transfer libusb still holds.
THEOREM NoFreeInFlight == Spec => []FreedOnlyWhenIdle
<1>1. IInv => FreedOnlyWhenIdle
  BY DEF IInv
<1> QED
  BY <1>1, Inductive, PTL


-----------------------------------------------------------------------------
(***************************************************************************)
(* Ownership of the buffers.  What each vector operation of the code does  *)
(* to the contents of a list whose elements are all different.             *)
(***************************************************************************)
\* back() and pop_back() move the last buffer out of the list.
LEMMA PopMoves ==
  ASSUME NEW s \in Seq(Buf), s # <<>>, Distinct(s)
  PROVE  /\ Distinct(AllButLast(s))
         /\ Range(AllButLast(s)) \subseteq Range(s)
         /\ Final(s) \in Range(s)
         /\ Final(s) \notin Range(AllButLast(s))
<1>1. Len(s) \in Nat /\ Len(s) > 0 /\ DOMAIN s = 1 .. Len(s)
  OBVIOUS
<1>2. /\ DOMAIN AllButLast(s) = 1 .. Len(s) - 1
      /\ \A i \in 1 .. Len(s) - 1 : AllButLast(s)[i] = s[i]
  BY <1>1 DEF AllButLast
<1> QED
  BY <1>1, <1>2 DEF Distinct, Range, Final

\* push_back() adds a buffer that was not in the list.
LEMMA PushMoves ==
  ASSUME NEW s \in Seq(Buf), NEW b \in Buf
  PROVE  /\ Range(Append(s, b)) = Range(s) \cup {b}
         /\ Distinct(s) /\ b \notin Range(s) => Distinct(Append(s, b))
<1>1. /\ Len(s) \in Nat /\ DOMAIN s = 1 .. Len(s)
      /\ DOMAIN Append(s, b) = 1 .. Len(s) + 1
      /\ \A i \in 1 .. Len(s) : Append(s, b)[i] = s[i]
      /\ Append(s, b)[Len(s) + 1] = b
  OBVIOUS
<1>2. Range(Append(s, b)) = Range(s) \cup {b}
  BY <1>1 DEF Range
<1>3. ASSUME Distinct(s), b \notin Range(s) PROVE Distinct(Append(s, b))
  BY <1>1, <1>3 DEF Distinct, Range
<1> QED
  BY <1>2, <1>3

\* front() and pop() move the first buffer out of the queue.
LEMMA HeadMoves ==
  ASSUME NEW s \in Seq(Buf), s # <<>>, Distinct(s)
  PROVE  /\ Distinct(Tail(s))
         /\ Range(Tail(s)) \subseteq Range(s)
         /\ Head(s) \in Range(s)
         /\ Head(s) \notin Range(Tail(s))
<1>1. /\ Len(s) \in Nat /\ Len(s) > 0 /\ DOMAIN s = 1 .. Len(s)
      /\ Head(s) = s[1]
      /\ DOMAIN Tail(s) = 1 .. Len(s) - 1
      /\ \A i \in 1 .. Len(s) - 1 : Tail(s)[i] = s[i + 1]
  OBVIOUS
<1> QED
  BY <1>1 DEF Distinct, Range

\* Recycling the queue appends disjoint lists.
LEMMA ConcatMoves ==
  ASSUME NEW s \in Seq(Buf), NEW q \in Seq(Buf)
  PROVE  /\ Range(s \o q) = Range(s) \cup Range(q)
         /\ Distinct(s) /\ Distinct(q) /\ Range(s) \cap Range(q) = {}
              => Distinct(s \o q)
<1>1. /\ Len(s) \in Nat /\ DOMAIN s = 1 .. Len(s)
      /\ Len(q) \in Nat /\ DOMAIN q = 1 .. Len(q)
      /\ DOMAIN (s \o q) = 1 .. Len(s) + Len(q)
      /\ \A i \in 1 .. Len(s) : (s \o q)[i] = s[i]
      /\ \A i \in Len(s) + 1 .. Len(s) + Len(q) : (s \o q)[i] = q[i - Len(s)]
  OBVIOUS
<1>2. \A i \in Len(s) + 1 .. Len(s) + Len(q) : i - Len(s) \in DOMAIN q
  BY <1>1
<1>3. \A j \in DOMAIN q : /\ j + Len(s) \in Len(s) + 1 .. Len(s) + Len(q)
                          /\ (s \o q)[j + Len(s)] = q[j]
  BY <1>1
<1>4. \A i \in DOMAIN s : i \in DOMAIN (s \o q)
  BY <1>1
<1>5. \A j \in DOMAIN q : j + Len(s) \in DOMAIN (s \o q)
  BY <1>1
<1>6. \A i \in DOMAIN (s \o q) :
        i \in DOMAIN s \/ i \in Len(s) + 1 .. Len(s) + Len(q)
  BY <1>1
<1>7. Range(s \o q) = Range(s) \cup Range(q)
  BY <1>1, <1>2, <1>3, <1>4, <1>5, <1>6 DEF Range
<1>8. ASSUME Distinct(s), Distinct(q), Range(s) \cap Range(q) = {},
             NEW i \in DOMAIN (s \o q), NEW j \in DOMAIN (s \o q),
             (s \o q)[i] = (s \o q)[j]
      PROVE  i = j
  <2>1. CASE i \in DOMAIN s /\ j \in DOMAIN s
    BY <1>1, <1>8, <2>1 DEF Distinct
  <2>2. CASE i \notin DOMAIN s /\ j \notin DOMAIN s
    BY <1>1, <1>2, <1>6, <1>8, <2>2 DEF Distinct
  <2>3. CASE i \in DOMAIN s /\ j \notin DOMAIN s
    BY <1>1, <1>2, <1>6, <1>8, <2>3 DEF Range
  <2>4. CASE i \notin DOMAIN s /\ j \in DOMAIN s
    BY <1>1, <1>2, <1>6, <1>8, <2>4 DEF Range
  <2> QED
    BY <2>1, <2>2, <2>3, <2>4
<1> QED
  BY <1>7, <1>8 DEF Distinct

\* A step that moves no buffer, and ends no exchange, keeps the owners.
LEMMA OwnersKept ==
  ASSUME ExclusiveOwner, alive' => alive,
         UNCHANGED <<freeList, queue, wkBuf, transferBuf>>,
         \A u \in Urb : Swapping(u) => Swapping(u)'
  PROVE  ExclusiveOwner'
BY DEF ExclusiveOwner, Distinct, Range

\* Once a callback found the list empty, or a push overlapped a pop, that
\* stays recorded.
LEMMA HistoryKept ==
  [Next]_vars => (degraded => degraded') /\ (raced => raced')
<1> SUFFICES ASSUME [Next]_vars
             PROVE  (degraded => degraded') /\ (raced => raced')
  OBVIOUS
<1> USE DEF vars, flags, pool, control, handler, worker, life, history
<1>1. ASSUME NEW u \in Urb, NEW s \in Status, HcComplete(u, s) PROVE (degraded => degraded') /\ (raced => raced')
  BY <1>1 DEF HcComplete, Status
<1>2. ASSUME NEW u \in Urb, CbStart(u) PROVE (degraded => degraded') /\ (raced => raced')
  BY <1>2 DEF CbStart, AfterStatus, Status
<1>3. CASE CbQueue
  BY <1>3 DEF CbQueue
<1>4. CASE CbLoad
  BY <1>4 DEF CbLoad
<1>5. CASE CbSwap
  BY <1>5 DEF CbSwap, StoreFreeList
<1>6. CASE CbCheck
  BY <1>6 DEF CbCheck
<1>7. CASE CbSubmit
  BY <1>7 DEF CbSubmit
<1>8. CASE CbSubmitFails
  BY <1>8 DEF CbSubmitFails
<1>9. CASE CbRetire
  BY <1>9 DEF CbRetire
<1>10. CASE CbDecrement
  BY <1>10 DEF CbDecrement
<1>11. CASE WkPop
  BY <1>11 DEF WkPop
<1>12. CASE WkParse
  BY <1>12 DEF WkParse
<1>13. CASE WkPush
  BY <1>13 DEF WkPush, StoreFreeList
<1>14. CASE WkExit
  BY <1>14 DEF WkExit
<1>15. CASE StartLoad
  BY <1>15 DEF StartLoad
<1>16. CASE StartNoBuffer
  BY <1>16 DEF StartNoBuffer
<1>17. CASE StartSubmit
  BY <1>17 DEF StartSubmit, StartTake, StoreFreeList
<1>18. CASE StartSubmitFails
  BY <1>18 DEF StartSubmitFails, StartTake, StoreFreeList, NextStart
<1>19. CASE StartMark
  BY <1>19 DEF StartMark
<1>20. CASE StartCount
  BY <1>20 DEF StartCount, NextStart
<1>21. CASE Pause
  BY <1>21 DEF Pause
<1>22. CASE PauseCancel
  BY <1>22 DEF PauseCancel, CancelAll
<1>23. ASSUME NEW d \in BOOLEAN, PauseDrained(d) PROVE (degraded => degraded') /\ (raced => raced')
  BY <1>23 DEF PauseDrained
<1>24. CASE Resume
  BY <1>24 DEF Resume
<1>25. CASE ResumeSkip
  BY <1>25 DEF ResumeSkip, NextResume, LastTransfer
<1>26. CASE ResumeClaim
  BY <1>26 DEF ResumeClaim
<1>27. CASE ResumeSubmit
  BY <1>27 DEF ResumeSubmit
<1>28. CASE ResumeSubmitFails
  BY <1>28 DEF ResumeSubmitFails, NextResume, LastTransfer
<1>29. CASE ResumeCount
  BY <1>29 DEF ResumeCount, NextResume, LastTransfer
<1>30. CASE Stop
  BY <1>30 DEF Stop
<1>31. CASE StopCancel
  BY <1>31 DEF StopCancel, CancelAll
<1>32. ASSUME NEW d \in BOOLEAN, StopDrained(d) PROVE (degraded => degraded') /\ (raced => raced')
  BY <1>32 DEF StopDrained
<1>33. CASE StopQueue
  BY <1>33 DEF StopQueue
<1>34. CASE StopFinish
  BY <1>34 DEF StopFinish
<1>35. CASE UNCHANGED vars
  BY <1>35
<1>36. QED
  BY <1>1, <1>2, <1>3, <1>4, <1>5, <1>6, <1>7, <1>8, <1>9, <1>10, <1>11,
     <1>12, <1>13, <1>14, <1>15, <1>16, <1>17, <1>18, <1>19, <1>20, <1>21,
     <1>22, <1>23, <1>24, <1>25, <1>26, <1>27, <1>28, <1>29, <1>30, <1>31,
     <1>32, <1>33, <1>34, <1>35 DEF Next, Callback, Worker, Control

\* Every free buffer is a buffer of the pool, so it is not NoBuf.
LEMMA FreeIsBuffer ==
  ASSUME NEW s \in Seq(Buf) PROVE NoBuf \notin Range(s)
<1>1. \A i \in DOMAIN s : s[i] \in Buf
  OBVIOUS
<1>2. NoBuf \notin Buf
  BY PoolAssumption DEF NoBuf, Buf
<1> QED
  BY <1>1, <1>2 DEF Range

\* The pop of startAsyncRx, or of the callback that exchanges its buffer,
\* moves the last free buffer to transfer t.
LEMMA PopKeepsOwners ==
  ASSUME ExclusiveOwner, NEW t \in Urb, alive' = alive,
         transferBuf \in [Urb -> Buf \cup {NoBuf}],
         freeList \in Seq(Buf), freeList # <<>>,
         queue' = queue, wkBuf' = wkBuf,
         freeList' = AllButLast(freeList),
         transferBuf' = [transferBuf EXCEPT ![t] = Final(freeList)],
         \A u \in Urb \ {t} : Swapping(u) => Swapping(u)'
  PROVE  ExclusiveOwner'
<1> SUFFICES ASSUME alive PROVE ExclusiveOwner'
  BY DEF ExclusiveOwner
<1> DEFINE b == Final(freeList)
<1>1. /\ Distinct(AllButLast(freeList))
      /\ Range(AllButLast(freeList)) \subseteq Range(freeList)
      /\ b \in Range(freeList)
      /\ b \notin Range(AllButLast(freeList))
  BY PopMoves DEF ExclusiveOwner
<1>2. b \notin Range(queue) /\ b # wkBuf
  BY <1>1 DEF ExclusiveOwner
<1>3. \A u \in Urb \ {t} : ~Swapping(u) => transferBuf[u] # b
  BY <1>1, FreeIsBuffer DEF ExclusiveOwner
<1> HIDE DEF b, Swapping
<1>4. transferBuf'[t] = b /\ \A u \in Urb \ {t} : transferBuf'[u] = transferBuf[u]
  BY DEF b
<1> QED
  BY <1>1, <1>2, <1>3, <1>4 DEF ExclusiveOwner

\* The owners stay exclusive as long as no callback finds the list empty and
\* no push overlaps a pop.
LEMMA StepOwner ==
  ASSUME IInv, ExclusiveOwner, [Next]_vars, ~degraded', ~raced'
  PROVE  ExclusiveOwner'
<1> USE DEF Swapping, vars, flags, pool, control, handler, worker, life,
        history
<1>1. ASSUME NEW u \in Urb, NEW s \in Status, HcComplete(u, s) PROVE ExclusiveOwner'
  BY <1>1, OwnersKept DEF HcComplete, Status
<1>2. ASSUME NEW u \in Urb, CbStart(u) PROVE ExclusiveOwner'
  BY <1>2, OwnersKept DEF CbStart, AfterStatus, Status
<1>3. CASE CbQueue
  <2> DEFINE b == transferBuf[cbUrb]
  <2>1. /\ cbUrb \in Urb /\ b \in Buf /\ b # NoBuf /\ ~Swapping(cbUrb)
        /\ \A u \in Urb : ~Swapping(u)
    BY <1>3 DEF CbQueue, IInv, TypeOK, StepTypes, PoolTypes, Flow,
       CallbackHolds, BuffersPresent
  <2>2. /\ queue \in Seq(Buf) /\ alive' = alive
        /\ freeList' = freeList /\ wkBuf' = wkBuf
        /\ transferBuf' = transferBuf /\ queue' = Append(queue, b)
    BY <1>3 DEF CbQueue, IInv, TypeOK, PoolTypes
  <2>3. Swapping(cbUrb)' /\ \A u \in Urb : ~Swapping(u)' => u # cbUrb
    BY <1>3 DEF CbQueue
  <2> HIDE DEF b, Swapping
  <2>4. ASSUME alive PROVE ExclusiveOwner'
    <3>1. /\ b \notin Range(freeList) \cup Range(queue) \cup {wkBuf}
          /\ \A v \in Urb \ {cbUrb} : transferBuf[v] # b
      BY <2>1, <2>4 DEF ExclusiveOwner, b
    <3>2. /\ Range(Append(queue, b)) = Range(queue) \cup {b}
          /\ Distinct(Append(queue, b))
      BY <2>1, <2>2, <2>4, <3>1, PushMoves DEF ExclusiveOwner
    <3> QED
      BY <2>1, <2>2, <2>3, <2>4, <3>1, <3>2 DEF ExclusiveOwner
  <2> QED
    BY <2>2, <2>4 DEF ExclusiveOwner
<1>4. CASE CbLoad
  <2>1. \A u \in Urb : Swapping(u) => Swapping(u)'
    BY <1>4 DEF CbLoad
  <2> QED
    BY <1>4, <2>1, OwnersKept DEF CbLoad
<1>5. CASE CbSwap
  <2>1. /\ freeList \in Seq(Buf) /\ freeList # <<>> /\ cbSnap = freeList
        /\ transferBuf \in [Urb -> Buf \cup {NoBuf}] /\ cbUrb \in Urb
    BY <1>5 DEF CbSwap, StoreFreeList, IInv, TypeOK, PoolTypes, StepTypes, Flow,
       CallbackHolds
  <2>2. \A u \in Urb \ {cbUrb} : Swapping(u) => Swapping(u)'
    BY <1>5 DEF CbSwap
  <2>3. /\ queue' = queue /\ wkBuf' = wkBuf /\ alive' = alive
        /\ freeList' = AllButLast(freeList)
        /\ transferBuf' = [transferBuf EXCEPT ![cbUrb] = Final(freeList)]
    BY <1>5, <2>1 DEF CbSwap, StoreFreeList
  <2> HIDE DEF Swapping
  <2> QED
    BY <2>1, <2>2, <2>3, PopKeepsOwners
<1>6. CASE CbCheck
  BY <1>6, OwnersKept DEF CbCheck
<1>7. CASE CbSubmit
  BY <1>7, OwnersKept DEF CbSubmit
<1>8. CASE CbSubmitFails
  BY <1>8, OwnersKept DEF CbSubmitFails
<1>9. CASE CbRetire
  BY <1>9, OwnersKept DEF CbRetire
<1>10. CASE CbDecrement
  BY <1>10, OwnersKept DEF CbDecrement
<1>11. CASE WkPop
  <2>1. /\ queue \in Seq(Buf) /\ queue # <<>> /\ wkBuf' = Head(queue)
        /\ queue' = Tail(queue) /\ freeList' = freeList /\ alive' = alive
        /\ transferBuf' = transferBuf
        /\ \A u \in Urb : Swapping(u)' = Swapping(u)
    BY <1>11 DEF WkPop, IInv, TypeOK, PoolTypes
  <2> HIDE DEF Swapping
  <2>2. ASSUME alive PROVE ExclusiveOwner'
    <3>1. /\ Distinct(Tail(queue)) /\ Range(Tail(queue)) \subseteq Range(queue)
          /\ Head(queue) \in Range(queue)
          /\ Head(queue) \notin Range(Tail(queue))
      BY <2>1, <2>2, HeadMoves DEF ExclusiveOwner
    <3> QED
      BY <2>1, <2>2, <3>1 DEF ExclusiveOwner
  <2> QED
    BY <2>1, <2>2 DEF ExclusiveOwner
<1>12. CASE WkParse
  BY <1>12, OwnersKept DEF WkParse
<1>13. CASE WkPush
  <2>1. /\ freeList \in Seq(Buf) /\ wkBuf \in Buf /\ wkSnap = freeList
        /\ queue \in Seq(Buf) /\ wkBuf' = NoBuf /\ queue' = queue
        /\ freeList' = Append(freeList, wkBuf) /\ alive' = alive
        /\ transferBuf' = transferBuf
        /\ \A u \in Urb : Swapping(u)' = Swapping(u)
    BY <1>13 DEF WkPush, StoreFreeList, IInv, TypeOK, PoolTypes, Flow,
       BuffersPresent
  <2> HIDE DEF Swapping
  <2>2. ASSUME alive PROVE ExclusiveOwner'
    <3>1. /\ Range(Append(freeList, wkBuf)) = Range(freeList) \cup {wkBuf}
          /\ Distinct(Append(freeList, wkBuf))
      BY <2>1, <2>2, PushMoves DEF ExclusiveOwner
    <3>2. NoBuf \notin Range(freeList) \cup Range(queue) \cup {wkBuf}
      BY <2>1, FreeIsBuffer, PoolAssumption DEF NoBuf, Buf
    <3> QED
      BY <2>1, <2>2, <3>1, <3>2 DEF ExclusiveOwner
  <2> QED
    BY <2>1, <2>2 DEF ExclusiveOwner
<1>14. CASE WkExit
  BY <1>14, OwnersKept DEF WkExit
<1>15. CASE StartLoad
  BY <1>15, OwnersKept DEF StartLoad
<1>16. CASE StartNoBuffer
  BY <1>16, OwnersKept DEF StartNoBuffer
<1>17. CASE StartSubmit
  <2>1. /\ freeList \in Seq(Buf) /\ freeList # <<>> /\ ctlSnap = freeList
        /\ transferBuf \in [Urb -> Buf \cup {NoBuf}] /\ ci \in Urb
    BY <1>17 DEF StartSubmit, StartTake, StoreFreeList, IInv, TypeOK, PoolTypes,
       StepTypes, Flow, NotYetStarted
  <2>2. \A u \in Urb \ {ci} : Swapping(u) => Swapping(u)'
    BY <1>17 DEF StartSubmit
  <2>3. /\ queue' = queue /\ wkBuf' = wkBuf /\ alive' = alive
        /\ freeList' = AllButLast(freeList)
        /\ transferBuf' = [transferBuf EXCEPT ![ci] = Final(freeList)]
    BY <1>17, <2>1 DEF StartSubmit, StartTake, StoreFreeList
  <2> HIDE DEF Swapping
  <2> QED
    BY <2>1, <2>2, <2>3, PopKeepsOwners
<1>18. CASE StartSubmitFails
  <2>1. /\ freeList \in Seq(Buf) /\ freeList # <<>> /\ ctlSnap = freeList
        /\ transferBuf \in [Urb -> Buf \cup {NoBuf}] /\ ci \in Urb
    BY <1>18 DEF StartSubmitFails, StartTake, StoreFreeList, IInv, TypeOK, PoolTypes,
       StepTypes, Flow, NotYetStarted
  <2>2. \A u \in Urb \ {ci} : Swapping(u) => Swapping(u)'
    BY <1>18 DEF StartSubmitFails
  <2>3. /\ queue' = queue /\ wkBuf' = wkBuf /\ alive' = alive
        /\ freeList' = AllButLast(freeList)
        /\ transferBuf' = [transferBuf EXCEPT ![ci] = Final(freeList)]
    BY <1>18, <2>1 DEF StartSubmitFails, StartTake, StoreFreeList
  <2> HIDE DEF Swapping
  <2> QED
    BY <2>1, <2>2, <2>3, PopKeepsOwners
<1>19. CASE StartMark
  BY <1>19, OwnersKept DEF StartMark
<1>20. CASE StartCount
  BY <1>20, OwnersKept DEF StartCount, NextStart
<1>21. CASE Pause
  BY <1>21, OwnersKept DEF Pause
<1>22. CASE PauseCancel
  BY <1>22, OwnersKept DEF PauseCancel, CancelAll
<1>23. ASSUME NEW d \in BOOLEAN, PauseDrained(d) PROVE ExclusiveOwner'
  BY <1>23, OwnersKept DEF PauseDrained
<1>24. CASE Resume
  BY <1>24, OwnersKept DEF Resume
<1>25. CASE ResumeSkip
  BY <1>25, OwnersKept DEF ResumeSkip, NextResume, LastTransfer
<1>26. CASE ResumeClaim
  BY <1>26, OwnersKept DEF ResumeClaim
<1>27. CASE ResumeSubmit
  BY <1>27, OwnersKept DEF ResumeSubmit
<1>28. CASE ResumeSubmitFails
  BY <1>28, OwnersKept DEF ResumeSubmitFails, NextResume, LastTransfer
<1>29. CASE ResumeCount
  BY <1>29, OwnersKept DEF ResumeCount, NextResume, LastTransfer
<1>30. CASE Stop
  BY <1>30, OwnersKept DEF Stop
<1>31. CASE StopCancel
  BY <1>31, OwnersKept DEF StopCancel, CancelAll
<1>32. ASSUME NEW d \in BOOLEAN, StopDrained(d) PROVE ExclusiveOwner'
  BY <1>32, OwnersKept DEF StopDrained
<1>33. CASE StopQueue
  <2>1. /\ freeList \in Seq(Buf) /\ queue \in Seq(Buf) /\ queue' = <<>>
        /\ freeList' = freeList \o queue /\ wkBuf' = wkBuf /\ alive' = alive
        /\ transferBuf' = transferBuf
        /\ \A u \in Urb : Swapping(u)' = Swapping(u)
    BY <1>33 DEF StopQueue, IInv, TypeOK, PoolTypes
  <2> HIDE DEF Swapping
  <2>2. Range(<<>>) = {} /\ Distinct(<<>>)
    BY DEF Range, Distinct
  <2>3. ASSUME alive PROVE ExclusiveOwner'
    <3>1. /\ Range(freeList \o queue) = Range(freeList) \cup Range(queue)
          /\ Distinct(freeList \o queue)
      BY <2>1, <2>3, ConcatMoves DEF ExclusiveOwner
    <3> QED
      BY <2>1, <2>2, <2>3, <3>1 DEF ExclusiveOwner
  <2> QED
    BY <2>1, <2>3 DEF ExclusiveOwner
<1>34. CASE StopFinish
  BY <1>34 DEF StopFinish, ExclusiveOwner
<1>35. CASE UNCHANGED vars
  BY <1>35, OwnersKept
<1>36. QED
  BY <1>1, <1>2, <1>3, <1>4, <1>5, <1>6, <1>7, <1>8, <1>9, <1>10, <1>11,
     <1>12, <1>13, <1>14, <1>15, <1>16, <1>17, <1>18, <1>19, <1>20, <1>21,
     <1>22, <1>23, <1>24, <1>25, <1>26, <1>27, <1>28, <1>29, <1>30, <1>31,
     <1>32, <1>33, <1>34, <1>35 DEF Next, Callback, Worker, Control

\* Every buffer has one owner - the free list, the queue, the worker or one
\* transfer - until a callback finds the free list empty or a push of the
\* worker overlaps a pop: those two are the only ways the unlocked pops of
\* apfpv_async_rx_cb and startAsyncRx can share a buffer.
THEOREM OwnersExclusive == Spec => []OwnerUnlessDegraded
<1>1. Init => OwnerUnlessDegraded
  BY PoolAssumption DEF Init, OwnerUnlessDegraded, ExclusiveOwner, Distinct,
     Range, Buf, NoBuf
<1>2. IInv /\ OwnerUnlessDegraded /\ [Next]_vars => OwnerUnlessDegraded'
  <2> SUFFICES ASSUME IInv, OwnerUnlessDegraded, [Next]_vars,
                      ~degraded', ~raced'
               PROVE  ExclusiveOwner'
    BY DEF OwnerUnlessDegraded
  <2>1. ExclusiveOwner
    BY HistoryKept, Zenon DEF OwnerUnlessDegraded
  <2> QED
    BY <2>1, StepOwner
<1> QED
  BY <1>1, <1>2, Inductive, PTL DEF Spec

-----------------------------------------------------------------------------
(***************************************************************************)
(* The pool stays armed: AInv is inductive on top of IInv.                 *)
(***************************************************************************)
\* A pause that ended at its deadline stays recorded.
LEMMA LateKept == [Next]_vars => (lateDrain => lateDrain')
<1> SUFFICES ASSUME [Next]_vars PROVE lateDrain => lateDrain'
  OBVIOUS
<1> USE DEF vars, flags, pool, control, handler, worker, life, history
<1>1. ASSUME NEW u \in Urb, NEW s \in Status, HcComplete(u, s) PROVE lateDrain => lateDrain'
  BY <1>1 DEF HcComplete, Status
<1>2. ASSUME NEW u \in Urb, CbStart(u) PROVE lateDrain => lateDrain'
  BY <1>2 DEF CbStart, AfterStatus, Status
<1>3. CASE CbQueue
  BY <1>3 DEF CbQueue
<1>4. CASE CbLoad
  BY <1>4 DEF CbLoad
<1>5. CASE CbSwap
  BY <1>5 DEF CbSwap, StoreFreeList
<1>6. CASE CbCheck
  BY <1>6 DEF CbCheck
<1>7. CASE CbSubmit
  BY <1>7 DEF CbSubmit
<1>8. CASE CbSubmitFails
  BY <1>8 DEF CbSubmitFails
<1>9. CASE CbRetire
  BY <1>9 DEF CbRetire
<1>10. CASE CbDecrement
  BY <1>10 DEF CbDecrement
<1>11. CASE WkPop
  BY <1>11 DEF WkPop
<1>12. CASE WkParse
  BY <1>12 DEF WkParse
<1>13. CASE WkPush
  BY <1>13 DEF WkPush, StoreFreeList
<1>14. CASE WkExit
  BY <1>14 DEF WkExit
<1>15. CASE StartLoad
  BY <1>15 DEF StartLoad
<1>16. CASE StartNoBuffer
  BY <1>16 DEF StartNoBuffer
<1>17. CASE StartSubmit
  BY <1>17 DEF StartSubmit, StartTake, StoreFreeList
<1>18. CASE StartSubmitFails
  BY <1>18 DEF StartSubmitFails, StartTake, StoreFreeList, NextStart
<1>19. CASE StartMark
  BY <1>19 DEF StartMark
<1>20. CASE StartCount
  BY <1>20 DEF StartCount, NextStart
<1>21. CASE Pause
  BY <1>21 DEF Pause
<1>22. CASE PauseCancel
  BY <1>22 DEF PauseCancel, CancelAll
<1>23. ASSUME NEW d \in BOOLEAN, PauseDrained(d) PROVE lateDrain => lateDrain'
  BY <1>23 DEF PauseDrained
<1>24. CASE Resume
  BY <1>24 DEF Resume
<1>25. CASE ResumeSkip
  BY <1>25 DEF ResumeSkip, NextResume, LastTransfer
<1>26. CASE ResumeClaim
  BY <1>26 DEF ResumeClaim
<1>27. CASE ResumeSubmit
  BY <1>27 DEF ResumeSubmit
<1>28. CASE ResumeSubmitFails
  BY <1>28 DEF ResumeSubmitFails, NextResume, LastTransfer
<1>29. CASE ResumeCount
  BY <1>29 DEF ResumeCount, NextResume, LastTransfer
<1>30. CASE Stop
  BY <1>30 DEF Stop
<1>31. CASE StopCancel
  BY <1>31 DEF StopCancel, CancelAll
<1>32. ASSUME NEW d \in BOOLEAN, StopDrained(d) PROVE lateDrain => lateDrain'
  BY <1>32 DEF StopDrained
<1>33. CASE StopQueue
  BY <1>33 DEF StopQueue
<1>34. CASE StopFinish
  BY <1>34 DEF StopFinish
<1>35. CASE UNCHANGED vars
  BY <1>35
<1>36. QED
  BY <1>1, <1>2, <1>3, <1>4, <1>5, <1>6, <1>7, <1>8, <1>9, <1>10, <1>11,
     <1>12, <1>13, <1>14, <1>15, <1>16, <1>17, <1>18, <1>19, <1>20, <1>21,
     <1>22, <1>23, <1>24, <1>25, <1>26, <1>27, <1>28, <1>29, <1>30, <1>31,
     <1>32, <1>33, <1>34, <1>35 DEF Next, Callback, Worker, Control

\* A transfer without a buffer, and all after it, are excused.
LEMMA StepGiven == ASSUME IInv, BuffersGiven, [Next]_vars PROVE BuffersGiven'
<1> USE PoolAssumption DEF BuffersGiven, IInv, TypeOK, StepTypes, PoolTypes,
        CtlStep, Urb, NoBuf, vars, flags, pool, control, handler,
        worker, life, history
<1>1. ASSUME NEW u \in Urb, NEW s \in Status, HcComplete(u, s) PROVE BuffersGiven'
  BY <1>1 DEF HcComplete, Status
<1>2. ASSUME NEW u \in Urb, CbStart(u) PROVE BuffersGiven'
  BY <1>2 DEF CbStart, AfterStatus, Status
<1>3. CASE CbQueue
  BY <1>3 DEF CbQueue
<1>4. CASE CbLoad
  BY <1>4 DEF CbLoad
<1>5. CASE CbSwap
  <2>1. Final(cbSnap) \in Buf
    BY <1>5, PopShape DEF CbSwap, Flow, CallbackHolds
  <2>2. Final(cbSnap) # NoBuf
    BY <2>1 DEF Buf, NoBuf
  <2>3. \A u \in Urb : transferBuf'[u] = IF u = cbUrb THEN Final(cbSnap) ELSE transferBuf[u]
    BY <1>5 DEF CbSwap
  <2> HIDE DEF PoolTypes
  <2> QED
    BY <1>5, <2>2, <2>3 DEF CbSwap
<1>6. CASE CbCheck
  BY <1>6 DEF CbCheck
<1>7. CASE CbSubmit
  BY <1>7 DEF CbSubmit
<1>8. CASE CbSubmitFails
  BY <1>8 DEF CbSubmitFails
<1>9. CASE CbRetire
  BY <1>9 DEF CbRetire
<1>10. CASE CbDecrement
  BY <1>10 DEF CbDecrement
<1>11. CASE WkPop
  BY <1>11 DEF WkPop
<1>12. CASE WkParse
  BY <1>12 DEF WkParse
<1>13. CASE WkPush
  BY <1>13 DEF WkPush, StoreFreeList
<1>14. CASE WkExit
  BY <1>14 DEF WkExit
<1>15. CASE StartLoad
  BY <1>15 DEF StartLoad
<1>16. CASE StartNoBuffer
  BY <1>16 DEF StartNoBuffer
<1>17. CASE StartSubmit
  <2>1. Final(ctlSnap) \in Buf
    BY <1>17, PopShape DEF StartSubmit, Flow, NotYetStarted
  <2>2. Final(ctlSnap) # NoBuf
    BY <2>1 DEF Buf, NoBuf
  <2>3. \A u \in Urb : transferBuf'[u] = IF u = ci THEN Final(ctlSnap) ELSE transferBuf[u]
    BY <1>17 DEF StartSubmit, StartTake
  <2> HIDE DEF PoolTypes
  <2> QED
    BY <1>17, <2>2, <2>3 DEF StartSubmit, StartTake
<1>18. CASE StartSubmitFails
  <2>1. Final(ctlSnap) \in Buf
    BY <1>18, PopShape DEF StartSubmitFails, Flow, NotYetStarted
  <2>2. Final(ctlSnap) # NoBuf
    BY <2>1 DEF Buf, NoBuf
  <2>3. \A u \in Urb : transferBuf'[u] = IF u = ci THEN Final(ctlSnap) ELSE transferBuf[u]
    BY <1>18 DEF StartSubmitFails, StartTake, NextStart
  <2> HIDE DEF PoolTypes
  <2> QED
    BY <1>18, <2>2, <2>3 DEF StartSubmitFails, StartTake, NextStart
<1>19. CASE StartMark
  BY <1>19 DEF StartMark
<1>20. CASE StartCount
  BY <1>20 DEF StartCount, NextStart
<1>21. CASE Pause
  BY <1>21 DEF Pause
<1>22. CASE PauseCancel
  BY <1>22 DEF PauseCancel, CancelAll
<1>23. ASSUME NEW d \in BOOLEAN, PauseDrained(d) PROVE BuffersGiven'
  BY <1>23 DEF PauseDrained
<1>24. CASE Resume
  BY <1>24 DEF Resume
<1>25. CASE ResumeSkip
  BY <1>25 DEF ResumeSkip, NextResume, LastTransfer
<1>26. CASE ResumeClaim
  BY <1>26 DEF ResumeClaim
<1>27. CASE ResumeSubmit
  BY <1>27 DEF ResumeSubmit
<1>28. CASE ResumeSubmitFails
  BY <1>28 DEF ResumeSubmitFails, NextResume, LastTransfer
<1>29. CASE ResumeCount
  BY <1>29 DEF ResumeCount, NextResume, LastTransfer
<1>30. CASE Stop
  BY <1>30 DEF Stop
<1>31. CASE StopCancel
  BY <1>31 DEF StopCancel, CancelAll
<1>32. ASSUME NEW d \in BOOLEAN, StopDrained(d) PROVE BuffersGiven'
  BY <1>32 DEF StopDrained
<1>33. CASE StopQueue
  BY <1>33 DEF StopQueue
<1>34. CASE StopFinish
  BY <1>34 DEF StopFinish
<1>35. CASE UNCHANGED vars
  BY <1>35
<1>36. QED
  BY <1>1, <1>2, <1>3, <1>4, <1>5, <1>6, <1>7, <1>8, <1>9, <1>10, <1>11,
     <1>12, <1>13, <1>14, <1>15, <1>16, <1>17, <1>18, <1>19, <1>20, <1>21,
     <1>22, <1>23, <1>24, <1>25, <1>26, <1>27, <1>28, <1>29, <1>30, <1>31,
     <1>32, <1>33, <1>34, <1>35 DEF Next, Callback, Worker, Control

\* The cancellations of a pause are over when it has drained.
LEMMA StepCancels ==
  ASSUME IInv, CancelsDrained, [Next]_vars, ~lateDrain'
  PROVE  CancelsDrained'
<1> USE DEF CancelsDrained, RxOn, vars, flags, pool, control, handler, worker,
        life, history
<1>1. ASSUME NEW u \in Urb, NEW s \in Status, HcComplete(u, s) PROVE CancelsDrained'
  BY <1>1 DEF HcComplete, Status
<1>2. ASSUME NEW u \in Urb, CbStart(u) PROVE CancelsDrained'
  BY <1>2 DEF CbStart, AfterStatus, Status
<1>3. CASE CbQueue
  BY <1>3 DEF CbQueue
<1>4. CASE CbLoad
  BY <1>4 DEF CbLoad
<1>5. CASE CbSwap
  BY <1>5 DEF CbSwap, StoreFreeList
<1>6. CASE CbCheck
  BY <1>6 DEF CbCheck
<1>7. CASE CbSubmit
  BY <1>7 DEF CbSubmit
<1>8. CASE CbSubmitFails
  BY <1>8 DEF CbSubmitFails
<1>9. CASE CbRetire
  BY <1>9 DEF CbRetire
<1>10. CASE CbDecrement
  BY <1>10 DEF CbDecrement
<1>11. CASE WkPop
  BY <1>11 DEF WkPop
<1>12. CASE WkParse
  BY <1>12 DEF WkParse
<1>13. CASE WkPush
  BY <1>13 DEF WkPush, StoreFreeList
<1>14. CASE WkExit
  BY <1>14 DEF WkExit
<1>15. CASE StartLoad
  BY <1>15 DEF StartLoad
<1>16. CASE StartNoBuffer
  BY <1>16 DEF StartNoBuffer
<1>17. CASE StartSubmit
  BY <1>17 DEF StartSubmit, StartTake, StoreFreeList
<1>18. CASE StartSubmitFails
  BY <1>18 DEF StartSubmitFails, StartTake, StoreFreeList, NextStart
<1>19. CASE StartMark
  BY <1>19 DEF StartMark
<1>20. CASE StartCount
  BY <1>20 DEF StartCount, NextStart
<1>21. CASE Pause
  BY <1>21 DEF Pause
<1>22. CASE PauseCancel
  BY <1>22 DEF PauseCancel, CancelAll
<1>23. ASSUME NEW d \in BOOLEAN, PauseDrained(d) PROVE CancelsDrained'
  BY <1>23 DEF PauseDrained
<1>24. CASE Resume
  BY <1>24 DEF Resume, IInv, QuietAfterDrain, Owned
<1>25. CASE ResumeSkip
  BY <1>25 DEF ResumeSkip, NextResume, LastTransfer
<1>26. CASE ResumeClaim
  BY <1>26 DEF ResumeClaim
<1>27. CASE ResumeSubmit
  BY <1>27 DEF ResumeSubmit
<1>28. CASE ResumeSubmitFails
  BY <1>28 DEF ResumeSubmitFails, NextResume, LastTransfer
<1>29. CASE ResumeCount
  BY <1>29 DEF ResumeCount, NextResume, LastTransfer
<1>30. CASE Stop
  BY <1>30 DEF Stop
<1>31. CASE StopCancel
  BY <1>31 DEF StopCancel, CancelAll
<1>32. ASSUME NEW d \in BOOLEAN, StopDrained(d) PROVE CancelsDrained'
  BY <1>32 DEF StopDrained
<1>33. CASE StopQueue
  BY <1>33 DEF StopQueue
<1>34. CASE StopFinish
  BY <1>34 DEF StopFinish
<1>35. CASE UNCHANGED vars
  BY <1>35
<1>36. QED
  BY <1>1, <1>2, <1>3, <1>4, <1>5, <1>6, <1>7, <1>8, <1>9, <1>10, <1>11,
     <1>12, <1>13, <1>14, <1>15, <1>16, <1>17, <1>18, <1>19, <1>20, <1>21,
     <1>22, <1>23, <1>24, <1>25, <1>26, <1>27, <1>28, <1>29, <1>30, <1>31,
     <1>32, <1>33, <1>34, <1>35 DEF Next, Callback, Worker, Control

\* A transfer retired while RX is on was lost to the device.
LEMMA StepLoss ==
  ASSUME IInv, CancelsDrained, LossExcused, [Next]_vars
  PROVE  LossExcused'
<1> USE DEF LossExcused, RxOn, vars, flags, pool, control, handler, worker,
        life, history
<1>1. ASSUME NEW u \in Urb, NEW s \in Status, HcComplete(u, s) PROVE LossExcused'
  BY <1>1 DEF HcComplete, Status
<1>2. ASSUME NEW u \in Urb, CbStart(u) PROVE LossExcused'
  BY <1>2 DEF CbStart, AfterStatus, Status, CancelsDrained
<1>3. CASE CbQueue
  BY <1>3 DEF CbQueue
<1>4. CASE CbLoad
  BY <1>4 DEF CbLoad
<1>5. CASE CbSwap
  BY <1>5 DEF CbSwap, StoreFreeList
<1>6. CASE CbCheck
  BY <1>6 DEF CbCheck, IInv, Flow, FlagsFollowControl
<1>7. CASE CbSubmit
  BY <1>7 DEF CbSubmit
<1>8. CASE CbSubmitFails
  BY <1>8 DEF CbSubmitFails
<1>9. CASE CbRetire
  BY <1>9 DEF CbRetire
<1>10. CASE CbDecrement
  BY <1>10 DEF CbDecrement
<1>11. CASE WkPop
  BY <1>11 DEF WkPop
<1>12. CASE WkParse
  BY <1>12 DEF WkParse
<1>13. CASE WkPush
  BY <1>13 DEF WkPush, StoreFreeList
<1>14. CASE WkExit
  BY <1>14 DEF WkExit
<1>15. CASE StartLoad
  BY <1>15 DEF StartLoad
<1>16. CASE StartNoBuffer
  BY <1>16 DEF StartNoBuffer
<1>17. CASE StartSubmit
  BY <1>17 DEF StartSubmit, StartTake, StoreFreeList
<1>18. CASE StartSubmitFails
  BY <1>18 DEF StartSubmitFails, StartTake, StoreFreeList, NextStart
<1>19. CASE StartMark
  BY <1>19 DEF StartMark
<1>20. CASE StartCount
  BY <1>20 DEF StartCount, NextStart
<1>21. CASE Pause
  BY <1>21 DEF Pause
<1>22. CASE PauseCancel
  BY <1>22 DEF PauseCancel, CancelAll
<1>23. ASSUME NEW d \in BOOLEAN, PauseDrained(d) PROVE LossExcused'
  BY <1>23 DEF PauseDrained
<1>24. CASE Resume
  BY <1>24 DEF Resume, IInv, QuietAfterDrain, CancelsDrained
<1>25. CASE ResumeSkip
  BY <1>25 DEF ResumeSkip, NextResume, LastTransfer
<1>26. CASE ResumeClaim
  BY <1>26 DEF ResumeClaim
<1>27. CASE ResumeSubmit
  BY <1>27 DEF ResumeSubmit
<1>28. CASE ResumeSubmitFails
  BY <1>28 DEF ResumeSubmitFails, NextResume, LastTransfer
<1>29. CASE ResumeCount
  BY <1>29 DEF ResumeCount, NextResume, LastTransfer
<1>30. CASE Stop
  BY <1>30 DEF Stop
<1>31. CASE StopCancel
  BY <1>31 DEF StopCancel, CancelAll
<1>32. ASSUME NEW d \in BOOLEAN, StopDrained(d) PROVE LossExcused'
  BY <1>32 DEF StopDrained
<1>33. CASE StopQueue
  BY <1>33 DEF StopQueue
<1>34. CASE StopFinish
  BY <1>34 DEF StopFinish
<1>35. CASE UNCHANGED vars
  BY <1>35
<1>36. QED
  BY <1>1, <1>2, <1>3, <1>4, <1>5, <1>6, <1>7, <1>8, <1>9, <1>10, <1>11,
     <1>12, <1>13, <1>14, <1>15, <1>16, <1>17, <1>18, <1>19, <1>20, <1>21,
     <1>22, <1>23, <1>24, <1>25, <1>26, <1>27, <1>28, <1>29, <1>30, <1>31,
     <1>32, <1>33, <1>34, <1>35 DEF Next, Callback, Worker, Control

\* submitted marks nothing that is neither in flight nor in a callback.
LEMMA StepOnly ==
  ASSUME IInv, LossExcused, SubmittedOnly, ArmedSoFar, [Next]_vars
  PROVE  SubmittedOnly'
<1> USE DEF SubmittedOnly, Holding, vars, flags, pool, control, handler,
        worker, life, history
<1>1. ASSUME NEW u \in Urb, NEW s \in Status, HcComplete(u, s) PROVE SubmittedOnly'
  BY <1>1 DEF HcComplete, Status
<1>2. ASSUME NEW u \in Urb, CbStart(u) PROVE SubmittedOnly'
  BY <1>2 DEF CbStart, AfterStatus, Status
<1>3. CASE CbQueue
  BY <1>3 DEF CbQueue
<1>4. CASE CbLoad
  BY <1>4 DEF CbLoad
<1>5. CASE CbSwap
  BY <1>5 DEF CbSwap, StoreFreeList
<1>6. CASE CbCheck
  BY <1>6 DEF CbCheck
<1>7. CASE CbSubmit
  BY <1>7 DEF CbSubmit, IInv, TypeOK, StepTypes
<1>8. CASE CbSubmitFails
  BY <1>8 DEF CbSubmitFails
<1>9. CASE CbRetire
  BY <1>9 DEF CbRetire, IInv, TypeOK, StepTypes
<1>10. CASE CbDecrement
  BY <1>10 DEF CbDecrement
<1>11. CASE WkPop
  BY <1>11 DEF WkPop
<1>12. CASE WkParse
  BY <1>12 DEF WkParse
<1>13. CASE WkPush
  BY <1>13 DEF WkPush, StoreFreeList
<1>14. CASE WkExit
  BY <1>14 DEF WkExit
<1>15. CASE StartLoad
  BY <1>15 DEF StartLoad
<1>16. CASE StartNoBuffer
  BY <1>16 DEF StartNoBuffer
<1>17. CASE StartSubmit
  BY <1>17 DEF StartSubmit, StartTake, StoreFreeList
<1>18. CASE StartSubmitFails
  BY <1>18 DEF StartSubmitFails, StartTake, StoreFreeList, NextStart
<1>19. CASE StartMark
  <2>1. ci \notin excused => urb[ci] # "idle" \/ Holding(ci)
    BY <1>19, PoolAssumption DEF StartMark, IInv, TypeOK, StepTypes, Urb,
       ArmedSoFar, Busy, LossExcused, RxOn
  <2> QED
    BY <1>19, <2>1 DEF StartMark, IInv, TypeOK, StepTypes
<1>20. CASE StartCount
  BY <1>20 DEF StartCount, NextStart
<1>21. CASE Pause
  BY <1>21 DEF Pause
<1>22. CASE PauseCancel
  BY <1>22 DEF PauseCancel, CancelAll
<1>23. ASSUME NEW d \in BOOLEAN, PauseDrained(d) PROVE SubmittedOnly'
  BY <1>23 DEF PauseDrained
<1>24. CASE Resume
  BY <1>24 DEF Resume
<1>25. CASE ResumeSkip
  BY <1>25 DEF ResumeSkip, NextResume, LastTransfer
<1>26. CASE ResumeClaim
  BY <1>26 DEF ResumeClaim
<1>27. CASE ResumeSubmit
  BY <1>27 DEF ResumeSubmit, IInv, TypeOK, StepTypes
<1>28. CASE ResumeSubmitFails
  BY <1>28 DEF ResumeSubmitFails, NextResume, LastTransfer
<1>29. CASE ResumeCount
  BY <1>29 DEF ResumeCount, NextResume, LastTransfer
<1>30. CASE Stop
  BY <1>30 DEF Stop
<1>31. CASE StopCancel
  BY <1>31 DEF StopCancel, CancelAll
<1>32. ASSUME NEW d \in BOOLEAN, StopDrained(d) PROVE SubmittedOnly'
  BY <1>32 DEF StopDrained
<1>33. CASE StopQueue
  BY <1>33 DEF StopQueue
<1>34. CASE StopFinish
  BY <1>34 DEF StopFinish
<1>35. CASE UNCHANGED vars
  BY <1>35
<1>36. QED
  BY <1>1, <1>2, <1>3, <1>4, <1>5, <1>6, <1>7, <1>8, <1>9, <1>10, <1>11,
     <1>12, <1>13, <1>14, <1>15, <1>16, <1>17, <1>18, <1>19, <1>20, <1>21,
     <1>22, <1>23, <1>24, <1>25, <1>26, <1>27, <1>28, <1>29, <1>30, <1>31,
     <1>32, <1>33, <1>34, <1>35 DEF Next, Callback, Worker, Control

\* What resumeAsyncRx has not reached stays unclaimed.
LEMMA StepClaimable ==
  ASSUME IInv, CancelsDrained, SubmittedOnly, StillClaimable, [Next]_vars
  PROVE  StillClaimable'
<1> USE PoolAssumption DEF StillClaimable, IInv, TypeOK, StepTypes, Urb, vars,
        flags, pool, control, handler, worker, life, history
<1>1. ASSUME NEW u \in Urb, NEW s \in Status, HcComplete(u, s) PROVE StillClaimable'
  BY <1>1 DEF HcComplete, Status
<1>2. ASSUME NEW u \in Urb, CbStart(u) PROVE StillClaimable'
  BY <1>2 DEF CbStart, AfterStatus, Status
<1>3. CASE CbQueue
  BY <1>3 DEF CbQueue
<1>4. CASE CbLoad
  BY <1>4 DEF CbLoad
<1>5. CASE CbSwap
  BY <1>5 DEF CbSwap, StoreFreeList
<1>6. CASE CbCheck
  BY <1>6 DEF CbCheck
<1>7. CASE CbSubmit
  BY <1>7 DEF CbSubmit
<1>8. CASE CbSubmitFails
  BY <1>8 DEF CbSubmitFails
<1>9. CASE CbRetire
  BY <1>9 DEF CbRetire
<1>10. CASE CbDecrement
  BY <1>10 DEF CbDecrement
<1>11. CASE WkPop
  BY <1>11 DEF WkPop
<1>12. CASE WkParse
  BY <1>12 DEF WkParse
<1>13. CASE WkPush
  BY <1>13 DEF WkPush, StoreFreeList
<1>14. CASE WkExit
  BY <1>14 DEF WkExit
<1>15. CASE StartLoad
  BY <1>15 DEF StartLoad
<1>16. CASE StartNoBuffer
  BY <1>16 DEF StartNoBuffer
<1>17. CASE StartSubmit
  BY <1>17 DEF StartSubmit, StartTake, StoreFreeList
<1>18. CASE StartSubmitFails
  BY <1>18 DEF StartSubmitFails, StartTake, StoreFreeList, NextStart
<1>19. CASE StartMark
  BY <1>19 DEF StartMark
<1>20. CASE StartCount
  BY <1>20 DEF StartCount, NextStart
<1>21. CASE Pause
  BY <1>21 DEF Pause
<1>22. CASE PauseCancel
  BY <1>22 DEF PauseCancel, CancelAll
<1>23. ASSUME NEW d \in BOOLEAN, PauseDrained(d) PROVE StillClaimable'
  BY <1>23 DEF PauseDrained
<1>24. CASE Resume
  <2>1. \A u \in Urb : urb[u] = "idle" /\ ~Holding(u)
    BY <1>24 DEF Resume, QuietAfterDrain, CancelsDrained, Owned, Holding
  <2> QED
    BY <1>24, <2>1 DEF Resume, SubmittedOnly
<1>25. CASE ResumeSkip
  BY <1>25 DEF ResumeSkip, NextResume, LastTransfer
<1>26. CASE ResumeClaim
  BY <1>26 DEF ResumeClaim
<1>27. CASE ResumeSubmit
  BY <1>27 DEF ResumeSubmit
<1>28. CASE ResumeSubmitFails
  BY <1>28 DEF ResumeSubmitFails, NextResume, LastTransfer
<1>29. CASE ResumeCount
  BY <1>29 DEF ResumeCount, NextResume, LastTransfer
<1>30. CASE Stop
  BY <1>30 DEF Stop
<1>31. CASE StopCancel
  BY <1>31 DEF StopCancel, CancelAll
<1>32. ASSUME NEW d \in BOOLEAN, StopDrained(d) PROVE StillClaimable'
  BY <1>32 DEF StopDrained
<1>33. CASE StopQueue
  BY <1>33 DEF StopQueue
<1>34. CASE StopFinish
  BY <1>34 DEF StopFinish
<1>35. CASE UNCHANGED vars
  BY <1>35
<1>36. QED
  BY <1>1, <1>2, <1>3, <1>4, <1>5, <1>6, <1>7, <1>8, <1>9, <1>10, <1>11,
     <1>12, <1>13, <1>14, <1>15, <1>16, <1>17, <1>18, <1>19, <1>20, <1>21,
     <1>22, <1>23, <1>24, <1>25, <1>26, <1>27, <1>28, <1>29, <1>30, <1>31,
     <1>32, <1>33, <1>34, <1>35 DEF Next, Callback, Worker, Control

\* What start and resume have passed stays armed.
LEMMA StepArmed ==
  ASSUME IInv, BuffersGiven, LossExcused, StillClaimable, ArmedSoFar,
         [Next]_vars
  PROVE  ArmedSoFar'
<1> USE PoolAssumption DEF ArmedSoFar, Busy, IInv, TypeOK, StepTypes, Urb, vars,
        flags, pool, control, handler, worker, life, history
<1>1. ASSUME NEW u \in Urb, NEW s \in Status, HcComplete(u, s) PROVE ArmedSoFar'
  BY <1>1 DEF HcComplete, Status
<1>2. ASSUME NEW u \in Urb, CbStart(u) PROVE ArmedSoFar'
  BY <1>2 DEF CbStart, AfterStatus, Status
<1>3. CASE CbQueue
  BY <1>3 DEF CbQueue
<1>4. CASE CbLoad
  BY <1>4 DEF CbLoad
<1>5. CASE CbSwap
  BY <1>5 DEF CbSwap, StoreFreeList
<1>6. CASE CbCheck
  BY <1>6 DEF CbCheck
<1>7. CASE CbSubmit
  BY <1>7 DEF CbSubmit
<1>8. CASE CbSubmitFails
  BY <1>8 DEF CbSubmitFails
<1>9. CASE CbRetire
  BY <1>9 DEF CbRetire
<1>10. CASE CbDecrement
  BY <1>10 DEF CbDecrement, LossExcused, RxOn
<1>11. CASE WkPop
  BY <1>11 DEF WkPop
<1>12. CASE WkParse
  BY <1>12 DEF WkParse
<1>13. CASE WkPush
  BY <1>13 DEF WkPush, StoreFreeList
<1>14. CASE WkExit
  BY <1>14 DEF WkExit
<1>15. CASE StartLoad
  BY <1>15 DEF StartLoad
<1>16. CASE StartNoBuffer
  BY <1>16 DEF StartNoBuffer
<1>17. CASE StartSubmit
  BY <1>17 DEF StartSubmit, StartTake, StoreFreeList
<1>18. CASE StartSubmitFails
  BY <1>18 DEF StartSubmitFails, StartTake, StoreFreeList, NextStart
<1>19. CASE StartMark
  BY <1>19 DEF StartMark
<1>20. CASE StartCount
  BY <1>20 DEF StartCount, NextStart
<1>21. CASE Pause
  BY <1>21 DEF Pause
<1>22. CASE PauseCancel
  BY <1>22 DEF PauseCancel, CancelAll
<1>23. ASSUME NEW d \in BOOLEAN, PauseDrained(d) PROVE ArmedSoFar'
  BY <1>23 DEF PauseDrained
<1>24. CASE Resume
  BY <1>24 DEF Resume
<1>25. CASE ResumeSkip
  <2>1. ASSUME NEW u \in Urb, u \notin excused, u > ci PROVE ~LastTransfer(ci)
    BY <1>25, <2>1 DEF ResumeSkip, LastTransfer, BuffersGiven
  <2> QED
    BY <1>25, <2>1 DEF ResumeSkip, NextResume, StillClaimable
<1>26. CASE ResumeClaim
  BY <1>26 DEF ResumeClaim
<1>27. CASE ResumeSubmit
  BY <1>27 DEF ResumeSubmit
<1>28. CASE ResumeSubmitFails
  <2>1. ASSUME NEW u \in Urb, u \notin excused, u > ci PROVE ~LastTransfer(ci)
    BY <1>28, <2>1 DEF ResumeSubmitFails, LastTransfer, BuffersGiven
  <2> QED
    BY <1>28, <2>1 DEF ResumeSubmitFails, NextResume, StillClaimable
<1>29. CASE ResumeCount
  <2>1. ASSUME NEW u \in Urb, u \notin excused, u > ci PROVE ~LastTransfer(ci)
    BY <1>29, <2>1 DEF ResumeCount, LastTransfer, BuffersGiven
  <2> QED
    BY <1>29, <2>1 DEF ResumeCount, NextResume, StillClaimable
<1>30. CASE Stop
  BY <1>30 DEF Stop
<1>31. CASE StopCancel
  BY <1>31 DEF StopCancel, CancelAll
<1>32. ASSUME NEW d \in BOOLEAN, StopDrained(d) PROVE ArmedSoFar'
  BY <1>32 DEF StopDrained
<1>33. CASE StopQueue
  BY <1>33 DEF StopQueue
<1>34. CASE StopFinish
  BY <1>34 DEF StopFinish
<1>35. CASE UNCHANGED vars
  BY <1>35
<1>36. QED
  BY <1>1, <1>2, <1>3, <1>4, <1>5, <1>6, <1>7, <1>8, <1>9, <1>10, <1>11,
     <1>12, <1>13, <1>14, <1>15, <1>16, <1>17, <1>18, <1>19, <1>20, <1>21,
     <1>22, <1>23, <1>24, <1>25, <1>26, <1>27, <1>28, <1>29, <1>30, <1>31,
     <1>32, <1>33, <1>34, <1>35 DEF Next, Callback, Worker, Control

\* AInv holds when startAsyncRx begins: it has passed no transfer yet.
LEMMA InitAInv == Init => AInv
<1> SUFFICES ASSUME Init PROVE AInv
  OBVIOUS
<1>1. BuffersGiven
  BY PoolAssumption DEF Init, BuffersGiven, Urb
<1>2. Armed
  BY PoolAssumption DEF Init, Armed, CancelsDrained, LossExcused,
     SubmittedOnly, StillClaimable, ArmedSoFar, RxOn, Urb
<1> QED
  BY <1>1, <1>2 DEF AInv

\* AInv is inductive on top of IInv.
LEMMA StepAInv == IInv /\ AInv /\ [Next]_vars => AInv'
<1> SUFFICES ASSUME IInv, AInv, [Next]_vars PROVE AInv'
  OBVIOUS
<1>1. BuffersGiven'
  BY StepGiven DEF AInv
<1>2. ASSUME ~lateDrain' PROVE Armed'
  <2>1. ~lateDrain
    BY <1>2, LateKept, Zenon
  <2>2. Armed /\ BuffersGiven
    BY <2>1, Zenon DEF AInv
  <2> QED
    BY <1>2, <2>2, StepCancels, StepLoss, StepOnly, StepClaimable, StepArmed
       DEF Armed
<1> QED
  BY <1>1, <1>2, Zenon DEF AInv

\* Between pauses every transfer is armed, unless the device took it away or
\* refused it: as long as each pause drained in time, the resubmissions of
\* resumeAsyncRx and of the callback lose none.
THEOREM PoolStaysArmed == Spec => []PoolArmedIfDrained
<1>1. AInv => PoolArmedIfDrained
  BY DEF AInv, Armed, ArmedSoFar, Busy, PoolArmedIfDrained, PoolArmed
<1> QED
  BY <1>1, InitAInv, StepAInv, Inductive, PTL DEF Spec

=============================================================================
