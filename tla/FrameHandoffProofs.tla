------------------------- MODULE FrameHandoffProofs -------------------------
(***************************************************************************)
(* Proofs about FrameHandoff, for every set of packets, every number of    *)
(* triggers and all bounds: the types, the ownership of the frame slot,    *)
(* the pull chain of the sink, and that the two threads implement the      *)
(* one-frame mailbox; and that no wake-up is lost until a trigger is       *)
(* raised whose source has been deleted.  Each invariant is preserved      *)
(* action by action.                                                       *)
(***************************************************************************)
EXTENDS FrameHandoff, TLAPS

USE NoPacketAssumption, TriggersAssumption, BoundsAssumption
USE DEF slotVars, encVars, trigVars, srcVars, sinkVars, copyVars, workVars, loopVars, AfterCommand

\* The actions one by one.
LEMMA StepCases ==
    ASSUME [Next]_vars
    PROVE  \/ EncStartup \/ EncSpin \/ EncAcquire \/ EncEncode \/ EncSetAddress
           \/ EncSetSize \/ EncSetLock \/ EncUnlock \/ EncReadId \/ EncTrigLoad
           \/ EncTrigStore \/ EncodeFails \/ SelectOther \/ Describe \/ Setup \/ Play
           \/ Teardown \/ CloseDummy \/ DeleteTrigger \/ NoTrigger \/ ClearLoad
           \/ ClearStore \/ DeliverFrame0 \/ DeliverToDangling \/ LockMux
           \/ ReadAddress \/ ReadSize \/ Copy \/ Unlock \/ AfterGetting
           \/ PackOverflow \/ GetNextFrame \/ ReadTwice \/ TrailingClear \/ Return
           \/ SendNext \/ SendNextOfClosed \/ OtherAlarm
           \/ UNCHANGED vars
BY DEF Next, Ended, EncoderStep, LoopStep, SocketStep, TriggerStep, DeliveryStep, AlarmStep

-----------------------------------------------------------------------------
(* Types.                                                                  *)

\* The initial state has the right types.
LEMMA TypeInit == Init => TypeInv
<1>1. Init => Flags
  BY DEF Init, Flags
<1>2. Init => Ranges
  BY DEF Init, Ranges, EncPC, LoopPC, Slots, Pair
<1>3. Init => Room
  BY DEF Init, Room, LoopTaking
<1> QED  BY <1>1, <1>2, <1>3 DEF TypeInv

\* Every step keeps the flags Boolean.
LEMMA FlagStep ==
    ASSUME TypeInv, [Next]_vars
    PROVE  Flags'
<1> USE DEF TypeInv, Flags
<1>1. CASE EncStartup
  BY <1>1 DEF EncStartup, EncGo
<1>2. CASE EncSpin
  BY <1>2 DEF EncSpin, EncGo
<1>3. CASE EncAcquire
  BY <1>3 DEF EncAcquire, EncGo
<1>4. CASE EncEncode
  BY <1>4 DEF EncEncode, EncGo
<1>5. CASE EncSetAddress
  BY <1>5 DEF EncSetAddress, EncGo
<1>6. CASE EncSetSize
  BY <1>6 DEF EncSetSize, EncGo
<1>7. CASE EncSetLock
  BY <1>7 DEF EncSetLock, EncGo
<1>8. CASE EncUnlock
  BY <1>8 DEF EncUnlock, EncGo
<1>9. CASE EncReadId
  BY <1>9 DEF EncReadId, EncGo
<1>10. CASE EncTrigLoad
  BY <1>10 DEF EncTrigLoad, EncGo
<1>11. CASE EncTrigStore
  BY <1>11 DEF EncTrigStore, EncGo
<1>12. CASE EncodeFails
  BY <1>12 DEF EncodeFails, EndsAs
<1>13. CASE SelectOther
  BY <1>13 DEF SelectOther, LoopGo, LoopAt
<1>14. CASE Describe
  BY <1>14 DEF Describe, LoopGo, LoopAt, NewSource
<1>15. CASE Setup
  BY <1>15 DEF Setup, LoopGo, LoopAt, NewSource
<1>16. CASE Play
  BY <1>16 DEF Play, LoopGo, LoopAt
<1>17. CASE Teardown
  BY <1>17 DEF Teardown, LoopGo, LoopAt, CloseSource
<1>18. CASE CloseDummy
  BY <1>18 DEF CloseDummy, LoopGo, LoopAt, CloseSource
<1>19. CASE DeleteTrigger
  BY <1>19 DEF DeleteTrigger, LoopGo, LoopAt
<1>20. CASE NoTrigger
  BY <1>20 DEF NoTrigger, LoopGo, LoopAt
<1>21. CASE ClearLoad
  BY <1>21 DEF ClearLoad, LoopGo, LoopAt
<1>22. CASE ClearStore
  BY <1>22 DEF ClearStore, LoopGo, LoopAt
<1>23. CASE DeliverFrame0
  BY <1>23 DEF DeliverFrame0, LoopGo, LoopAt
<1>24. CASE DeliverToDangling
  BY <1>24 DEF DeliverToDangling, EndsAs
<1>25. CASE LockMux
  BY <1>25 DEF LockMux, LoopGo, LoopAt
<1>26. CASE ReadAddress
  BY <1>26 DEF ReadAddress, LoopGo, LoopAt
<1>27. CASE ReadSize
  BY <1>27 DEF ReadSize, LoopGo, LoopAt
<1>28. CASE Copy
  BY <1>28 DEF Copy, LoopGo, LoopAt
<1>29. CASE Unlock
  BY <1>29 DEF Unlock, LoopGo, LoopAt
<1>30. CASE AfterGetting
  BY <1>30 DEF AfterGetting, LoopAt, SendOrPack
<1>31. CASE PackOverflow
  BY <1>31 DEF PackOverflow, LoopAt, SendOrPack
<1>32. CASE GetNextFrame
  BY <1>32 DEF GetNextFrame, LoopGo, LoopAt
<1>33. CASE ReadTwice
  BY <1>33 DEF ReadTwice, EndsAs
<1>34. CASE TrailingClear
  BY <1>34 DEF TrailingClear, LoopGo, LoopAt
<1>35. CASE Return
  BY <1>35 DEF Return, LoopGo, LoopAt
<1>36. CASE SendNext
  BY <1>36 DEF SendNext, LoopGo, LoopAt
<1>37. CASE SendNextOfClosed
  BY <1>37 DEF SendNextOfClosed, EndsAs
<1>38. CASE OtherAlarm
  BY <1>38 DEF OtherAlarm, LoopGo, LoopAt
<1>39. CASE UNCHANGED vars
  BY <1>39 DEF vars
<1>40. QED
  BY StepCases, <1>1, <1>2, <1>3, <1>4, <1>5, <1>6, <1>7, <1>8, <1>9, <1>10,
     <1>11, <1>12, <1>13, <1>14, <1>15, <1>16, <1>17, <1>18, <1>19, <1>20,
     <1>21, <1>22, <1>23, <1>24, <1>25, <1>26, <1>27, <1>28, <1>29, <1>30,
     <1>31, <1>32, <1>33, <1>34, <1>35, <1>36, <1>37, <1>38, <1>39

\* Every step keeps the other types, given room.
LEMMA RangeStep ==
    ASSUME TypeInv, [Next]_vars
    PROVE  Ranges'
<1> USE DEF TypeInv, Ranges, Room, EncPC, LoopPC, Slots, LoopTaking
<1>1. CASE EncStartup
  BY <1>1 DEF EncStartup, EncGo
<1>2. CASE EncSpin
  BY <1>2 DEF EncSpin, EncGo
<1>3. CASE EncAcquire
  BY <1>3 DEF EncAcquire, EncGo
<1>4. CASE EncEncode
  BY <1>4 DEF EncEncode, EncGo
<1>5. CASE EncSetAddress
  BY <1>5 DEF EncSetAddress, EncGo
<1>6. CASE EncSetSize
  BY <1>6 DEF EncSetSize, EncGo
<1>7. CASE EncSetLock
  BY <1>7 DEF EncSetLock, EncGo
<1>8. CASE EncUnlock
  BY <1>8 DEF EncUnlock, EncGo
<1>9. CASE EncReadId
  BY <1>9 DEF EncReadId, EncGo
<1>10. CASE EncTrigLoad
  BY <1>10 DEF EncTrigLoad, EncGo
<1>11. CASE EncTrigStore
  BY <1>11 DEF EncTrigStore, EncGo
<1>12. CASE EncodeFails
  BY <1>12 DEF EncodeFails, EndsAs
<1>13. CASE SelectOther
  BY <1>13 DEF SelectOther, LoopGo, LoopAt
<1>14. CASE Describe
  BY <1>14 DEF Describe, LoopGo, LoopAt, NewSource, NextSlot
<1>15. CASE Setup
  BY <1>15 DEF Setup, LoopGo, LoopAt, NewSource, NextSlot
<1>16. CASE Play
  BY <1>16 DEF Play, LoopGo, LoopAt
<1>17. CASE Teardown
  BY <1>17 DEF Teardown, LoopGo, LoopAt, CloseSource
<1>18. CASE CloseDummy
  BY <1>18 DEF CloseDummy, LoopGo, LoopAt, CloseSource
<1>19. CASE DeleteTrigger
  BY <1>19 DEF DeleteTrigger, LoopGo, LoopAt
<1>20. CASE NoTrigger
  BY <1>20 DEF NoTrigger, LoopGo, LoopAt
<1>21. CASE ClearLoad
  BY <1>21 DEF ClearLoad, LoopGo, LoopAt
<1>22. CASE ClearStore
  BY <1>22 DEF ClearStore, LoopGo, LoopAt
<1>23. CASE DeliverFrame0
  BY <1>23 DEF DeliverFrame0, LoopGo, LoopAt
<1>24. CASE DeliverToDangling
  BY <1>24 DEF DeliverToDangling, EndsAs
<1>25. CASE LockMux
  BY <1>25 DEF LockMux, LoopGo, LoopAt
<1>26. CASE ReadAddress
  BY <1>26 DEF ReadAddress, LoopGo, LoopAt
<1>27. CASE ReadSize
  BY <1>27 DEF ReadSize, LoopGo, LoopAt
<1>28. CASE Copy
  BY <1>28 DEF Copy, LoopGo, LoopAt
<1>29. CASE Unlock
  BY <1>29 DEF Unlock, LoopGo, LoopAt
<1>30. CASE AfterGetting
  BY <1>30 DEF AfterGetting, LoopAt, SendOrPack
<1>31. CASE PackOverflow
  BY <1>31 DEF PackOverflow, LoopAt, SendOrPack
<1>32. CASE GetNextFrame
  BY <1>32 DEF GetNextFrame, LoopGo, LoopAt
<1>33. CASE ReadTwice
  BY <1>33 DEF ReadTwice, EndsAs
<1>34. CASE TrailingClear
  BY <1>34 DEF TrailingClear, LoopGo, LoopAt
<1>35. CASE Return
  BY <1>35 DEF Return, LoopGo, LoopAt
<1>36. CASE SendNext
  BY <1>36 DEF SendNext, LoopGo, LoopAt
<1>37. CASE SendNextOfClosed
  BY <1>37 DEF SendNextOfClosed, EndsAs
<1>38. CASE OtherAlarm
  BY <1>38 DEF OtherAlarm, LoopGo, LoopAt
<1>39. CASE UNCHANGED vars
  BY <1>39 DEF vars
<1>40. QED
  BY StepCases, <1>1, <1>2, <1>3, <1>4, <1>5, <1>6, <1>7, <1>8, <1>9, <1>10,
     <1>11, <1>12, <1>13, <1>14, <1>15, <1>16, <1>17, <1>18, <1>19, <1>20,
     <1>21, <1>22, <1>23, <1>24, <1>25, <1>26, <1>27, <1>28, <1>29, <1>30,
     <1>31, <1>32, <1>33, <1>34, <1>35, <1>36, <1>37, <1>38, <1>39

\* Every step keeps the room.
LEMMA RoomStep ==
    ASSUME TypeInv, [Next]_vars
    PROVE  Room'
<1> USE DEF TypeInv, Flags, Ranges, Room, LoopTaking
<1>1. CASE EncStartup
  BY <1>1 DEF EncStartup, EncGo
<1>2. CASE EncSpin
  BY <1>2 DEF EncSpin, EncGo
<1>3. CASE EncAcquire
  BY <1>3 DEF EncAcquire, EncGo
<1>4. CASE EncEncode
  BY <1>4 DEF EncEncode, EncGo
<1>5. CASE EncSetAddress
  BY <1>5 DEF EncSetAddress, EncGo
<1>6. CASE EncSetSize
  BY <1>6 DEF EncSetSize, EncGo
<1>7. CASE EncSetLock
  BY <1>7 DEF EncSetLock, EncGo
<1>8. CASE EncUnlock
  BY <1>8 DEF EncUnlock, EncGo
<1>9. CASE EncReadId
  BY <1>9 DEF EncReadId, EncGo
<1>10. CASE EncTrigLoad
  BY <1>10 DEF EncTrigLoad, EncGo
<1>11. CASE EncTrigStore
  BY <1>11 DEF EncTrigStore, EncGo
<1>12. CASE EncodeFails
  BY <1>12 DEF EncodeFails, EndsAs
<1>13. CASE SelectOther
  BY <1>13 DEF SelectOther, LoopGo, LoopAt
<1>14. CASE Describe
  BY <1>14 DEF Describe, LoopGo, LoopAt, NewSource
<1>15. CASE Setup
  BY <1>15 DEF Setup, LoopGo, LoopAt, NewSource
<1>16. CASE Play
  BY <1>16 DEF Play, LoopGo, LoopAt
<1>17. CASE Teardown
  BY <1>17 DEF Teardown, LoopGo, LoopAt, CloseSource
<1>18. CASE CloseDummy
  BY <1>18 DEF CloseDummy, LoopGo, LoopAt, CloseSource
<1>19. CASE DeleteTrigger
  BY <1>19 DEF DeleteTrigger, LoopGo, LoopAt
<1>20. CASE NoTrigger
  BY <1>20 DEF NoTrigger, LoopGo, LoopAt
<1>21. CASE ClearLoad
  BY <1>21 DEF ClearLoad, LoopGo, LoopAt
<1>22. CASE ClearStore
  BY <1>22 DEF ClearStore, LoopGo, LoopAt
<1>23. CASE DeliverFrame0
  BY <1>23 DEF DeliverFrame0, LoopGo, LoopAt
<1>24. CASE DeliverToDangling
  BY <1>24 DEF DeliverToDangling, EndsAs
<1>25. CASE LockMux
  BY <1>25 DEF LockMux, LoopGo, LoopAt
<1>26. CASE ReadAddress
  BY <1>26 DEF ReadAddress, LoopGo, LoopAt
<1>27. CASE ReadSize
  BY <1>27 DEF ReadSize, LoopGo, LoopAt
<1>28. CASE Copy
  BY <1>28 DEF Copy, LoopGo, LoopAt
<1>29. CASE Unlock
  BY <1>29 DEF Unlock, LoopGo, LoopAt
<1>30. CASE AfterGetting
  BY <1>30 DEF AfterGetting, LoopAt, SendOrPack
<1>31. CASE PackOverflow
  BY <1>31 DEF PackOverflow, LoopAt, SendOrPack
<1>32. CASE GetNextFrame
  BY <1>32 DEF GetNextFrame, LoopGo, LoopAt
<1>33. CASE ReadTwice
  BY <1>33 DEF ReadTwice, EndsAs
<1>34. CASE TrailingClear
  BY <1>34 DEF TrailingClear, LoopGo, LoopAt
<1>35. CASE Return
  BY <1>35 DEF Return, LoopGo, LoopAt
<1>36. CASE SendNext
  BY <1>36 DEF SendNext, LoopGo, LoopAt
<1>37. CASE SendNextOfClosed
  BY <1>37 DEF SendNextOfClosed, EndsAs
<1>38. CASE OtherAlarm
  BY <1>38 DEF OtherAlarm, LoopGo, LoopAt
<1>39. CASE UNCHANGED vars
  BY <1>39 DEF vars
<1>40. QED
  BY StepCases, <1>1, <1>2, <1>3, <1>4, <1>5, <1>6, <1>7, <1>8, <1>9, <1>10,
     <1>11, <1>12, <1>13, <1>14, <1>15, <1>16, <1>17, <1>18, <1>19, <1>20,
     <1>21, <1>22, <1>23, <1>24, <1>25, <1>26, <1>27, <1>28, <1>29, <1>30,
     <1>31, <1>32, <1>33, <1>34, <1>35, <1>36, <1>37, <1>38, <1>39

\* Every variable of both threads keeps its type (and a handler room for one more task).
THEOREM TypeCorrect == Spec => []TypeInv
<1>1. TypeInv /\ [Next]_vars => TypeInv'
  BY FlagStep, RangeStep, RoomStep DEF TypeInv
<1> QED  BY TypeInit, <1>1, PTL DEF Spec

-----------------------------------------------------------------------------
(* Ownership of the frame slot.                                            *)

\* At the start nobody holds the mutex and the slot is empty.
LEMMA HandoffInit == Init => HandoffInv
BY DEF Init, HandoffInv, EncCritical, EncFilling, LoopCritical, LoopTaking, Pair

\* Every step keeps the ownership rules.
LEMMA HandoffStep ==
    ASSUME TypeInv, HandoffInv, [Next]_vars
    PROVE  HandoffInv'
<1> USE DEF TypeInv, Flags, Ranges, HandoffInv, EncCritical, EncFilling, LoopCritical, LoopTaking
<1>1. CASE EncStartup
  BY <1>1 DEF EncStartup, EncGo
<1>2. CASE EncSpin
  BY <1>2 DEF EncSpin, EncGo
<1>3. CASE EncAcquire
  BY <1>3 DEF EncAcquire, EncGo
<1>4. CASE EncEncode
  BY <1>4 DEF EncEncode, EncGo
<1>5. CASE EncSetAddress
  BY <1>5 DEF EncSetAddress, EncGo
<1>6. CASE EncSetSize
  BY <1>6 DEF EncSetSize, EncGo
<1>7. CASE EncSetLock
  BY <1>7 DEF EncSetLock, EncGo
<1>8. CASE EncUnlock
  BY <1>8 DEF EncUnlock, EncGo
<1>9. CASE EncReadId
  BY <1>9 DEF EncReadId, EncGo
<1>10. CASE EncTrigLoad
  BY <1>10 DEF EncTrigLoad, EncGo
<1>11. CASE EncTrigStore
  BY <1>11 DEF EncTrigStore, EncGo
<1>12. CASE EncodeFails
  BY <1>12 DEF EncodeFails, EndsAs
<1>13. CASE SelectOther
  BY <1>13 DEF SelectOther, LoopGo, LoopAt
<1>14. CASE Describe
  BY <1>14 DEF Describe, LoopGo, LoopAt, NewSource
<1>15. CASE Setup
  BY <1>15 DEF Setup, LoopGo, LoopAt, NewSource
<1>16. CASE Play
  BY <1>16 DEF Play, LoopGo, LoopAt
<1>17. CASE Teardown
  BY <1>17 DEF Teardown, LoopGo, LoopAt, CloseSource
<1>18. CASE CloseDummy
  BY <1>18 DEF CloseDummy, LoopGo, LoopAt, CloseSource
<1>19. CASE DeleteTrigger
  BY <1>19 DEF DeleteTrigger, LoopGo, LoopAt
<1>20. CASE NoTrigger
  BY <1>20 DEF NoTrigger, LoopGo, LoopAt
<1>21. CASE ClearLoad
  BY <1>21 DEF ClearLoad, LoopGo, LoopAt
<1>22. CASE ClearStore
  BY <1>22 DEF ClearStore, LoopGo, LoopAt
<1>23. CASE DeliverFrame0
  BY <1>23 DEF DeliverFrame0, LoopGo, LoopAt
<1>24. CASE DeliverToDangling
  BY <1>24 DEF DeliverToDangling, EndsAs
<1>25. CASE LockMux
  BY <1>25 DEF LockMux, LoopGo, LoopAt
<1>26. CASE ReadAddress
  BY <1>26 DEF ReadAddress, LoopGo, LoopAt
<1>27. CASE ReadSize
  BY <1>27 DEF ReadSize, LoopGo, LoopAt
<1>28. CASE Copy
  BY <1>28 DEF Copy, LoopGo, LoopAt
<1>29. CASE Unlock
  BY <1>29 DEF Unlock, LoopGo, LoopAt
<1>30. CASE AfterGetting
  BY <1>30 DEF AfterGetting, LoopAt, SendOrPack
<1>31. CASE PackOverflow
  BY <1>31 DEF PackOverflow, LoopAt, SendOrPack
<1>32. CASE GetNextFrame
  BY <1>32 DEF GetNextFrame, LoopGo, LoopAt
<1>33. CASE ReadTwice
  BY <1>33 DEF ReadTwice, EndsAs
<1>34. CASE TrailingClear
  BY <1>34 DEF TrailingClear, LoopGo, LoopAt
<1>35. CASE Return
  BY <1>35 DEF Return, LoopGo, LoopAt
<1>36. CASE SendNext
  BY <1>36 DEF SendNext, LoopGo, LoopAt
<1>37. CASE SendNextOfClosed
  BY <1>37 DEF SendNextOfClosed, EndsAs
<1>38. CASE OtherAlarm
  BY <1>38 DEF OtherAlarm, LoopGo, LoopAt
<1>39. CASE UNCHANGED vars
  BY <1>39 DEF vars
<1>40. QED
  BY StepCases, <1>1, <1>2, <1>3, <1>4, <1>5, <1>6, <1>7, <1>8, <1>9, <1>10,
     <1>11, <1>12, <1>13, <1>14, <1>15, <1>16, <1>17, <1>18, <1>19, <1>20,
     <1>21, <1>22, <1>23, <1>24, <1>25, <1>26, <1>27, <1>28, <1>29, <1>30,
     <1>31, <1>32, <1>33, <1>34, <1>35, <1>36, <1>37, <1>38, <1>39

\* The slot has one owner at a time, whatever the threads' interleaving.
THEOREM HandoffSafe == Spec => []HandoffInv
<1>1. TypeInv /\ HandoffInv /\ UNCHANGED vars => HandoffInv'
  BY HandoffStep
<1> QED  BY HandoffInit, HandoffStep, TypeCorrect, PTL DEF Spec

\* The event loop never waits for an encode, nor for a mutex it holds itself.
THEOREM NeverWaits == Spec => []LoopNeverWaitsForEncode
<1>1. HandoffInv => LoopNeverWaitsForEncode
  BY DEF HandoffInv, LoopNeverWaitsForEncode, EncFilling, LoopCritical, LoopTaking
<1> QED  BY HandoffSafe, <1>1, PTL

-----------------------------------------------------------------------------
(* The sink's pull chain.                                                  *)

\* Every step keeps the chain: a request ends in a callback, a callback in a new request
\* or in a scheduled task, a task in a request.
LEMMA PullStep ==
    ASSUME TypeInv, SinkKeepsPulling, [Next]_vars
    PROVE  SinkKeepsPulling'
<1> USE DEF TypeInv, Flags, Ranges, SinkKeepsPulling
<1>1. CASE EncStartup
  BY <1>1 DEF EncStartup, EncGo
<1>2. CASE EncSpin
  BY <1>2 DEF EncSpin, EncGo
<1>3. CASE EncAcquire
  BY <1>3 DEF EncAcquire, EncGo
<1>4. CASE EncEncode
  BY <1>4 DEF EncEncode, EncGo
<1>5. CASE EncSetAddress
  BY <1>5 DEF EncSetAddress, EncGo
<1>6. CASE EncSetSize
  BY <1>6 DEF EncSetSize, EncGo
<1>7. CASE EncSetLock
  BY <1>7 DEF EncSetLock, EncGo
<1>8. CASE EncUnlock
  BY <1>8 DEF EncUnlock, EncGo
<1>9. CASE EncReadId
  BY <1>9 DEF EncReadId, EncGo
<1>10. CASE EncTrigLoad
  BY <1>10 DEF EncTrigLoad, EncGo
<1>11. CASE EncTrigStore
  BY <1>11 DEF EncTrigStore, EncGo
<1>12. CASE EncodeFails
  BY <1>12 DEF EncodeFails, EndsAs
<1>13. CASE SelectOther
  BY <1>13 DEF SelectOther, LoopGo, LoopAt
<1>14. CASE Describe
  BY <1>14 DEF Describe, LoopGo, LoopAt, NewSource
<1>15. CASE Setup
  BY <1>15 DEF Setup, LoopGo, LoopAt, NewSource
<1>16. CASE Play
  BY <1>16 DEF Play, LoopGo, LoopAt
<1>17. CASE Teardown
  BY <1>17 DEF Teardown, LoopGo, LoopAt, CloseSource
<1>18. CASE CloseDummy
  BY <1>18 DEF CloseDummy, LoopGo, LoopAt, CloseSource
<1>19. CASE DeleteTrigger
  BY <1>19 DEF DeleteTrigger, LoopGo, LoopAt
<1>20. CASE NoTrigger
  BY <1>20 DEF NoTrigger, LoopGo, LoopAt
<1>21. CASE ClearLoad
  BY <1>21 DEF ClearLoad, LoopGo, LoopAt
<1>22. CASE ClearStore
  BY <1>22 DEF ClearStore, LoopGo, LoopAt
<1>23. CASE DeliverFrame0
  BY <1>23 DEF DeliverFrame0, LoopGo, LoopAt
<1>24. CASE DeliverToDangling
  BY <1>24 DEF DeliverToDangling, EndsAs
<1>25. CASE LockMux
  BY <1>25 DEF LockMux, LoopGo, LoopAt
<1>26. CASE ReadAddress
  BY <1>26 DEF ReadAddress, LoopGo, LoopAt
<1>27. CASE ReadSize
  BY <1>27 DEF ReadSize, LoopGo, LoopAt
<1>28. CASE Copy
  BY <1>28 DEF Copy, LoopGo, LoopAt
<1>29. CASE Unlock
  BY <1>29 DEF Unlock, LoopGo, LoopAt
<1>30. CASE AfterGetting
  BY <1>30 DEF AfterGetting, LoopAt, SendOrPack
<1>31. CASE PackOverflow
  BY <1>31 DEF PackOverflow, LoopAt, SendOrPack
<1>32. CASE GetNextFrame
  BY <1>32 DEF GetNextFrame, LoopGo, LoopAt
<1>33. CASE ReadTwice
  BY <1>33 DEF ReadTwice, EndsAs
<1>34. CASE TrailingClear
  BY <1>34 DEF TrailingClear, LoopGo, LoopAt
<1>35. CASE Return
  BY <1>35 DEF Return, LoopGo, LoopAt
<1>36. CASE SendNext
  BY <1>36 DEF SendNext, LoopGo, LoopAt
<1>37. CASE SendNextOfClosed
  BY <1>37 DEF SendNextOfClosed, EndsAs
<1>38. CASE OtherAlarm
  BY <1>38 DEF OtherAlarm, LoopGo, LoopAt
<1>39. CASE UNCHANGED vars
  BY <1>39 DEF vars
<1>40. QED
  BY StepCases, <1>1, <1>2, <1>3, <1>4, <1>5, <1>6, <1>7, <1>8, <1>9, <1>10,
     <1>11, <1>12, <1>13, <1>14, <1>15, <1>16, <1>17, <1>18, <1>19, <1>20,
     <1>21, <1>22, <1>23, <1>24, <1>25, <1>26, <1>27, <1>28, <1>29, <1>30,
     <1>31, <1>32, <1>33, <1>34, <1>35, <1>36, <1>37, <1>38, <1>39

\* While a stream plays, its sink never stops asking for frames.
THEOREM KeepsPulling == Spec => []SinkKeepsPulling
<1>1. Init => SinkKeepsPulling
  BY DEF Init, SinkKeepsPulling
<1> QED  BY <1>1, PullStep, TypeCorrect, PTL DEF Spec

-----------------------------------------------------------------------------
(* Refinement.                                                             *)

\* A step that touches neither the flag nor a published slot nor the copy is a stutter.
LEMMA MailboxStutter ==
    ASSUME lock' = lock, lock => address' = address /\ size' = size, delivered' = delivered
    PROVE  UNCHANGED Mailbox!mvars
BY DEF Mailbox!mvars

\* Publishing is a Put of the packet encoded last.
LEMMA MailboxPut ==
    ASSUME TypeInv, HandoffInv, EncSetLock
    PROVE  Mailbox!Put
<1>1. lock = FALSE /\ lock' = TRUE /\ address' = pkt /\ size' = pkt /\ pkt \in Packets
  BY DEF TypeInv, Flags, Ranges, HandoffInv, EncFilling, EncSetLock, EncGo
<1>2. [address |-> address', size |-> size'] = Pair(pkt)
  BY <1>1 DEF Pair
<1>3. delivered' = delivered
  BY DEF EncSetLock, EncGo
<1> QED  BY <1>1, <1>2, <1>3 DEF Mailbox!Put

\* Copying is a Take of the published packet.
LEMMA MailboxTake ==
    ASSUME TypeInv, HandoffInv, Copy
    PROVE  Mailbox!Take
<1>1. lock = TRUE /\ lock' = FALSE /\ delivered' = frame
  BY DEF TypeInv, Flags, Ranges, HandoffInv, LoopTaking, Copy, LoopGo, LoopAt
<1>2. frame = [address |-> address, size |-> size]
  BY DEF TypeInv, Flags, Ranges, HandoffInv, Copy, LoopGo, LoopAt
<1> QED  BY <1>1, <1>2 DEF Mailbox!Take

\* The second "lock=0" of doGetNextFrame() is a Discard when a new frame is there already.
LEMMA MailboxDiscard ==
    ASSUME TypeInv, TrailingClear
    PROVE  Mailbox!Discard \/ UNCHANGED Mailbox!mvars
<1>1. lock \in BOOLEAN /\ lock' = FALSE /\ delivered' = delivered
  BY DEF TypeInv, Flags, TrailingClear, LoopGo, LoopAt
<1> QED  BY <1>1 DEF Mailbox!Discard, Mailbox!mvars

\* Every step of the two threads is a step of the mailbox or a stutter.
LEMMA MailboxStep ==
    ASSUME TypeInv, HandoffInv, [Next]_vars
    PROVE  [Mailbox!Next]_(Mailbox!mvars)
<1>1. CASE EncSetLock
  BY <1>1, MailboxPut DEF Mailbox!Next
<1>2. CASE Copy
  BY <1>2, MailboxTake DEF Mailbox!Next
<1>3. CASE TrailingClear
  BY <1>3, MailboxDiscard DEF Mailbox!Next
<1>4. CASE EncSetAddress \/ EncSetSize
  <2>1. lock' = lock /\ delivered' = delivered /\ ~lock
    BY <1>4 DEF HandoffInv, EncFilling, EncSetAddress, EncSetSize, EncGo, loopVars
  <2> QED  BY <2>1, MailboxStutter
<1>5. CASE ~(EncSetLock \/ Copy \/ TrailingClear \/ EncSetAddress \/ EncSetSize)
  <2>1. lock' = lock /\ address' = address /\ size' = size /\ delivered' = delivered
    BY <1>5, StepCases DEF EncStartup, EncSpin, EncAcquire, EncEncode, EncUnlock,
           EncReadId, EncTrigLoad, EncTrigStore, EncodeFails,
           SelectOther, Describe, Setup, Play, Teardown, CloseDummy,
           DeleteTrigger, NoTrigger, ClearLoad, ClearStore,
           DeliverFrame0, DeliverToDangling, LockMux, ReadAddress,
           ReadSize, Unlock, AfterGetting, PackOverflow, GetNextFrame,
           ReadTwice, Return, SendNext, SendNextOfClosed, OtherAlarm,
           CloseSource, EncGo, EndsAs, LoopGo, LoopAt, vars
  <2> QED  BY <2>1, MailboxStutter
<1> QED  BY <1>1, <1>2, <1>3, <1>4, <1>5

\* The two threads implement the mailbox: no published frame is overwritten, none is taken
\* twice, and none is torn.
THEOREM ImplementsMailbox == Spec => MailboxSpec
<1>1. Init => Mailbox!Init
  BY DEF Init, Mailbox!Init, Pair
<1>2. TypeInv /\ HandoffInv /\ [Next]_vars => [Mailbox!Next]_(Mailbox!mvars)
  BY MailboxStep
<1> QED  BY <1>1, <1>2, TypeCorrect, HandoffSafe, PTL DEF Spec, MailboxSpec, Mailbox!Spec
-----------------------------------------------------------------------------
(* Wake-ups, until a trigger is raised that has been deleted.              *)

\* Until a deleted trigger has been raised, none is pending: what is pending, and what the
\* two threads have loaded of it, is the trigger there is, or the one the encoder holds.
CurrentTrigger ==
    ~stale =>
        /\ pending \subseteq {trigger}
        /\ enc \in {"trigLoad", "trigStore"} => pending \subseteq {id}
        /\ enc = "trigStore" => encReg \subseteq {id}
        /\ loop \in {"deleteTrigger", "clearTrigger"} => loopReg \subseteq {trigger}
        /\ loop = "clearTrigger" => bit = trigger

\* A stream has a trigger, and only a stream that plays is read.
TriggerInv ==
    /\ CurrentTrigger
    /\ stream # "none" => trigger # 0
    /\ loop \in {"closeDummy", "deleteTrigger"} => stream = "none"
    /\ awaiting => stream = "playing"

\* Every step keeps the triggers current.
LEMMA TriggerStepKeeps ==
    ASSUME TypeInv, TriggerInv, [Next]_vars
    PROVE  TriggerInv'
<1> USE DEF TypeInv, Flags, Ranges, Room, LoopTaking, TriggerInv, CurrentTrigger, Slots, NextSlot
<1>1. CASE EncStartup
  BY <1>1 DEF EncStartup, EncGo
<1>2. CASE EncSpin
  BY <1>2 DEF EncSpin, EncGo
<1>3. CASE EncAcquire
  BY <1>3 DEF EncAcquire, EncGo
<1>4. CASE EncEncode
  BY <1>4 DEF EncEncode, EncGo
<1>5. CASE EncSetAddress
  BY <1>5 DEF EncSetAddress, EncGo
<1>6. CASE EncSetSize
  BY <1>6 DEF EncSetSize, EncGo
<1>7. CASE EncSetLock
  BY <1>7 DEF EncSetLock, EncGo
<1>8. CASE EncUnlock
  BY <1>8 DEF EncUnlock, EncGo
<1>9. CASE EncReadId
  BY <1>9 DEF EncReadId, EncGo
<1>10. CASE EncTrigLoad
  BY <1>10 DEF EncTrigLoad, EncGo
<1>11. CASE EncTrigStore
  <2>1. ~stale' => ~stale /\ id \in {0, trigger}
    BY <1>11 DEF EncTrigStore
  <2>2. ~stale' => encReg \subseteq {trigger} /\ pending' \subseteq {trigger}
    BY <1>11, <2>1 DEF EncTrigStore, EncGo
  <2> QED  BY <1>11, <2>1, <2>2 DEF EncTrigStore, EncGo
<1>12. CASE EncodeFails
  BY <1>12 DEF EncodeFails, EndsAs
<1>13. CASE SelectOther
  BY <1>13 DEF SelectOther, LoopGo, LoopAt
<1>14. CASE Describe
  BY <1>14 DEF Describe, LoopGo, LoopAt, NewSource
<1>15. CASE Setup
  BY <1>15 DEF Setup, LoopGo, LoopAt, NewSource
<1>16. CASE Play
  BY <1>16 DEF Play, LoopGo, LoopAt
<1>17. CASE Teardown
  BY <1>17 DEF Teardown, LoopGo, LoopAt, CloseSource
<1>18. CASE CloseDummy
  BY <1>18 DEF CloseDummy, LoopGo, LoopAt, CloseSource
<1>19. CASE DeleteTrigger
  BY <1>19 DEF DeleteTrigger, LoopGo, LoopAt
<1>20. CASE NoTrigger
  BY <1>20 DEF NoTrigger, LoopGo, LoopAt
<1>21. CASE ClearLoad
  BY <1>21 DEF ClearLoad, LoopGo, LoopAt
<1>22. CASE ClearStore
  BY <1>22 DEF ClearStore, LoopGo, LoopAt
<1>23. CASE DeliverFrame0
  BY <1>23 DEF DeliverFrame0, LoopGo, LoopAt
<1>24. CASE DeliverToDangling
  BY <1>24 DEF DeliverToDangling, EndsAs
<1>25. CASE LockMux
  BY <1>25 DEF LockMux, LoopGo, LoopAt
<1>26. CASE ReadAddress
  BY <1>26 DEF ReadAddress, LoopGo, LoopAt
<1>27. CASE ReadSize
  BY <1>27 DEF ReadSize, LoopGo, LoopAt
<1>28. CASE Copy
  BY <1>28 DEF Copy, LoopGo, LoopAt
<1>29. CASE Unlock
  BY <1>29 DEF Unlock, LoopGo, LoopAt
<1>30. CASE AfterGetting
  BY <1>30 DEF AfterGetting, LoopAt, SendOrPack
<1>31. CASE PackOverflow
  BY <1>31 DEF PackOverflow, LoopAt, SendOrPack
<1>32. CASE GetNextFrame
  BY <1>32 DEF GetNextFrame, LoopGo, LoopAt
<1>33. CASE ReadTwice
  BY <1>33 DEF ReadTwice, EndsAs
<1>34. CASE TrailingClear
  BY <1>34 DEF TrailingClear, LoopGo, LoopAt
<1>35. CASE Return
  BY <1>35 DEF Return, LoopGo, LoopAt
<1>36. CASE SendNext
  BY <1>36 DEF SendNext, LoopGo, LoopAt
<1>37. CASE SendNextOfClosed
  BY <1>37 DEF SendNextOfClosed, EndsAs
<1>38. CASE OtherAlarm
  BY <1>38 DEF OtherAlarm, LoopGo, LoopAt
<1>39. CASE UNCHANGED vars
  BY <1>39 DEF vars
<1>40. QED
  BY StepCases, <1>1, <1>2, <1>3, <1>4, <1>5, <1>6, <1>7, <1>8, <1>9, <1>10,
     <1>11, <1>12, <1>13, <1>14, <1>15, <1>16, <1>17, <1>18, <1>19, <1>20,
     <1>21, <1>22, <1>23, <1>24, <1>25, <1>26, <1>27, <1>28, <1>29, <1>30,
     <1>31, <1>32, <1>33, <1>34, <1>35, <1>36, <1>37, <1>38, <1>39

\* Every step keeps the wake-ups.
LEMMA WakeupStep ==
    ASSUME TypeInv, TriggerInv, NoLostWakeup, [Next]_vars
    PROVE  NoLostWakeup'
<1> USE DEF TypeInv, Flags, Ranges, Room, LoopTaking, TriggerInv, CurrentTrigger, NoLostWakeup
<1>1. CASE EncStartup
  BY <1>1 DEF EncStartup, EncGo
<1>2. CASE EncSpin
  BY <1>2 DEF EncSpin, EncGo
<1>3. CASE EncAcquire
  BY <1>3 DEF EncAcquire, EncGo
<1>4. CASE EncEncode
  BY <1>4 DEF EncEncode, EncGo
<1>5. CASE EncSetAddress
  BY <1>5 DEF EncSetAddress, EncGo
<1>6. CASE EncSetSize
  BY <1>6 DEF EncSetSize, EncGo
<1>7. CASE EncSetLock
  BY <1>7 DEF EncSetLock, EncGo
<1>8. CASE EncUnlock
  BY <1>8 DEF EncUnlock, EncGo
<1>9. CASE EncReadId
  BY <1>9 DEF EncReadId, EncGo
<1>10. CASE EncTrigLoad
  BY <1>10 DEF EncTrigLoad, EncGo
<1>11. CASE EncTrigStore
  BY <1>11 DEF EncTrigStore, EncGo
<1>12. CASE EncodeFails
  BY <1>12 DEF EncodeFails, EndsAs
<1>13. CASE SelectOther
  BY <1>13 DEF SelectOther, LoopGo, LoopAt
<1>14. CASE Describe
  BY <1>14 DEF Describe, LoopGo, LoopAt, NewSource
<1>15. CASE Setup
  BY <1>15 DEF Setup, LoopGo, LoopAt, NewSource
<1>16. CASE Play
  BY <1>16 DEF Play, LoopGo, LoopAt
<1>17. CASE Teardown
  BY <1>17 DEF Teardown, LoopGo, LoopAt, CloseSource
<1>18. CASE CloseDummy
  BY <1>18 DEF CloseDummy, LoopGo, LoopAt, CloseSource
<1>19. CASE DeleteTrigger
  BY <1>19 DEF DeleteTrigger, LoopGo, LoopAt
<1>20. CASE NoTrigger
  BY <1>20 DEF NoTrigger, LoopGo, LoopAt
<1>21. CASE ClearLoad
  BY <1>21 DEF ClearLoad, LoopGo, LoopAt
<1>22. CASE ClearStore
  BY <1>22 DEF ClearStore, LoopGo, LoopAt
<1>23. CASE DeliverFrame0
  BY <1>23 DEF DeliverFrame0, LoopGo, LoopAt
<1>24. CASE DeliverToDangling
  BY <1>24 DEF DeliverToDangling, EndsAs
<1>25. CASE LockMux
  BY <1>25 DEF LockMux, LoopGo, LoopAt
<1>26. CASE ReadAddress
  BY <1>26 DEF ReadAddress, LoopGo, LoopAt
<1>27. CASE ReadSize
  BY <1>27 DEF ReadSize, LoopGo, LoopAt
<1>28. CASE Copy
  BY <1>28 DEF Copy, LoopGo, LoopAt
<1>29. CASE Unlock
  BY <1>29 DEF Unlock, LoopGo, LoopAt
<1>30. CASE AfterGetting
  BY <1>30 DEF AfterGetting, LoopAt, SendOrPack
<1>31. CASE PackOverflow
  BY <1>31 DEF PackOverflow, LoopAt, SendOrPack
<1>32. CASE GetNextFrame
  BY <1>32 DEF GetNextFrame, LoopGo, LoopAt
<1>33. CASE ReadTwice
  BY <1>33 DEF ReadTwice, EndsAs
<1>34. CASE TrailingClear
  BY <1>34 DEF TrailingClear, LoopGo, LoopAt
<1>35. CASE Return
  BY <1>35 DEF Return, LoopGo, LoopAt
<1>36. CASE SendNext
  BY <1>36 DEF SendNext, LoopGo, LoopAt
<1>37. CASE SendNextOfClosed
  BY <1>37 DEF SendNextOfClosed, EndsAs
<1>38. CASE OtherAlarm
  BY <1>38 DEF OtherAlarm, LoopGo, LoopAt
<1>39. CASE UNCHANGED vars
  BY <1>39 DEF vars
<1>40. QED
  BY StepCases, <1>1, <1>2, <1>3, <1>4, <1>5, <1>6, <1>7, <1>8, <1>9, <1>10,
     <1>11, <1>12, <1>13, <1>14, <1>15, <1>16, <1>17, <1>18, <1>19, <1>20,
     <1>21, <1>22, <1>23, <1>24, <1>25, <1>26, <1>27, <1>28, <1>29, <1>30,
     <1>31, <1>32, <1>33, <1>34, <1>35, <1>36, <1>37, <1>38, <1>39

\* No frame that the sink waits for is forgotten, through any number of sources, unless a
\* trigger has been raised whose source was deleted meanwhile.
THEOREM WakeupKept == Spec => []NoLostWakeup
<1>1. Init => TriggerInv /\ NoLostWakeup
  BY DEF Init, TriggerInv, CurrentTrigger, NoLostWakeup
<1> QED  BY <1>1, TriggerStepKeeps, WakeupStep, TypeCorrect, PTL DEF Spec

=============================================================================
