------------------------ MODULE StreamLifecycleProofs ------------------------
(***************************************************************************)
(* Proofs about StreamLifecycle, for every finite set of sessions, all     *)
(* sets of destinations and addresses, and any time-out: the stream is     *)
(* counted right and is shared as SharedStream promises, nothing refers to *)
(* a session that is gone; and, when clients do not come back to ports     *)
(* they used before, all that play are sent the stream and only silent     *)
(* ones are reclaimed.                                                     *)
(*                                                                         *)
(* All but a few steps of a session leave the stream as it is (Idle).      *)
(* Those that do not are leaving it (Leaving), joining it (SetupRest) and  *)
(* Play; each invariant is preserved by these four.                        *)
(***************************************************************************)
EXTENDS StreamLifecycle, FiniteSetTheorems, TLAPS

USE NullAssumption, TimeoutAssumption

\* The sessions that are not in the middle of a SETUP.
Keepers == open \ {handling}

\* What the stream's invariants need besides: sessions that are gone hold nothing, one that
\* holds the stream has a destination, and a stream that is gone has none.
Orderly ==
    /\ \A s \in Sessions \ open : token[s] = NoStream /\ dest[s] = NoDest
    /\ played \subseteq Keepers
    /\ \A s \in Keepers : token[s] # NoStream => dest[s] \in Dests
    /\ \A i \in Streams \ live :
         sentTo[i] = {} /\ \A d \in Dests : reporter[i][d] = NoSession

SharingInv == OneSharedStream /\ Orderly

\* Session s leaves its stream.
Leaving(s) ==
    /\ s \in Keepers /\ Keepers' = Keepers \ {s} /\ open' \in {open, open \ {s}}
    /\ DeleteStream(s)
    /\ \A t \in Sessions \ {s} : token'[t] = token[t]
    /\ s \notin open' => token'[s] = NoStream
    /\ played' = played \ {s}

\* No session joins or leaves the stream, or plays.
Idle ==
    /\ Keepers \subseteq Keepers' /\ open \subseteq open'
    /\ \A s \in Keepers' \ Keepers : token[s] = NoStream
    /\ UNCHANGED <<token, dest, streamVars, played>>

-----------------------------------------------------------------------------
(* Types.                                                                  *)

\* The initial state has the right types.
LEMMA TypeInit == Init => TypeInv
BY DEF Init, TypeInv

\* Leaving a stream keeps the types of the stream's variables.
LEMMA DeleteStreamTypes ==
    ASSUME TypeInv, NEW s \in Sessions, DeleteStream(s)
    PROVE  /\ dest' \in [Sessions -> Dests \cup {NoDest}]
           /\ last' \in Streams \cup {NoStream} /\ live' \subseteq Streams
           /\ playing' \subseteq live' /\ refs' \in [Streams -> Nat]
           /\ sentTo' \in [Streams -> SUBSET Dests]
           /\ reporter' \in [Streams -> [Dests -> Sessions \cup {NoSession}]]
<1> USE DEF TypeInv, DeleteStream
<1>1. CASE token[s] = NoStream
  BY <1>1 DEF streamVars
<1>2. CASE token[s] # NoStream
  <2> DEFINE i == token[s]
  <2>1. i \in Streams /\ Left(s) \in Nat
    BY <1>2 DEF Left
  <2>2. dest' \in [Sessions -> Dests \cup {NoDest}] /\ refs' \in [Streams -> Nat]
    BY <1>2, <2>1
  <2>3. CASE Left(s) = 0
    <3>1. Reclaim(i)
      BY <1>2, <2>3
    <3>2. [d \in Dests |-> NoSession] \in [Dests -> Sessions \cup {NoSession}]
      OBVIOUS
    <3> QED  BY <2>1, <2>2, <3>1, <3>2 DEF Reclaim
  <2>4. CASE Left(s) # 0
    <3>1. EndPlaying(i, dest[s])
      BY <1>2, <2>4
    <3>2. sentTo' \in [Streams -> SUBSET Dests]
      BY <2>1, <3>1 DEF EndPlaying
    <3>3. [reporter[i] EXCEPT ![dest[s]] = NoSession] \in [Dests -> Sessions \cup {NoSession}]
      BY <2>1
    <3>4. reporter' \in [Streams -> [Dests -> Sessions \cup {NoSession}]]
      BY <2>1, <3>1, <3>3 DEF EndPlaying
    <3> QED  BY <2>2, <3>1, <3>2, <3>4 DEF EndPlaying
  <2> QED  BY <2>3, <2>4
<1> QED  BY <1>1, <1>2

\* A session that is closed takes its flags with it.
LEMMA CloseSessionTypes ==
    ASSUME TypeInv, handling = NoSession, handling' = handling, NEW s \in open, CloseSession(s)
    PROVE  TypeInv'
<1>1. s \in Sessions
  BY DEF TypeInv
<1> QED  BY <1>1, DeleteStreamTypes DEF TypeInv, CloseSession

\* Every step keeps the types.
LEMMA TypeStep ==
    ASSUME TypeInv, SharingInv, [Next]_vars
    PROVE  TypeInv'
<1> USE DEF TypeInv
<1>1. ASSUME NEW s \in Sessions, SetupNew(s)
      PROVE  TypeInv'
  BY <1>1 DEF SetupNew, Hears, streamVars
<1>2. ASSUME NEW s \in Sessions, SetupAgain(s)
      PROVE  TypeInv'
  <2>1. token' \in [Sessions -> Streams \cup {NoStream}]
    BY <1>2 DEF SetupAgain
  <2> QED  BY <1>2, <2>1, DeleteStreamTypes DEF SetupAgain, Request, Hears
<1>3. ASSUME NEW s \in Sessions, NEW d \in Dests, SetupRest(s, d)
      PROVE  TypeInv'
  <2>1. GetStreamParameters(s)
    BY <1>3 DEF SetupRest
  <2>2. /\ token' \in [Sessions -> Streams \cup {NoStream}] /\ refs' \in [Streams -> Nat]
        /\ last' \in Streams \cup {NoStream} /\ live \subseteq live' /\ live' \subseteq Streams
    BY <2>1 DEF GetStreamParameters
  <2> QED  BY <1>3, <2>2 DEF SetupRest, rtspVars, clientVars
<1>4. ASSUME NEW s \in Sessions, Play(s)
      PROVE  TypeInv'
  <2>1. s \in Keepers
    BY <1>4 DEF Play, Request, Keepers
  <2>2. token[s] # NoStream => token[s] \in live /\ dest[s] \in Dests
    BY <2>1 DEF SharingInv, OneSharedStream, Orderly, Keepers
  <2>3. CASE token[s] # NoStream
    <3>1. StartPlaying(token[s], dest[s], s) /\ played' = played \cup {s} /\ s \in attached
      BY <1>4, <2>3 DEF Play
    <3>2. [reporter[token[s]] EXCEPT ![dest[s]] = s] \in [Dests -> Sessions \cup {NoSession}]
      BY <2>2, <2>3
    <3>3. /\ reporter' \in [Streams -> [Dests -> Sessions \cup {NoSession}]]
          /\ sentTo' \in [Streams -> SUBSET Dests] /\ playing' \subseteq live
      BY <2>2, <2>3, <3>1, <3>2 DEF StartPlaying
    <3>4. Hears(s) /\ UNCHANGED <<open, attached, token, handling, dest, last, live, refs, abandoned>>
      BY <1>4 DEF Play, Request
    <3>5. timer' \in [Sessions -> 0..Timeout] /\ quiet' \in [Sessions -> 0..Timeout]
      BY <3>4 DEF Hears
    <3>6. played' \subseteq attached'
      BY <3>1, <3>4
    <3> QED  BY <3>3, <3>4, <3>5, <3>6
  <2>4. CASE token[s] = NoStream
    BY <1>4, <2>4 DEF Play, Request, Hears
  <2> QED  BY <2>3, <2>4
<1>5. ASSUME NEW s \in Sessions, KeepAlive(s)
      PROVE  TypeInv'
  BY <1>5 DEF KeepAlive, Request, Hears, streamVars
<1>6. ASSUME NEW s \in Sessions, Teardown(s)
      PROVE  TypeInv'
  BY <1>6, CloseSessionTypes DEF Teardown
<1>7. ASSUME NEW s \in Sessions, ReceiverReport(s)
      PROVE  TypeInv'
  <2>1. PICK h : timer' = IF h # NoSession THEN [timer EXCEPT ![h] = Timeout] ELSE timer
    BY <1>7 DEF ReceiverReport
  <2>2. timer' = timer \/ timer' = [t \in Sessions |-> IF t = h THEN Timeout ELSE timer[t]]
    BY <2>1
  <2>3. timer' \in [Sessions -> 0..Timeout]
    BY <2>2
  <2> QED  BY <1>7, <2>3 DEF ReceiverReport, streamVars
<1>8. ASSUME NEW s \in Sessions, LivenessTimeout(s)
      PROVE  TypeInv'
  BY <1>8, CloseSessionTypes DEF LivenessTimeout
<1>9. ASSUME NEW s \in Sessions, Abandon(s)
      PROVE  TypeInv'
  BY <1>9 DEF Abandon, rtspVars, streamVars
<1>10. CASE Tick
  BY <1>10 DEF Tick, streamVars
<1>11. CASE UNCHANGED vars
  BY <1>11 DEF vars, rtspVars, streamVars, clientVars
<1> QED  BY <1>1, <1>2, <1>3, <1>4, <1>5, <1>6, <1>7, <1>8, <1>9, <1>10, <1>11 DEF Next

-----------------------------------------------------------------------------
(* The kinds of steps.                                                     *)

\* A session that is closed leaves its stream.
LEMMA ClosingLeaves ==
    ASSUME TypeInv, handling = NoSession, handling' = handling, NEW s \in open, CloseSession(s)
    PROVE  Leaving(s)
BY DEF TypeInv, CloseSession, Leaving, Keepers

\* Every step is one of four kinds.
LEMMA StepKinds ==
    ASSUME TypeInv, Orderly, [Next]_vars
    PROVE  \/ Idle
           \/ \E s \in Sessions : \/ Leaving(s) \/ Play(s)
                                  \/ \E d \in Dests : SetupRest(s, d)
<1> USE DEF TypeInv
<1>1. ASSUME NEW s \in Sessions, SetupNew(s)
      PROVE  Idle
  BY <1>1 DEF SetupNew, Idle, Keepers, Orderly
<1>2. ASSUME NEW s \in Sessions, SetupAgain(s)
      PROVE  Leaving(s)
  BY <1>2 DEF SetupAgain, Request, Leaving, Keepers
<1>3. ASSUME NEW s \in Sessions, KeepAlive(s) \/ ReceiverReport(s) \/ Abandon(s)
      PROVE  Idle
  BY <1>3 DEF KeepAlive, ReceiverReport, Abandon, Request, Idle, Keepers, rtspVars
<1>4. ASSUME NEW s \in Sessions, Teardown(s) \/ LivenessTimeout(s)
      PROVE  Leaving(s)
  BY <1>4, ClosingLeaves DEF Teardown, LivenessTimeout
<1>5. CASE Tick
  BY <1>5 DEF Tick, Idle, Keepers
<1>6. CASE UNCHANGED vars
  BY <1>6 DEF vars, rtspVars, clientVars, Idle, Keepers
<1> QED  BY <1>1, <1>2, <1>3, <1>4, <1>5, <1>6 DEF Next

\* A session that holds a stream holds the one that there is, which counts what it leaves
\* behind.
LEMMA HolderCounts ==
    ASSUME TypeInv, OneSharedStream, NEW s \in Keepers, token[s] # NoStream
    PROVE  \E i \in Streams :
             /\ token[s] = i /\ last = i /\ live = {i}
             /\ Left(s) \in Nat /\ Left(s) = Cardinality(Holding(i) \ {s})
             /\ Left(s) = 0 <=> Holding(i) \ {s} = {}
<1>1. token[s] \in live
  BY DEF OneSharedStream, Keepers
<1>2. PICK i \in Streams : token[s] = i /\ last = i /\ live = {i}
  BY <1>1 DEF OneSharedStream, TypeInv
<1>3. IsFiniteSet(Holding(i))
  BY FiniteAssumption, FS_Subset DEF Holding, TypeInv
<1>4. s \in Holding(i)
  BY <1>2 DEF Holding, Keepers
<1>5. refs[i] = Cardinality(Holding(i)) /\ refs[i] > 0 /\ refs[i] \in Nat
  BY <1>2 DEF OneSharedStream, TypeInv
<1>6. /\ IsFiniteSet(Holding(i) \ {s})
      /\ Cardinality(Holding(i) \ {s}) = Cardinality(Holding(i)) - 1
  BY <1>3, <1>4, FS_RemoveElement
<1>7. Left(s) = refs[i] - 1
  BY <1>2, <1>5 DEF Left
<1>8. Left(s) = 0 <=> Holding(i) \ {s} = {}
  BY <1>5, <1>6, <1>7, FS_EmptySet
<1>9. Left(s) \in Nat /\ Left(s) = Cardinality(Holding(i) \ {s})
  BY <1>5, <1>6, <1>7
<1> QED  BY <1>2, <1>8, <1>9, Zenon

-----------------------------------------------------------------------------
(* The reference count.                                                    *)

\* When nobody joins or leaves, the same sessions hold each stream.
LEMMA IdleHolding ==
    ASSUME TypeInv, Idle, NEW i \in Streams
    PROVE  Holding(i)' = Holding(i)
BY DEF TypeInv, Idle, Holding, Keepers

\* A session that leaves a stream no longer holds it, and the others do.
LEMMA LeavingHolding ==
    ASSUME TypeInv, NEW s \in Sessions, Leaving(s), NEW i \in Streams
    PROVE  Holding(i)' = Holding(i) \ {s}
BY DEF TypeInv, Leaving, Holding, Keepers

\* A session that is done with its SETUP holds the stream there is.
LEMMA JoiningHolding ==
    ASSUME TypeInv, SharingInv, NEW s \in Sessions, NEW d \in Dests, SetupRest(s, d)
    PROVE  /\ s \in open /\ s \notin Keepers /\ Keepers' = Keepers \cup {s}
           /\ \E i \in Streams :
                /\ last \in {i, NoStream} /\ last' = i /\ live \subseteq {i} /\ live' = {i}
                /\ token' = [token EXCEPT ![s] = i]
                /\ Holding(i)' = Holding(i) \cup {s}
                /\ refs'[i] = Cardinality(Holding(i)) + 1
<1>1. s \in open /\ s \notin Keepers /\ Keepers' = Keepers \cup {s}
  BY DEF TypeInv, SetupRest, Keepers, rtspVars
<1>2. GetStreamParameters(s)
  BY DEF SetupRest
<1>3. CASE last # NoStream
  <2>1. PICK i \in Streams : last = i
    BY <1>3 DEF TypeInv
  <2>2. /\ last' = i /\ live = {i} /\ live' = {i} /\ token' = [token EXCEPT ![s] = i]
        /\ refs'[i] = Cardinality(Holding(i)) + 1
    BY <1>2, <1>3, <2>1 DEF TypeInv, GetStreamParameters, SharingInv, OneSharedStream
  <2>3. Holding(i)' = Holding(i) \cup {s}
    BY <1>1, <2>2 DEF TypeInv, Holding, Keepers
  <2> QED  BY <1>1, <2>1, <2>2, <2>3
<1>4. CASE last = NoStream
  <2>1. live = {} /\ \A t \in Keepers : token[t] = NoStream
    BY <1>4 DEF SharingInv, OneSharedStream, Keepers
  <2>2. PICK i \in Streams : /\ token' = [token EXCEPT ![s] = i] /\ refs' = [refs EXCEPT ![i] = 1]
                             /\ last' = i /\ live' = {i}
    BY <1>2, <1>4, <2>1 DEF GetStreamParameters
  <2>3. Holding(i) = {} /\ Cardinality(Holding(i)) = 0
    BY <2>1, FS_EmptySet DEF Holding, Keepers
  <2>4. Holding(i)' = {s}
    BY <1>1, <2>1, <2>2 DEF TypeInv, Holding, Keepers
  <2>5. refs'[i] = Cardinality(Holding(i)) + 1
    BY <2>2, <2>3 DEF TypeInv
  <2>6. Holding(i)' = Holding(i) \cup {s} /\ live \subseteq {i} /\ last \in {i, NoStream}
    BY <1>4, <2>1, <2>3, <2>4
  <2> QED  BY <1>1, <2>2, <2>5, <2>6, Zenon
<1> QED  BY <1>3, <1>4

\* Leaving the stream keeps the count, and the last to leave deletes it.
LEMMA LeavingShares ==
    ASSUME TypeInv, SharingInv, NEW s \in Sessions, Leaving(s)
    PROVE  SharingInv'
<1>1. s \in Keepers /\ Keepers' = Keepers \ {s} /\ \A t \in Keepers' : token'[t] = token[t]
  BY DEF TypeInv, Leaving, Keepers
<1>2. dest' = [dest EXCEPT ![s] = NoDest]
  BY DEF Leaving, DeleteStream
<1>3. /\ \A t \in Sessions \ open' : token'[t] = NoStream /\ dest'[t] = NoDest
      /\ played' \subseteq Keepers'
  BY <1>1, <1>2 DEF TypeInv, SharingInv, Orderly, Leaving
<1>4. \A t \in Keepers' : token'[t] # NoStream => dest'[t] \in Dests
  BY <1>1, <1>2 DEF TypeInv, SharingInv, Orderly, Keepers
<1>5. CASE token[s] = NoStream
  <2>1. UNCHANGED streamVars
    BY <1>5 DEF Leaving, DeleteStream
  <2>2. \A i \in live : Holding(i)' = Holding(i)
    BY <1>5, LeavingHolding DEF TypeInv, Holding
  <2>3. OneSharedStream'
    BY <1>1, <2>1, <2>2 DEF SharingInv, OneSharedStream, Keepers, streamVars
  <2>4. Orderly'
    BY <1>3, <1>4, <2>1 DEF SharingInv, Orderly, streamVars
  <2> QED  BY <2>3, <2>4 DEF SharingInv
<1>6. CASE token[s] # NoStream
  <2>1. PICK i \in Streams :
             /\ token[s] = i /\ last = i /\ live = {i}
             /\ Left(s) \in Nat /\ Left(s) = Cardinality(Holding(i) \ {s})
             /\ Left(s) = 0 <=> Holding(i) \ {s} = {}
    BY <1>1, <1>6, HolderCounts DEF SharingInv
  <2>2. CASE Left(s) = 0
    <3>1. Reclaim(i)
      BY <1>6, <2>1, <2>2 DEF Leaving, DeleteStream
    <3>2. live' = {} /\ last' = NoStream
      BY <2>1, <3>1 DEF Reclaim
    <3>3. \A t \in Keepers' : token'[t] = NoStream
      BY <1>1, <2>1, <2>2 DEF SharingInv, OneSharedStream, Holding, Keepers
    <3>4. OneSharedStream'
      BY <3>2, <3>3 DEF OneSharedStream, Keepers
    <3>5. \A j \in Streams : sentTo'[j] = {} /\ \A d \in Dests : reporter'[j][d] = NoSession
      BY <2>1, <3>1 DEF TypeInv, SharingInv, Orderly, Reclaim
    <3> QED  BY <1>3, <1>4, <3>4, <3>5 DEF SharingInv, Orderly
  <2>3. CASE Left(s) # 0
    <3>1. EndPlaying(i, dest[s]) /\ refs' = [refs EXCEPT ![i] = Left(s)]
      BY <1>6, <2>1, <2>3 DEF Leaving, DeleteStream
    <3>2. live' = live /\ last' = last
      BY <3>1 DEF EndPlaying
    <3>3. refs'[i] = Cardinality(Holding(i)') /\ refs'[i] > 0
      <4>1. Holding(i)' = Holding(i) \ {s}
        BY LeavingHolding
      <4>2. refs'[i] = Left(s)
        BY <3>1 DEF TypeInv
      <4> QED  BY <2>1, <2>3, <4>1, <4>2
    <3>4. OneSharedStream'
      BY <1>1, <2>1, <3>2, <3>3 DEF SharingInv, OneSharedStream, Keepers
    <3>5. \A j \in Streams \ live' : sentTo'[j] = sentTo[j] /\ reporter'[j] = reporter[j]
      BY <2>1, <3>1, <3>2 DEF TypeInv, EndPlaying
    <3> QED  BY <1>3, <1>4, <3>2, <3>4, <3>5 DEF SharingInv, Orderly
  <2> QED  BY <2>2, <2>3
<1> QED  BY <1>5, <1>6

\* Joining the stream counts.
LEMMA JoiningShares ==
    ASSUME TypeInv, SharingInv, NEW s \in Sessions, NEW d \in Dests, SetupRest(s, d)
    PROVE  SharingInv'
<1>1. s \in open /\ s \notin Keepers /\ Keepers' = Keepers \cup {s}
  BY JoiningHolding
<1>2. PICK i \in Streams :
           /\ last \in {i, NoStream} /\ last' = i /\ live \subseteq {i} /\ live' = {i}
           /\ token' = [token EXCEPT ![s] = i]
           /\ Holding(i)' = Holding(i) \cup {s}
           /\ refs'[i] = Cardinality(Holding(i)) + 1
  BY JoiningHolding
<1>3. open' = open /\ dest' = [dest EXCEPT ![s] = d] /\ UNCHANGED <<sentTo, reporter, played>>
  BY DEF SetupRest, rtspVars, clientVars
<1>4. refs'[i] = Cardinality(Holding(i)') /\ refs'[i] > 0
  <2>1. IsFiniteSet(Holding(i)) /\ s \notin Holding(i)
    BY <1>1, FiniteAssumption, FS_Subset DEF Holding, TypeInv, Keepers
  <2>2. Cardinality(Holding(i)) \in Nat
    BY <2>1, FS_CardinalityType
  <2>3. Cardinality(Holding(i) \cup {s}) = Cardinality(Holding(i)) + 1
    BY <2>1, FS_AddElement
  <2> QED  BY <1>2, <2>2, <2>3
<1>5. \A t \in Keepers' : token'[t] # NoStream => token'[t] = i
  <2>1. \A t \in Keepers : token[t] # NoStream => token[t] = i
    BY <1>2 DEF SharingInv, OneSharedStream, Keepers
  <2> QED  BY <1>1, <1>2, <2>1 DEF TypeInv, Keepers
<1>6. OneSharedStream'
  <2>1. live' = IF last' = NoStream THEN {} ELSE {last'}
    BY <1>2
  <2>2. \A j \in live' : refs'[j] = Cardinality(Holding(j)') /\ refs'[j] > 0
    BY <1>2, <1>4
  <2>3. \A t \in open' \ {handling'} : token'[t] # NoStream => token'[t] \in live'
    BY <1>2, <1>5 DEF Keepers
  <2> QED  BY <2>1, <2>2, <2>3 DEF OneSharedStream
<1>7. Orderly'
  <2>1. \A t \in Sessions \ open' : token'[t] = NoStream /\ dest'[t] = NoDest
    BY <1>1, <1>2, <1>3 DEF TypeInv, SharingInv, Orderly
  <2>2. \A t \in Keepers' : token'[t] # NoStream => dest'[t] \in Dests
    BY <1>1, <1>2, <1>3 DEF TypeInv, SharingInv, Orderly, Keepers
  <2> QED  BY <1>1, <1>2, <1>3, <2>1, <2>2 DEF SharingInv, Orderly
<1> QED  BY <1>6, <1>7 DEF SharingInv

\* Playing changes nothing of this.
LEMMA PlayShares ==
    ASSUME TypeInv, SharingInv, NEW s \in Sessions, Play(s)
    PROVE  SharingInv'
<1>1. UNCHANGED <<open, token, handling, dest, last, live, refs>> /\ s \in Keepers
  BY DEF Play, Request, Keepers
<1>2. OneSharedStream'
  BY <1>1 DEF SharingInv, OneSharedStream, Holding
<1>3. played' \subseteq Keepers'
  BY <1>1 DEF SharingInv, Orderly, Play, Keepers
<1>4. \A i \in Streams \ live' : sentTo'[i] = sentTo[i] /\ reporter'[i] = reporter[i]
  <2>1. token[s] # NoStream => token[s] \in live
    BY <1>1 DEF SharingInv, OneSharedStream, Keepers
  <2> QED  BY <1>1, <2>1 DEF TypeInv, Play, StartPlaying
<1> QED  BY <1>1, <1>2, <1>3, <1>4 DEF SharingInv, Orderly, Keepers

\* Every step keeps the stream counted.
LEMMA SharingStep ==
    ASSUME TypeInv, SharingInv, [Next]_vars
    PROVE  SharingInv'
<1>1. CASE Idle
  <2>1. \A i \in Streams : Holding(i)' = Holding(i)
    BY <1>1, IdleHolding
  <2>2. OneSharedStream'
    BY <1>1, <2>1 DEF TypeInv, SharingInv, OneSharedStream, Idle, Keepers, streamVars
  <2>3. Orderly'
    BY <1>1 DEF SharingInv, Orderly, Idle, streamVars
  <2> QED  BY <2>2, <2>3 DEF SharingInv
<1> QED  BY <1>1, StepKinds, LeavingShares, JoiningShares, PlayShares DEF SharingInv

\* Types and the count hold from the start.
LEMMA SharingInit == Init => SharingInv
<1> SUFFICES ASSUME Init
             PROVE  SharingInv
  OBVIOUS
<1>1. OneSharedStream
  BY DEF Init, OneSharedStream
<1>2. Orderly
  BY DEF Init, Orderly, Keepers
<1> QED  BY <1>1, <1>2 DEF SharingInv

\* The types and the sharing of the stream hold together.
LEMMA TypedAndShared == Spec => [](TypeInv /\ SharingInv)
BY TypeInit, SharingInit, TypeStep, SharingStep, PTL DEF Spec

\* Every variable keeps its type.
THEOREM TypeCorrect == Spec => []TypeInv
BY TypedAndShared, PTL

\* The reference count is the number of sessions that hold the stream, there is at most one
\* stream, and no session keeps a deleted one.
THEOREM CountedRight == Spec => []OneSharedStream
<1>1. SharingInv => OneSharedStream
  BY DEF SharingInv
<1> QED  BY <1>1, TypedAndShared, PTL

-----------------------------------------------------------------------------
(* Destinations and report handlers.                                       *)

TidyInv == ReportersAreOpen /\ NothingSentAstray

\* A session that leaves takes its destination and its report handler with it.
LEMMA LeavingTidy ==
    ASSUME TypeInv, SharingInv, TidyInv, NEW s \in Sessions, Leaving(s)
    PROVE  TidyInv'
<1>1. /\ s \in Keepers /\ dest' = [dest EXCEPT ![s] = NoDest] /\ played' = played \ {s}
      /\ \A i \in Streams : Holding(i)' = Holding(i) \ {s}
  BY LeavingHolding DEF Leaving, DeleteStream
<1>2. \A i \in Streams : Holding(i) \subseteq Sessions
  BY DEF TypeInv, Holding
<1>3. CASE token[s] = NoStream
  <2>1. UNCHANGED streamVars
    BY <1>3 DEF Leaving, DeleteStream
  <2>2. \A i \in live : s \notin Holding(i)
    BY <1>3 DEF TypeInv, Holding
  <2>3. ReportersAreOpen'
    BY <1>1, <1>2, <2>1, <2>2 DEF TypeInv, TidyInv, ReportersAreOpen, streamVars
  <2>4. NothingSentAstray'
    BY <1>1, <1>2, <2>1, <2>2 DEF TypeInv, TidyInv, NothingSentAstray, streamVars
  <2> QED  BY <2>3, <2>4 DEF TidyInv
<1>4. CASE token[s] # NoStream
  <2>1. PICK i \in Streams :
             /\ token[s] = i /\ last = i /\ live = {i}
             /\ Left(s) \in Nat /\ Left(s) = Cardinality(Holding(i) \ {s})
             /\ Left(s) = 0 <=> Holding(i) \ {s} = {}
    BY <1>1, <1>4, HolderCounts DEF SharingInv
  <2>2. CASE Left(s) = 0
    <3>1. live' = {}
      BY <1>4, <2>1, <2>2 DEF Leaving, DeleteStream, Reclaim
    <3> QED  BY <3>1 DEF TidyInv, ReportersAreOpen, NothingSentAstray
  <2>3. CASE Left(s) # 0
    <3>1. EndPlaying(i, dest[s]) /\ dest[s] \in Dests
      BY <1>1, <1>4, <2>1, <2>3 DEF Leaving, DeleteStream, SharingInv, Orderly
    <3>2. live' = {i} /\ sentTo'[i] = sentTo[i] \ {dest[s]}
      BY <2>1, <3>1 DEF TypeInv, EndPlaying
    <3>3. \A d \in Dests : reporter'[i][d] = IF d = dest[s] THEN NoSession ELSE reporter[i][d]
      BY <3>1 DEF TypeInv, EndPlaying
    <3>4. ReportersAreOpen'
      <4>1. \A d \in Dests : reporter'[i][d] # NoSession =>
                 /\ reporter'[i][d] = reporter[i][d] /\ reporter[i][d] \in Holding(i) \ {s}
                 /\ dest[reporter[i][d]] = d
        BY <2>1, <3>3 DEF TidyInv, ReportersAreOpen
      <4>2. \A d \in Dests : reporter'[i][d] # NoSession =>
                 reporter'[i][d] \in Holding(i)' /\ dest'[reporter'[i][d]] = d
        BY <1>1, <1>2, <4>1 DEF TypeInv
      <4> QED  BY <3>2, <4>2 DEF ReportersAreOpen
    <3>5. NothingSentAstray'
      <4>1. \A d \in sentTo'[i] : \E t \in (Holding(i) \cap played) \ {s} : dest[t] = d
        BY <2>1, <3>2 DEF TidyInv, NothingSentAstray
      <4>2. \A d \in sentTo'[i] : \E t \in Holding(i)' \cap played' : dest'[t] = d
        BY <1>1, <1>2, <4>1 DEF TypeInv
      <4> QED  BY <3>2, <4>2 DEF NothingSentAstray
    <3> QED  BY <3>4, <3>5 DEF TidyInv
  <2> QED  BY <2>2, <2>3
<1> QED  BY <1>3, <1>4

\* A session that joins finds nothing of its own, and what others have as they left it.
LEMMA JoiningTidy ==
    ASSUME TypeInv, SharingInv, TidyInv, NEW s \in Sessions, NEW d \in Dests, SetupRest(s, d)
    PROVE  TidyInv'
<1>1. s \in open /\ s \notin Keepers
  BY JoiningHolding
<1>2. PICK i \in Streams :
           /\ last \in {i, NoStream} /\ last' = i /\ live \subseteq {i} /\ live' = {i}
           /\ token' = [token EXCEPT ![s] = i]
           /\ Holding(i)' = Holding(i) \cup {s}
           /\ refs'[i] = Cardinality(Holding(i)) + 1
  BY JoiningHolding
<1>3. /\ dest' = [dest EXCEPT ![s] = d] /\ UNCHANGED <<sentTo, reporter, played>>
      /\ s \notin Holding(i) /\ Holding(i) \subseteq Sessions
  BY <1>1 DEF TypeInv, SetupRest, Holding, Keepers, rtspVars, clientVars
<1>4. CASE i \notin live
  <2>1. sentTo[i] = {} /\ \A x \in Dests : reporter[i][x] = NoSession
    BY <1>4 DEF SharingInv, Orderly
  <2> QED  BY <1>2, <1>3, <2>1 DEF TidyInv, ReportersAreOpen, NothingSentAstray
<1>5. CASE i \in live
  <2>1. ReportersAreOpen'
    <3>1. \A x \in Dests : reporter[i][x] # NoSession =>
               reporter[i][x] \in Holding(i) /\ dest[reporter[i][x]] = x
      BY <1>5 DEF TidyInv, ReportersAreOpen
    <3>2. \A x \in Dests : reporter[i][x] # NoSession =>
               reporter[i][x] \in Holding(i)' /\ dest'[reporter[i][x]] = x
      BY <1>2, <1>3, <3>1 DEF TypeInv
    <3> QED  BY <1>2, <1>3, <3>2 DEF ReportersAreOpen
  <2>2. NothingSentAstray'
    <3>1. \A x \in sentTo[i] : \E t \in Holding(i) \cap played : dest[t] = x
      BY <1>5 DEF TidyInv, NothingSentAstray
    <3>2. \A x \in sentTo[i] : \E t \in Holding(i)' \cap played : dest'[t] = x
      BY <1>2, <1>3, <3>1 DEF TypeInv
    <3> QED  BY <1>2, <1>3, <3>2 DEF NothingSentAstray
  <2> QED  BY <2>1, <2>2 DEF TidyInv
<1> QED  BY <1>4, <1>5

\* What a PLAY adds is of a session that holds the stream.
LEMMA PlayTidy ==
    ASSUME TypeInv, SharingInv, TidyInv, NEW s \in Sessions, Play(s)
    PROVE  TidyInv'
<1>1. s \in Keepers /\ UNCHANGED <<open, token, handling, dest, live>>
  BY DEF Play, Request, Keepers
<1>2. \A i \in Streams : Holding(i)' = Holding(i)
  BY <1>1 DEF Holding
<1>3. CASE token[s] = NoStream
  <2>1. UNCHANGED <<sentTo, reporter, played>>
    BY <1>3 DEF Play
  <2> QED  BY <1>1, <1>2, <2>1 DEF TypeInv, TidyInv, ReportersAreOpen, NothingSentAstray
<1>4. CASE token[s] # NoStream
  <2>1. PICK i \in Streams : token[s] = i /\ live = {i}
    BY <1>1, <1>4, HolderCounts DEF SharingInv
  <2>2. s \in Holding(i) /\ dest[s] \in Dests
    BY <1>1, <1>4, <2>1 DEF SharingInv, Orderly, Holding, Keepers
  <2>3. StartPlaying(i, dest[s], s) /\ played' = played \cup {s}
    BY <1>4, <2>1 DEF Play
  <2>4. sentTo'[i] = sentTo[i] \cup {dest[s]}
    BY <2>3 DEF TypeInv, StartPlaying
  <2>5. \A d \in Dests : reporter'[i][d] = IF d = dest[s] THEN s ELSE reporter[i][d]
    BY <2>3 DEF TypeInv, StartPlaying
  <2>6. ReportersAreOpen'
    BY <1>1, <1>2, <2>1, <2>2, <2>5 DEF TidyInv, ReportersAreOpen
  <2>7. NothingSentAstray'
    BY <1>1, <1>2, <2>1, <2>2, <2>3, <2>4 DEF TidyInv, NothingSentAstray
  <2> QED  BY <2>6, <2>7 DEF TidyInv
<1> QED  BY <1>3, <1>4

\* Every step keeps the destinations and report handlers tidy.
LEMMA TidyStep ==
    ASSUME TypeInv, SharingInv, TidyInv, [Next]_vars
    PROVE  TidyInv'
<1>1. CASE Idle
  <2>1. \A i \in Streams : Holding(i)' = Holding(i)
    BY <1>1, IdleHolding
  <2>2. UNCHANGED <<dest, live, sentTo, reporter, played>>
    BY <1>1 DEF Idle, streamVars
  <2>3. ReportersAreOpen'
    BY <2>1, <2>2 DEF TypeInv, TidyInv, ReportersAreOpen
  <2>4. NothingSentAstray'
    BY <2>1, <2>2 DEF TypeInv, TidyInv, NothingSentAstray
  <2> QED  BY <2>3, <2>4 DEF TidyInv
<1> QED  BY <1>1, StepKinds, LeavingTidy, JoiningTidy, PlayTidy DEF SharingInv

\* The destinations and report handlers are tidy throughout.
LEMMA Tidy == Spec => []TidyInv
<1>1. Init => TidyInv
  BY DEF Init, TidyInv, ReportersAreOpen, NothingSentAstray
<1> QED  BY <1>1, TidyStep, TypedAndShared, PTL DEF Spec

\* A receiver report reaches no session that is gone or receives elsewhere.
THEOREM ReportersOpen == Spec => []ReportersAreOpen
<1>1. TidyInv => ReportersAreOpen
  BY DEF TidyInv
<1> QED  BY <1>1, Tidy, PTL

\* The stream is sent only to places of sessions that hold it and asked for it.
THEOREM SentWhereAsked == Spec => []NothingSentAstray
<1>1. TidyInv => NothingSentAstray
  BY DEF TidyInv
<1> QED  BY <1>1, Tidy, PTL

-----------------------------------------------------------------------------
(* Clients that play, when no client comes back to ports it used before.   *)

\* No two sessions have the same destination.
OwnPorts == \A s, t \in open : s # t /\ dest[s] \in Dests => dest[t] # dest[s]

ServedInv == OwnPorts /\ PlayedAreSent

\* A session that leaves takes nothing from those that play.
LEMMA LeavingServed ==
    ASSUME TypeInv, SharingInv, ServedInv, NEW s \in Sessions, Leaving(s)
    PROVE  ServedInv'
<1>1. /\ s \in Keepers /\ dest' = [dest EXCEPT ![s] = NoDest] /\ played' = played \ {s}
      /\ open' \subseteq open /\ played \subseteq Keepers
      /\ \A t \in Sessions \ {s} : token'[t] = token[t] /\ dest'[t] = dest[t]
  BY DEF TypeInv, SharingInv, Orderly, Leaving, DeleteStream
<1>2. OwnPorts'
  BY <1>1 DEF TypeInv, ServedInv, OwnPorts
<1>3. CASE token[s] = NoStream
  <2>1. UNCHANGED streamVars
    BY <1>3 DEF Leaving, DeleteStream
  <2>2. PlayedAreSent'
    BY <1>1, <2>1 DEF TypeInv, ServedInv, PlayedAreSent, streamVars
  <2> QED  BY <1>2, <2>2 DEF ServedInv
<1>4. CASE token[s] # NoStream
  <2>1. PICK i \in Streams :
             /\ token[s] = i /\ last = i /\ live = {i}
             /\ Left(s) \in Nat /\ Left(s) = Cardinality(Holding(i) \ {s})
             /\ Left(s) = 0 <=> Holding(i) \ {s} = {}
    BY <1>1, <1>4, HolderCounts DEF SharingInv
  <2>2. dest[s] \in Dests
    BY <1>1, <1>4 DEF SharingInv, Orderly
  <2> SUFFICES ASSUME NEW t \in played'
               PROVE  /\ token'[t] \in playing'
                      /\ dest'[t] \in sentTo'[token'[t]] /\ reporter'[token'[t]][dest'[t]] = t
    BY <1>2 DEF ServedInv, PlayedAreSent
  <2>3. t \in Keepers \ {s} /\ t \in Sessions /\ token'[t] = token[t] /\ dest'[t] = dest[t]
    BY <1>1 DEF TypeInv, Keepers
  <2>4. /\ token[t] = i /\ i \in playing
        /\ dest[t] \in sentTo[i] /\ reporter[i][dest[t]] = t
    BY <1>1, <2>1, <2>3 DEF TypeInv, ServedInv, PlayedAreSent
  <2>5. t \in Holding(i) \ {s}
    BY <2>3, <2>4 DEF Holding, Keepers
  <2>6. EndPlaying(i, dest[s])
    BY <1>4, <2>1, <2>5 DEF Leaving, DeleteStream
  <2>7. dest[t] # dest[s] /\ dest[t] \in Dests
    BY <1>1, <2>2, <2>3, <2>4 DEF TypeInv, ServedInv, OwnPorts, Keepers
  <2> QED  BY <2>3, <2>4, <2>6, <2>7 DEF TypeInv, EndPlaying
<1> QED  BY <1>3, <1>4

\* A client that comes with ports of its own takes nothing from those that play.
LEMMA JoiningServed ==
    ASSUME ~PortReuse, TypeInv, SharingInv, ServedInv,
           NEW s \in Sessions, NEW d \in Dests, SetupRest(s, d)
    PROVE  ServedInv'
<1>1. /\ s \notin played
      /\ dest' = [dest EXCEPT ![s] = d] /\ UNCHANGED <<open, playing, sentTo, reporter, played>>
  BY JoiningHolding DEF SharingInv, Orderly, SetupRest, rtspVars, clientVars
<1>2. \A t \in Sessions \ {s} : token'[t] = token[t] /\ dest'[t] = dest[t]
  BY <1>1 DEF TypeInv, SetupRest, GetStreamParameters
<1>3. OwnPorts'
  BY <1>1 DEF TypeInv, ServedInv, OwnPorts, SetupRest, Available
<1>4. PlayedAreSent'
  BY <1>1, <1>2 DEF TypeInv, ServedInv, PlayedAreSent
<1> QED  BY <1>3, <1>4 DEF ServedInv

\* A client that plays is served from then on, and takes nothing from the others.
LEMMA PlayServed ==
    ASSUME TypeInv, SharingInv, ServedInv, NEW s \in Sessions, Play(s)
    PROVE  ServedInv'
<1>1. s \in Keepers /\ UNCHANGED <<open, token, handling, dest, live>>
  BY DEF Play, Request, Keepers
<1>2. OwnPorts'
  BY <1>1 DEF ServedInv, OwnPorts
<1>3. CASE token[s] = NoStream
  BY <1>1, <1>2, <1>3 DEF Play, ServedInv, PlayedAreSent
<1>4. CASE token[s] # NoStream
  <2>1. PICK i \in Streams : token[s] = i
    BY <1>4 DEF TypeInv
  <2>2. StartPlaying(i, dest[s], s) /\ played' = played \cup {s}
    BY <1>4, <2>1 DEF Play
  <2>3. dest[s] \in Dests
    BY <1>1, <1>4 DEF SharingInv, Orderly
  <2> SUFFICES ASSUME NEW t \in played'
               PROVE  /\ token[t] \in playing'
                      /\ dest[t] \in sentTo'[token[t]] /\ reporter'[token[t]][dest[t]] = t
    BY <1>1, <1>2 DEF ServedInv, PlayedAreSent
  <2>4. CASE t = s
    BY <2>1, <2>2, <2>3, <2>4 DEF TypeInv, StartPlaying
  <2>5. CASE t # s
    <3>1. /\ token[t] \in playing /\ token[t] \in Streams
          /\ dest[t] \in sentTo[token[t]] /\ reporter[token[t]][dest[t]] = t
      BY <2>2, <2>5 DEF TypeInv, ServedInv, PlayedAreSent
    <3>2. dest[t] # dest[s]
      BY <1>1, <2>2, <2>3, <2>5 DEF TypeInv, ServedInv, OwnPorts, Keepers
    <3> QED  BY <2>2, <3>1, <3>2 DEF TypeInv, StartPlaying
  <2> QED  BY <2>4, <2>5
<1> QED  BY <1>3, <1>4

\* Every step keeps those that play served.
LEMMA ServedStep ==
    ASSUME ~PortReuse, TypeInv, TypeInv', SharingInv, ServedInv, [Next]_vars
    PROVE  ServedInv'
<1>1. CASE Idle
  <2>1. UNCHANGED <<token, dest, playing, sentTo, reporter, played>>
    BY <1>1 DEF Idle, streamVars
  <2>2. \A s \in open' : s \in open \/ dest[s] = NoDest
    BY DEF TypeInv, SharingInv, Orderly
  <2>3. OwnPorts'
    BY <2>1, <2>2 DEF TypeInv, ServedInv, OwnPorts
  <2>4. PlayedAreSent'
    BY <2>1 DEF ServedInv, PlayedAreSent
  <2> QED  BY <2>3, <2>4 DEF ServedInv
<1> QED  BY <1>1, StepKinds, LeavingServed, JoiningServed, PlayServed DEF SharingInv

\* Those that play are served throughout.
LEMMA Served ==
    ASSUME ~PortReuse
    PROVE  Spec => []ServedInv
<1>1. Init => ServedInv
  BY DEF Init, ServedInv, OwnPorts, PlayedAreSent
<1>2. TypeInv /\ TypeInv' /\ SharingInv /\ ServedInv /\ [Next]_vars => ServedInv'
  BY ServedStep
<1> QED  BY <1>1, <1>2, TypedAndShared, PTL DEF Spec

\* When no client comes back to ports it used before, every client that was answered to a
\* PLAY is sent the stream, whatever others do.
THEOREM PlayersSent ==
    ASSUME ~PortReuse
    PROVE  Spec => []PlayedAreSent
<1>1. ServedInv => PlayedAreSent
  BY DEF ServedInv
<1> QED  BY <1>1, Served, PTL

\* What the time-out of a session and the silence of its client add up to.
SilenceInv == \A s \in open : timer[s] + quiet[s] >= Timeout

\* Every step keeps the two in step.
LEMMA SilenceStep ==
    ASSUME TypeInv, TypeInv', ServedInv, SilenceInv, [Next]_vars
    PROVE  SilenceInv'
<1> USE DEF TypeInv, SilenceInv
<1>1. ASSUME NEW s \in Sessions,
             open' \subseteq open \cup {s}, Hears(s) \/ (s \notin open' /\
               timer' = [timer EXCEPT ![s] = 0] /\ quiet' = [quiet EXCEPT ![s] = 0])
      PROVE  SilenceInv'
  <2>1. \A t \in Sessions \ {s} : timer'[t] = timer[t] /\ quiet'[t] = quiet[t]
    BY <1>1 DEF Hears
  <2>2. s \in open' => timer'[s] = Timeout /\ quiet'[s] = 0
    BY <1>1 DEF Hears
  <2> QED  BY <1>1, <2>1, <2>2
<1>2. ASSUME NEW s \in Sessions,
             SetupNew(s) \/ SetupAgain(s) \/ Play(s) \/ KeepAlive(s)
      PROVE  SilenceInv'
  BY <1>1, <1>2 DEF SetupNew, SetupAgain, Play, KeepAlive, Request
<1>3. ASSUME NEW s \in Sessions, Teardown(s) \/ LivenessTimeout(s)
      PROVE  SilenceInv'
  BY <1>1, <1>3 DEF Teardown, LivenessTimeout, CloseSession
<1>4. ASSUME NEW s \in Sessions, ReceiverReport(s)
      PROVE  SilenceInv'
  <2>1. reporter[token[s]][dest[s]] = s
    BY <1>4 DEF ReceiverReport, ServedInv, PlayedAreSent
  <2>2. Hears(s) /\ open' = open
    BY <1>4, <2>1 DEF ReceiverReport, Hears
  <2> QED  BY <1>1, <2>2
<1>5. ASSUME NEW s \in Sessions, Abandon(s) \/ \E d \in Dests : SetupRest(s, d)
      PROVE  SilenceInv'
  BY <1>5 DEF Abandon, SetupRest, rtspVars, clientVars
<1>6. CASE Tick
  <2>1. ASSUME NEW s \in open
        PROVE  timer'[s] + quiet'[s] >= Timeout
    BY <1>6, <2>1 DEF Tick
  <2> QED  BY <1>6, <2>1 DEF Tick
<1>7. CASE UNCHANGED vars
  BY <1>7 DEF vars, rtspVars, clientVars
<1> QED  BY <1>2, <1>3, <1>4, <1>5, <1>6, <1>7 DEF Next

\* When no client comes back to ports it used before, no session is about to be reclaimed
\* while its client is heard of.
THEOREM SilentReclaimed ==
    ASSUME ~PortReuse
    PROVE  Spec => []ReclaimedOnlyWhenSilent
<1>1. Init => SilenceInv
  BY DEF Init, SilenceInv
<1>2. TypeInv /\ TypeInv' /\ ServedInv /\ SilenceInv /\ [Next]_vars => SilenceInv'
  BY SilenceStep
<1>3. TypeInv /\ SilenceInv => ReclaimedOnlyWhenSilent
  <2> SUFFICES ASSUME TypeInv, SilenceInv, NEW s \in open, timer[s] = 0
               PROVE  quiet[s] = Timeout
    BY DEF ReclaimedOnlyWhenSilent
  <2>1. quiet[s] \in 0..Timeout /\ Timeout \in Nat
    BY DEF TypeInv
  <2>2. timer[s] + quiet[s] >= Timeout
    BY DEF SilenceInv
  <2> QED  BY <2>1, <2>2
<1> QED  BY <1>1, <1>2, <1>3, TypedAndShared, Served, PTL DEF Spec

-----------------------------------------------------------------------------
(* Refinement.                                                             *)

\* The holders of SharedStream.
Holders == {s \in open \ {handling} : token[s] # NoStream}

\* A session that leaves the stream stops it when it is the last.
LEMMA LeavingRefines ==
    ASSUME TypeInv, TypeInv', SharingInv, NEW s \in Sessions, Leaving(s)
    PROVE  Shared!Leave(s) \/ UNCHANGED Shared!svars
<1>1. s \in Keepers /\ Holders' = Holders \ {s}
  BY DEF TypeInv, Leaving, Holders, Keepers
<1>2. CASE token[s] = NoStream
  <2>1. Holders' = Holders /\ playing' = playing
    BY <1>1, <1>2 DEF Leaving, DeleteStream, streamVars, Holders
  <2> QED  BY <2>1 DEF Shared!svars, Holders
<1>3. CASE token[s] # NoStream
  <2>1. PICK i \in Streams :
             /\ token[s] = i /\ last = i /\ live = {i}
             /\ Left(s) \in Nat /\ Left(s) = Cardinality(Holding(i) \ {s})
             /\ Left(s) = 0 <=> Holding(i) \ {s} = {}
    BY <1>1, <1>3, HolderCounts DEF SharingInv
  <2>2. s \in Holders
    BY <1>1, <1>3 DEF Holders, Keepers
  <2>3. Holders = Holding(i)
    BY <2>1 DEF TypeInv, SharingInv, OneSharedStream, Holders, Holding
  <2>4. (playing' # {}) <=> (playing # {} /\ Holders' # {})
    <3>1. CASE Left(s) = 0
      <4>1. live' = {} /\ Holders' = {}
        BY <1>1, <1>3, <2>1, <2>3, <3>1 DEF Leaving, DeleteStream, Reclaim
      <4> QED  BY <4>1 DEF TypeInv
    <3>2. CASE Left(s) # 0
      <4>1. playing' = playing /\ Holders' # {}
        BY <1>1, <1>3, <2>1, <2>3, <3>2 DEF Leaving, DeleteStream, EndPlaying
      <4> QED  BY <4>1
    <3> QED  BY <3>1, <3>2
  <2> QED  BY <1>1, <2>2, <2>4 DEF Shared!Leave, Holders
<1> QED  BY <1>2, <1>3

\* A session that is done with its SETUP joins.
LEMMA JoiningRefines ==
    ASSUME TypeInv, SharingInv, NEW s \in Sessions, NEW d \in Dests, SetupRest(s, d)
    PROVE  Shared!Join(s)
<1>1. s \in open /\ s \notin Keepers /\ Keepers' = Keepers \cup {s} /\ playing' = playing
  BY JoiningHolding DEF SetupRest
<1>2. \E i \in Streams : token' = [token EXCEPT ![s] = i]
  BY JoiningHolding
<1>3. Holders' = Holders \cup {s} /\ s \notin Holders
  BY <1>1, <1>2 DEF TypeInv, Holders, Keepers
<1> QED  BY <1>1, <1>3 DEF Shared!Join, Holders

\* The first PLAY starts the stream, and no other does anything to it.
LEMMA PlayRefines ==
    ASSUME TypeInv, SharingInv, NEW s \in Sessions, Play(s)
    PROVE  Shared!Start \/ UNCHANGED Shared!svars
<1>1. UNCHANGED <<open, handling, token>> /\ s \in Keepers
  BY DEF Play, Request, Keepers
<1>2. Holders' = Holders
  BY <1>1 DEF Holders
<1>3. CASE playing' = playing
  BY <1>2, <1>3 DEF Shared!svars, Holders
<1>4. CASE playing' # playing
  <2>1. token[s] # NoStream /\ playing' = playing \cup {token[s]}
    BY <1>4 DEF Play, StartPlaying
  <2>2. Holders # {} /\ playing' # {}
    BY <1>1, <2>1 DEF Holders, Keepers
  <2>3. CASE playing = {}
    BY <1>2, <2>2, <2>3 DEF Shared!Start, Holders
  <2>4. CASE playing # {}
    BY <1>2, <2>2, <2>4 DEF Shared!svars, Holders
  <2> QED  BY <2>3, <2>4
<1> QED  BY <1>3, <1>4

\* Every step is one of the shared stream or a stutter.
LEMMA SharedStep ==
    ASSUME TypeInv, TypeInv', SharingInv, [Next]_vars
    PROVE  [Shared!Next]_(Shared!svars)
<1>1. CASE Idle
  <2>1. Holders' = Holders /\ playing' = playing
    BY <1>1 DEF Idle, Holders, Keepers, streamVars
  <2> QED  BY <2>1 DEF Shared!svars, Holders
<1> QED  BY <1>1, StepKinds, LeavingRefines, JoiningRefines, PlayRefines DEF SharingInv, Shared!Next

\* The sessions share one stream as SharedStream promises: it plays on while any of them
\* holds it, and only the last one to leave stops it.
THEOREM ImplementsSharedStream == Spec => SharedStreamSpec
<1>1. Init => Shared!Init
  BY DEF Init, Shared!Init
<1>2. TypeInv /\ TypeInv' /\ SharingInv /\ [Next]_vars => [Shared!Next]_(Shared!svars)
  BY SharedStep
<1> QED  BY <1>1, <1>2, TypedAndShared, PTL DEF Spec, SharedStreamSpec, Shared!Spec
=============================================================================
