--------------------------- MODULE EventLoopProofs ---------------------------
(***************************************************************************)
(* Proof about EventLoop, for any number of descriptors: select() is only  *)
(* given open sockets, below the number it is told of, and the server's    *)
(* socket and every connection are among them.                             *)
(*                                                                         *)
(* The list of handlers is a set as far as this goes: what assignHandler() *)
(* and clearHandler() do to the set (AssignTo, ClearFrom) is proved first, *)
(* and every step is then an argument about sets of descriptors.           *)
(***************************************************************************)
EXTENDS EventLoop, SequenceTheorems, TLAPS

Elems(q) == {q[i] : i \in 1..Len(q)}

\* A list of handlers without duplicates, for the sockets of S, all below its bound.
Holds(h, S) ==
    /\ h.list \in Seq(Fds) /\ Elems(h.list) = S
    /\ \A i, j \in 1..Len(h.list) : h.list[i] = h.list[j] => i = j
    /\ h.max \in Nat /\ \A s \in S : s < h.max

\* The sockets that may have a handler, and those that must.
Readable == Kind("server") \cup Kind("conn") \cup Kind("rtcp")
Needed   == Kind("server") \cup Kind("conn")

Types ==
    /\ open \in [Fds -> {"free", "server", "conn", "rtp", "rtcp"}]
    /\ ready \subseteq Fds /\ last \in Fds \cup {NoFd}
    /\ phase \in {"select", "handler", "tasks"}

\* The handlers are for the right sockets; the connection that is being served is open, only
\* connections are read by descriptors, and the stream has one RTCP socket, if it has any.
LoopInv ==
    /\ Types
    /\ open[Server] = "server"
    /\ \E S \in SUBSET Readable : Needed \subseteq S /\ Holds(Handlers, S)
    /\ phase = "handler" => last \in Kind("conn")
    /\ tcp \subseteq Kind("conn")
    /\ Kind("rtp") = {} => Kind("rtcp") = {}
    /\ \A s, t \in Kind("rtcp") : s = t

-----------------------------------------------------------------------------
(* The set of handlers.                                                    *)

\* A new handler adds its socket to the set, an old one leaves the set as it is.
LEMMA AssignTo ==
    ASSUME NEW h, NEW S, Holds(h, S), NEW s \in Fds
    PROVE  Holds(Assign(h, s), S \cup {s})
<1> DEFINE a == Assign(h, s)
<1>1. h.list \in Seq(Fds) /\ Len(h.list) \in Nat /\ DOMAIN h.list = 1..Len(h.list)
  BY LenProperties DEF Holds
<1>2. a.max \in Nat /\ \A t \in S \cup {s} : t < a.max
  <2>1. s \in Nat /\ S \subseteq Nat
    BY <1>1, ElementOfSeq, BoundsAssumption DEF Fds, Holds, Elems
  <2> QED  BY <2>1 DEF Assign, Holds
<1>3. CASE \E i \in 1..Len(h.list) : h.list[i] = s
  <2>1. a.list = h.list  BY <1>1, <1>3 DEF Assign
  <2>2. s \in S  BY <1>3 DEF Holds, Elems
  <2> QED  BY <1>1, <1>2, <2>1, <2>2 DEF Holds
<1>4. CASE ~ \E i \in 1..Len(h.list) : h.list[i] = s
  <2>1. a.list = <<s>> \o h.list  BY <1>1, <1>4 DEF Assign
  <2>2. <<s>> \in Seq(Fds) /\ Len(<<s>>) = 1 /\ <<s>>[1] = s  OBVIOUS
  <2>3. /\ a.list \in Seq(Fds) /\ Len(a.list) = 1 + Len(h.list)
        /\ \A i \in 1..(1 + Len(h.list)) : a.list[i] = IF i <= 1 THEN s ELSE h.list[i - 1]
    <3>1. \A i \in 1..(1 + Len(h.list)) : i <= 1 => i = 1  BY <1>1
    <3> HIDE DEF a
    <3> QED  BY <1>1, <2>1, <2>2, <3>1, ConcatProperties
  <2> HIDE DEF a
  <2>4. Elems(a.list) = S \cup {s}
    <3>1. ASSUME NEW i \in 1..Len(a.list)  PROVE a.list[i] \in S \cup {s}
      <4>1. i <= 1 \/ i - 1 \in 1..Len(h.list)  BY <1>1, <2>3
      <4> QED  BY <1>1, <2>3, <4>1 DEF Holds, Elems
    <3>2. a.list[1] = s /\ 1 \in 1..Len(a.list)  BY <1>1, <2>3
    <3>3. ASSUME NEW i \in 1..Len(h.list)
          PROVE  i + 1 \in 1..Len(a.list) /\ a.list[i + 1] = h.list[i]
      BY <1>1, <2>3
    <3> QED  BY <3>1, <3>2, <3>3 DEF Holds, Elems
  <2>5. ASSUME NEW i \in 1..Len(a.list), NEW j \in 1..Len(a.list), a.list[i] = a.list[j]
        PROVE  i = j
    <3>1. i <= 1 => i = 1  BY <1>1, <2>3
    <3>2. j <= 1 => j = 1  BY <1>1, <2>3
    <3>3. ~(i <= 1) => i - 1 \in 1..Len(h.list)  BY <1>1, <2>3
    <3>4. ~(j <= 1) => j - 1 \in 1..Len(h.list)  BY <1>1, <2>3
    <3>5. i - 1 = j - 1 => i = j  BY <1>1, <2>3
    <3> QED  BY <1>4, <2>3, <2>5, <3>1, <3>2, <3>3, <3>4, <3>5 DEF Holds
  <2> QED  BY <1>2, <2>3, <2>4, <2>5 DEF Holds, a
<1> QED  BY <1>3, <1>4

\* Without duplicates, removing the first handler of a socket removes the socket, and the
\* bound may then come down past it.
LEMMA ClearFrom ==
    ASSUME NEW h, NEW S, Holds(h, S), NEW s \in Fds
    PROVE  Holds(Clear(h, s), S \ {s})
<1> DEFINE c == Clear(h, s)  n == Len(h.list)
<1>1. h.list \in Seq(Fds) /\ n \in Nat /\ DOMAIN h.list = 1..n
  BY LenProperties DEF Holds
<1>2. c.max \in Nat /\ \A t \in S \ {s} : t < c.max
  <2>1. s \in Nat /\ s # 0 /\ S \subseteq Nat
    BY <1>1, ElementOfSeq, BoundsAssumption DEF Fds, Holds, Elems
  <2> QED  BY <2>1 DEF Clear, Holds
<1>3. CASE ~ \E i \in 1..n : h.list[i] = s
  <2>1. c.list = h.list  BY <1>3 DEF Clear, RemoveFirst
  <2>2. s \notin S  BY <1>3 DEF Holds, Elems
  <2> QED  BY <1>1, <1>2, <2>1, <2>2 DEF Holds
<1>4. CASE \E i \in 1..n : h.list[i] = s
  <2>1. PICK k \in 1..n : h.list[k] = s  BY <1>4
  <2>2. SelectInSeq(h.list, LAMBDA v : v = s) = k
    <3>1. {i \in 1..n : h.list[i] = s} = {k}  BY <2>1 DEF Holds
    <3>2. Min({k}) = k  BY <1>1 DEF Min
    <3> QED  BY <3>1, <3>2 DEF SelectInSeq
  <2> DEFINE p == SubSeq(h.list, 1, k - 1)  q == SubSeq(h.list, k + 1, n)
  <2>3. c.list = p \o q
    BY <1>4, <2>2 DEF Clear, RemoveFirst, RemoveAt
  <2>4. k \in Nat /\ k >= 1 /\ k <= n  BY <1>1
  <2>5. /\ p \in Seq(Fds) /\ Len(p) = k - 1
        /\ \A i \in 1..(k - 1) : p[i] = h.list[i]
    <3>1. \A i \in 1..(k - 1) : h.list[i] \in Fds  BY <1>1, <2>4, ElementOfSeq
    <3>2. /\ p \in Seq(Fds) /\ Len(p) = IF 1 <= k - 1 THEN k - 1 - 1 + 1 ELSE 0
          /\ \A i \in 1..(k - 1 - 1 + 1) : p[i] = h.list[1 + i - 1]
      BY <2>4, <3>1, SubSeqProperties
    <3> HIDE DEF p
    <3> QED  BY <2>4, <3>2
  <2>6. /\ q \in Seq(Fds) /\ Len(q) = n - k
        /\ \A i \in 1..(n - k) : q[i] = h.list[k + i]
    <3>1. \A i \in (k + 1)..n : h.list[i] \in Fds  BY <1>1, <2>4, ElementOfSeq
    <3>2. /\ q \in Seq(Fds) /\ Len(q) = IF k + 1 <= n THEN n - (k + 1) + 1 ELSE 0
          /\ \A i \in 1..(n - (k + 1) + 1) : q[i] = h.list[k + 1 + i - 1]
      BY <1>1, <2>4, <3>1, SubSeqProperties
    <3> HIDE DEF q
    <3> QED  BY <1>1, <2>4, <3>2
  <2>7. /\ c.list \in Seq(Fds) /\ Len(c.list) = n - 1
        /\ \A i \in 1..(n - 1) : c.list[i] = IF i <= k - 1 THEN h.list[i] ELSE h.list[i + 1]
    <3> HIDE DEF c, p, q, n
    <3>1. /\ c.list \in Seq(Fds) /\ Len(c.list) = (k - 1) + (n - k)
          /\ \A i \in 1..((k - 1) + (n - k)) :
               c.list[i] = IF i <= k - 1 THEN p[i] ELSE q[i - (k - 1)]
      BY <2>3, <2>5, <2>6, ConcatProperties
    <3>2. (k - 1) + (n - k) = n - 1  BY <1>1, <2>4
    <3>3. ASSUME NEW i \in 1..(n - 1), i <= k - 1  PROVE p[i] = h.list[i]
      BY <1>1, <2>4, <2>5, <3>3
    <3>4. ASSUME NEW i \in 1..(n - 1), ~(i <= k - 1)  PROVE q[i - (k - 1)] = h.list[i + 1]
      <4>1. i - (k - 1) \in 1..(n - k) /\ k + (i - (k - 1)) = i + 1  BY <1>1, <2>4, <3>4
      <4> QED  BY <2>6, <4>1
    <3> QED  BY <3>1, <3>2, <3>3, <3>4
  <2> HIDE DEF c, p, q, n
  <2>8. Elems(c.list) = S \ {s}
    <3>1. ASSUME NEW i \in 1..Len(c.list)
          PROVE  \E j \in 1..n : j # k /\ c.list[i] = h.list[j]
      <4>1. i \in 1..n /\ i + 1 \in 1..n  BY <1>1, <2>4, <2>7
      <4>2. IF i <= k - 1 THEN i # k ELSE i + 1 # k  BY <1>1, <2>4, <2>7
      <4>3. i \in 1..(n - 1)  BY <2>7
      <4> QED  BY <2>7, <4>1, <4>2, <4>3
    <3>2. ASSUME NEW j \in 1..n, j # k
          PROVE  \E i \in 1..Len(c.list) : c.list[i] = h.list[j]
      <4>1. CASE j < k
        <5>1. j \in 1..(n - 1) /\ j <= k - 1  BY <1>1, <2>4, <4>1
        <5> QED  BY <2>7, <5>1
      <4>2. CASE j > k
        <5>1. j - 1 \in 1..(n - 1) /\ ~(j - 1 <= k - 1) /\ (j - 1) + 1 = j  BY <1>1, <2>4, <4>2
        <5> QED  BY <2>7, <5>1
      <4> QED  BY <1>1, <2>4, <3>2, <4>1, <4>2
    <3>3. \A j \in 1..n : h.list[j] = s <=> j = k  BY <2>1 DEF Holds, n
    <3>4. S = {h.list[j] : j \in 1..n}  BY DEF Holds, Elems, n
    <3>5. ASSUME NEW i \in 1..Len(c.list)  PROVE c.list[i] \in S \ {s}
      <4>1. PICK j \in 1..n : j # k /\ c.list[i] = h.list[j]  BY <3>1
      <4> QED  BY <3>3, <3>4, <4>1
    <3>6. ASSUME NEW t \in S \ {s}  PROVE \E i \in 1..Len(c.list) : c.list[i] = t
      <4>1. PICK j \in 1..n : h.list[j] = t  BY <3>4
      <4> QED  BY <3>2, <3>3, <4>1
    <3> QED  BY <3>5, <3>6 DEF Elems
  <2>9. ASSUME NEW i \in 1..Len(c.list), NEW j \in 1..Len(c.list), c.list[i] = c.list[j]
        PROVE  i = j
    <3> DEFINE from(x) == IF x <= k - 1 THEN x ELSE x + 1
    <3>1. \A x \in 1..Len(c.list) : from(x) \in 1..n /\ c.list[x] = h.list[from(x)]
      BY <1>1, <2>4, <2>7
    <3>2. from(i) = from(j)  BY <2>9, <3>1 DEF Holds, n
    <3> QED  BY <1>1, <2>4, <2>7, <3>2
  <2> QED  BY <1>2, <2>7, <2>8, <2>9 DEF Holds, c
<1> QED  BY <1>3, <1>4

-----------------------------------------------------------------------------
(* The steps of the loop.                                                  *)

LEMMA LoopInit ==
    ASSUME Init  PROVE LoopInv
<1>1. Server \in Fds /\ Kind("server") = {Server} /\ Kind("rtcp") = {} /\ Kind("conn") = {}
  BY BoundsAssumption DEF Init, Kind, Fds, Server
<1>2. Holds(Handlers, {Server})
  <2>1. list \in Seq(Fds) /\ Len(list) = 1 /\ list[1] = Server  BY <1>1 DEF Init
  <2>2. \A i \in 1..Len(list) : i = 1  BY <2>1
  <2>3. max \in Nat /\ Server < max  BY DEF Init, Server
  <2>4. Elems(list) = {Server}  BY <2>1, <2>2, 1 \in 1..Len(list) DEF Elems
  <2> QED  BY <2>1, <2>2, <2>3, <2>4 DEF Holds, Handlers
<1>3. Types  BY DEF Init, Types
<1>4. open[Server] = "server"  BY <1>1 DEF Kind
<1> QED  BY <1>1, <1>2, <1>3, <1>4 DEF LoopInv, Readable, Needed, Init

\* A step that leaves the sockets and the handlers as they are.
LEMMA NoChange ==
    ASSUME LoopInv, UNCHANGED <<open, handlers, tcp>>, Types', phase' = "handler" => last' \in Kind("conn")
    PROVE  LoopInv'
<1>1. Handlers' = Handlers  BY DEF Handlers, handlers
<1>2. \A k : Kind(k)' = Kind(k)  BY DEF Kind
<1>3. Readable' = Readable /\ Needed' = Needed  BY <1>2 DEF Readable, Needed
<1>4. Kind("conn")' = Kind("conn") /\ Kind("rtp")' = Kind("rtp") /\ Kind("rtcp")' = Kind("rtcp")
  BY <1>2
<1> QED  BY <1>1, <1>3, <1>4 DEF LoopInv

\* A step that changes the handlers, and leaves the sockets as they are.
LEMMA NewHandlers ==
    ASSUME LoopInv, UNCHANGED <<open, last, phase, ready>>, tcp' \subseteq Kind("conn"),
           NEW h, NEW S \in SUBSET Readable, Needed \subseteq S, Holds(h, S), Become(h)
    PROVE  LoopInv'
<1>1. Holds(Handlers', S)  BY DEF Handlers, Become, Holds
<1>2. \A k : Kind(k)' = Kind(k)  BY DEF Kind
<1>3. Readable' = Readable /\ Needed' = Needed  BY <1>2 DEF Readable, Needed
<1>4. Kind("conn")' = Kind("conn") /\ Kind("rtp")' = Kind("rtp") /\ Kind("rtcp")' = Kind("rtcp")
  BY <1>2
<1>5. \E Q \in SUBSET Readable' : Needed' \subseteq Q /\ Holds(Handlers', Q)
  BY <1>1, <1>3
<1>6. Types'  BY DEF LoopInv, Types
<1> QED  BY <1>4, <1>5, <1>6 DEF LoopInv

LEMMA ServeProp ==
    ASSUME LoopInv, NEW s \in Fds, Serve(s)
    PROVE  last' = s /\ last' \in Fds /\ ready' \subseteq Fds
BY DEF LoopInv, Types, Serve

\* Every step keeps the invariant.
LEMMA LoopStep ==
    ASSUME LoopInv, [Next]_vars  PROVE LoopInv'
<1> USE DEF NoFd
<1>0. PICK S \in SUBSET Readable : Needed \subseteq S /\ Holds(Handlers, S)
  BY DEF LoopInv
<1>a. \A k : Kind(k) \subseteq Fds  BY DEF Kind
<1>b. Readable \subseteq Fds  BY <1>a DEF Readable
<1>c. Server \in Fds  BY BoundsAssumption DEF Fds, Server
<1>1. CASE NoSocket
  BY <1>1, NoChange DEF NoSocket, LoopInv, Types
<1>2. CASE Accept
  <2>1. PICK s \in Fds :
          /\ Lowest(s, Kind("free"))
          /\ open' = [open EXCEPT ![s] = "conn"]
          /\ Become(Assign(Handlers, s))
    BY <1>2 DEF Accept
  <2>2. open[s] = "free"  BY <2>1 DEF Lowest, Kind
  <2>3. \A t \in Fds : open'[t] = IF t = s THEN "conn" ELSE open[t]
    BY <2>1 DEF LoopInv, Types
  <2>4. /\ Kind("server")' = Kind("server") /\ Kind("conn")' = Kind("conn") \cup {s}
        /\ Kind("rtp")' = Kind("rtp") /\ Kind("rtcp")' = Kind("rtcp")
    BY <2>2, <2>3 DEF Kind
  <2>5. Holds(Handlers', S \cup {s})
    <3>1. Holds(Assign(Handlers, s), S \cup {s})  BY <1>0, AssignTo
    <3> QED  BY <2>1, <3>1 DEF Handlers, Become, Holds
  <2>6. S \cup {s} \subseteq Readable' /\ Needed' \subseteq S \cup {s}
    BY <1>0, <2>4 DEF Readable, Needed
  <2>7. Types'
    <3>1. last' \in Fds /\ ready' \subseteq Fds  BY <1>2, <1>c, ServeProp DEF Accept
    <3>2. open' \in [Fds -> {"free", "server", "conn", "rtp", "rtcp"}]
      BY <2>1 DEF LoopInv, Types
    <3> QED  BY <1>2, <3>1, <3>2 DEF Accept, Types
  <2>8. open'[Server] = "server" /\ tcp' \subseteq Kind("conn")' /\ phase' # "handler"
    BY <1>2, <1>c, <2>2, <2>3, <2>4 DEF LoopInv, Accept
  <2> QED  BY <2>4, <2>5, <2>6, <2>7, <2>8 DEF LoopInv
<1>3. CASE ReadReport
  <2>1. last' \in Fds /\ ready' \subseteq Fds  BY <1>3, <1>a, ServeProp DEF ReadReport
  <2> QED  BY <1>3, <2>1, NoChange DEF ReadReport, LoopInv, Types
<1>4. CASE Request
  <2>1. PICK s \in Kind("conn") : Serve(s)  BY <1>4 DEF Request
  <2>2. last' = s /\ last' \in Fds /\ ready' \subseteq Fds  BY <1>a, <2>1, ServeProp
  <2> QED  BY <1>4, <2>2, NoChange DEF Request, LoopInv, Types
<1>5. CASE Return
  BY <1>5, NoChange DEF Return, LoopInv, Types
<1>6. CASE EndPass
  BY <1>6, NoChange DEF EndPass, LoopInv, Types
<1>7. CASE Setup
  <2>1. PICK rtp \in Fds, rtcp \in Fds :
          /\ Lowest(rtp, Kind("free")) /\ Lowest(rtcp, Kind("free") \ {rtp})
          /\ open' = [open EXCEPT ![rtp] = "rtp", ![rtcp] = "rtcp"]
    BY <1>7 DEF Setup
  <2>2. open[rtp] = "free" /\ open[rtcp] = "free" /\ rtp # rtcp  BY <2>1 DEF Lowest, Kind
  <2>3. /\ open' \in [Fds -> {"free", "server", "conn", "rtp", "rtcp"}]
        /\ \A t \in Fds : open'[t] = IF t = rtcp THEN "rtcp" ELSE IF t = rtp THEN "rtp" ELSE open[t]
    BY <2>1 DEF LoopInv, Types
  <2>4. Kind("rtp") = {} /\ Kind("rtcp") = {}  BY <1>7 DEF Setup, LoopInv
  <2>5. /\ Kind("server")' = Kind("server") /\ Kind("conn")' = Kind("conn")
        /\ Kind("rtp")' = {rtp} /\ Kind("rtcp")' = {rtcp}
    BY <2>2, <2>3, <2>4 DEF Kind
  <2>6. S \subseteq Readable' /\ Needed' \subseteq S
    BY <1>0, <2>4, <2>5 DEF Readable, Needed
  <2>7. Holds(Handlers', S)  BY <1>7, <1>0 DEF Setup, handlers, Handlers
  <2>8. Types'  BY <1>7, <2>3 DEF Setup, LoopInv, Types
  <2>9. open'[Server] = "server" /\ tcp' \subseteq Kind("conn")' /\ last' \in Kind("conn")'
    BY <1>7, <1>c, <2>2, <2>3, <2>5 DEF LoopInv, Setup
  <2> QED  BY <2>5, <2>6, <2>7, <2>8, <2>9 DEF LoopInv
<1>8. CASE Play
  <2>1. PICK s \in Kind("rtcp") : Become(Assign(Handlers, s))  BY <1>8 DEF Play
  <2>2. Holds(Assign(Handlers, s), S \cup {s})  BY <1>0, <1>a, <2>1, AssignTo
  <2>3. S \cup {s} \subseteq Readable /\ Needed \subseteq S \cup {s}  BY <1>0 DEF Readable
  <2>4. UNCHANGED <<open, last, phase, ready, tcp>> /\ tcp \subseteq Kind("conn")
    BY <1>8 DEF Play, LoopInv
  <2> QED  BY <2>1, <2>2, <2>3, <2>4, NewHandlers
<1>9. CASE PlayOverTCP
  <2>1. PICK s \in Kind("rtcp") : Become(Assign(Clear(Handlers, s), s))
    BY <1>9 DEF PlayOverTCP
  <2>2. Holds(Assign(Clear(Handlers, s), s), (S \ {s}) \cup {s})
    BY <1>0, <1>a, <2>1, AssignTo, ClearFrom
  <2>3. (S \ {s}) \cup {s} \subseteq Readable /\ Needed \subseteq (S \ {s}) \cup {s}
    BY <1>0 DEF Readable
  <2>4. UNCHANGED <<open, last, phase, ready>> /\ tcp' \subseteq Kind("conn")
    BY <1>9 DEF PlayOverTCP, LoopInv
  <2> QED  BY <2>1, <2>2, <2>3, <2>4, NewHandlers
<1>10. CASE Reclaim
  <2>1. PICK r \in Kind("rtp"), s \in Kind("rtcp") : Become(Clear(Clear(Handlers, s), r))
    BY <1>10 DEF Reclaim
  <2>2. Holds(Clear(Clear(Handlers, s), r), S \ {s})
    <3> DEFINE h == Clear(Handlers, s)
    <3>1. Holds(h, S \ {s})  BY <1>0, <1>a, <2>1, ClearFrom
    <3>2. r \in Fds /\ r \notin S  BY <1>0, <2>1 DEF Readable, Kind
    <3>3. (S \ {s}) \ {r} = S \ {s}  BY <3>2
    <3> HIDE DEF h
    <3>4. Holds(Clear(h, r), S \ {s})  BY <1>a, <3>1, <3>2, <3>3, ClearFrom
    <3> QED  BY <3>4 DEF h
  <2>3. Holds(Handlers', S \ {s})
    <3> DEFINE h == Clear(Clear(Handlers, s), r)
    <3>1. Become(h) /\ Holds(h, S \ {s})  BY <2>1, <2>2
    <3> HIDE DEF h
    <3> QED  BY <3>1 DEF Handlers, Become, Holds
  <2>4. \A t \in Fds : open'[t] = IF open[t] \in {"rtp", "rtcp"} THEN "free" ELSE open[t]
    BY <1>10 DEF Reclaim
  <2>5. /\ Kind("server")' = Kind("server") /\ Kind("conn")' = Kind("conn")
        /\ Kind("rtp")' = {} /\ Kind("rtcp")' = {}
    BY <2>4 DEF Kind
  <2>6. Kind("rtcp") = {s}  BY DEF LoopInv
  <2>7. S \ {s} \subseteq Readable' /\ Needed' \subseteq S \ {s}
    <3>1. s \notin Needed  BY DEF Needed, Kind
    <3> QED  BY <1>0, <2>5, <2>6, <3>1 DEF Readable, Needed
  <2>8. Types'  BY <1>10 DEF Reclaim, LoopInv, Types
  <2>9. open'[Server] = "server" /\ tcp' \subseteq Kind("conn")' /\ (phase' = "handler" => last' \in Kind("conn")')
    BY <1>10, <1>c, <2>4, <2>5 DEF LoopInv, Reclaim
  <2> QED  BY <2>3, <2>5, <2>7, <2>8, <2>9 DEF LoopInv
<1>11. CASE Close
  <2>1. PICK s \in Kind("conn") : s = last  BY <1>11 DEF Close, LoopInv
  <2> DEFINE h == IF s \in tcp THEN Clear(Handlers, s) ELSE Handlers
  <2>2. Holds(Clear(h, s), S \ {s})
    <3>1. CASE s \in tcp
      <4>1. Holds(h, S \ {s})  BY <1>0, <1>a, <3>1, ClearFrom
      <4>2. (S \ {s}) \ {s} = S \ {s}  OBVIOUS
      <4> HIDE DEF h
      <4> QED  BY <1>a, <4>1, <4>2, ClearFrom
    <3>2. CASE s \notin tcp
      BY <1>0, <1>a, <3>2, ClearFrom
    <3> QED  BY <3>1, <3>2
  <2>3. Holds(Handlers', S \ {s})
    <3>1. Become(Clear(h, s))  BY <1>11, <2>1 DEF Close
    <3> HIDE DEF h
    <3> QED  BY <2>2, <3>1 DEF Handlers, Become, Holds
  <2>4. \A t \in Fds : open'[t] = IF t = s THEN "free" ELSE open[t]
    BY <1>11, <2>1 DEF Close, LoopInv, Types
  <2>5. open[s] = "conn" /\ s # Server  BY <2>1 DEF Kind, LoopInv
  <2>6. /\ Kind("server")' = Kind("server") /\ Kind("conn")' = Kind("conn") \ {s}
        /\ Kind("rtp")' = Kind("rtp") /\ Kind("rtcp")' = Kind("rtcp")
    BY <2>4, <2>5 DEF Kind
  <2>7. S \ {s} \subseteq Readable' /\ Needed' \subseteq S \ {s}
    <3>1. s \notin Kind("server")  BY <2>5 DEF Kind
    <3> QED  BY <1>0, <2>6, <3>1 DEF Readable, Needed
  <2>8. Types'  BY <1>11 DEF Close, LoopInv, Types
  <2>9. open'[Server] = "server" /\ tcp' \subseteq Kind("conn")' /\ phase' # "handler"
    BY <1>11, <1>c, <2>1, <2>4, <2>5, <2>6 DEF LoopInv, Close
  <2> QED  BY <2>3, <2>6, <2>7, <2>8, <2>9 DEF LoopInv
<1>12. ASSUME NEW s \in Fds, HandBack(s)  PROVE LoopInv'
  <2>1. s \in Kind("conn")  BY <1>12 DEF HandBack, LoopInv
  <2>2. Holds(Assign(Clear(Handlers, s), s), (S \ {s}) \cup {s})
    BY <1>0, AssignTo, ClearFrom
  <2>3. (S \ {s}) \cup {s} \subseteq Readable /\ Needed \subseteq (S \ {s}) \cup {s}
    BY <1>0, <2>1 DEF Readable
  <2>4. UNCHANGED <<open, last, phase, ready>> /\ tcp' \subseteq Kind("conn")
    BY <1>12 DEF HandBack, LoopInv
  <2>5. Become(Assign(Clear(Handlers, s), s))  BY <1>12 DEF HandBack
  <2> QED  BY <2>2, <2>3, <2>4, <2>5, NewHandlers
<1>13. ASSUME NEW s \in Fds, Arrive(s)  PROVE LoopInv'
  BY <1>13, NoChange DEF Arrive, LoopInv, Types
<1>14. CASE UNCHANGED vars
  BY <1>14, NoChange DEF vars, LoopInv, Types
<1> QED
  BY <1>1, <1>2, <1>3, <1>4, <1>5, <1>6, <1>7, <1>8, <1>9, <1>10, <1>11, <1>12, <1>13, <1>14
     DEF Next

-----------------------------------------------------------------------------
\* select() is never given a socket that is closed, or one past the number it is told of, and
\* is given the server's own socket and every connection's, whatever the handlers do to the
\* list and however soon a descriptor is used again
\* (src/live/BasicUsageEnvironment/BasicTaskScheduler.cpp:90-126).
THEOREM SelectGivenOpenSockets == Spec => []SelectsOpenSockets
<1>1. LoopInv => SelectsOpenSockets
  <2> SUFFICES ASSUME LoopInv PROVE SelectsOpenSockets
    OBVIOUS
  <2>1. PICK S \in SUBSET Readable : Needed \subseteq S /\ Holds(Handlers, S)
    BY DEF LoopInv
  <2>2. list \in Seq(Fds) /\ S = {list[i] : i \in 1..Len(list)} /\ \A s \in S : s < max
    BY <2>1 DEF Holds, Elems, Handlers
  <2>3. DOMAIN list = 1..Len(list)  BY <2>2, LenProperties
  <2>4. ASSUME NEW i \in DOMAIN list
        PROVE  open[list[i]] \in {"server", "conn", "rtcp"} /\ list[i] < max
    <3>1. list[i] \in Readable  BY <2>1, <2>2, <2>3
    <3>2. open[list[i]] \in {"server", "conn", "rtcp"}  BY <3>1 DEF Readable, Kind
    <3>3. list[i] < max  BY <2>2, <2>3
    <3> QED  BY <3>2, <3>3
  <2>5. ASSUME NEW s \in Kind("server") \cup Kind("conn")  PROVE Listed(s)
    BY <2>1, <2>2, <2>3 DEF Needed, Listed
  <2> QED  BY <2>4, <2>5 DEF SelectsOpenSockets
<1> QED  BY <1>1, LoopInit, LoopStep, PTL DEF Spec
=============================================================================
