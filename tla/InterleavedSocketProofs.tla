----------------------- MODULE InterleavedSocketProofs -----------------------
(***************************************************************************)
(* Proofs about InterleavedSocket, for any connections, any frames and any *)
(* buffer, and whatever clients, sends and time-outs do.                   *)
(*                                                                         *)
(* Who reads a socket (ConnInv): every socket has the one reader it should *)
(* have, the interfaces' lists and the descriptors' tables agree, and a    *)
(* client that plays is sent both streams.  The records of one connection  *)
(* are changed by its own steps only.                                      *)
(*                                                                         *)
(* What is on its way to the server (StreamInv): frames, each in full, and *)
(* one request behind them at most.                                        *)
(*                                                                         *)
(* What has been read (PlaceInv), until packets are mixed: the reading     *)
(* state of a descriptor, the size left and the RTCP buffer fit what comes *)
(* first in the stream, so no byte of a frame is taken for a request and   *)
(* each report that is handed on is one packet.                            *)
(***************************************************************************)
EXTENDS InterleavedSocket, SequenceTheorems, TLAPS

USE DEF Interfaces

-----------------------------------------------------------------------------
(* What a client has sent and nobody has read: a sequence of requests and  *)
(* frames; the first may be a frame of which the beginning has been read.  *)

Bytes ==
    {<<"dollar">>} \cup {"channel"} \X Interfaces \cup {"size"} \X (Nat \ {0})
      \cup {"data"} \X (Nat \ {0}) \X (Nat \ {0}) \cup {"request"} \X {"setup", "play", "teardown"}

\* What comes behind byte i of s: the rest of the frame, or the beginning of another thing.
Follows(s, i) ==
    /\ s[i][1] = "dollar" => i < Len(s) /\ s[i + 1][1] = "channel"
    /\ s[i][1] = "channel" => i < Len(s) /\ s[i + 1][1] = "size"
    /\ s[i][1] = "size" =>
         i + s[i][2] <= Len(s) /\ \A k \in 1..s[i][2] : s[i + k] = <<"data", k, s[i][2]>>
    /\ s[i][1] = "data" =>
         /\ s[i][2] <= s[i][3] /\ i + (s[i][3] - s[i][2]) <= Len(s)
         /\ \A k \in 0..(s[i][3] - s[i][2]) : s[i + k] = <<"data", s[i][2] + k, s[i][3]>>
    /\ (s[i][1] = "request" \/ (s[i][1] = "data" /\ s[i][2] = s[i][3])) /\ i < Len(s) =>
         s[i + 1][1] \in {"dollar", "request"}

WellFramed(s) == s \in Seq(Bytes) /\ \A i \in 1..Len(s) : Follows(s, i)

\* There is one request at most, the one the client waits for, and nothing behind it.
Asking(c) ==
    \A i \in 1..Len(in[c]) : in[c][i][1] = "request" =>
        i = Len(in[c]) /\ c \notin plays /\ (link[c] = "open" => c \in asked)

StreamTypes ==
    /\ in \in [Conns -> Seq(Bytes)] /\ inBuf \in Seq(Conns \X Bytes)
    /\ nextSize \in [Interfaces -> Nat] /\ nextSock \in Conns \cup {NoConn}

StreamInv ==
    /\ StreamTypes
    /\ \A c \in Conns : WellFramed(in[c]) /\ Asking(c) /\ (link[c] = "away" => in[c] = <<>>)

-----------------------------------------------------------------------------
(* Sequences of bytes.                                                     *)

\* The fields of a byte.
LEMMA ByteFields ==
    ASSUME NEW b \in Bytes
    PROVE  /\ b[1] \in {"dollar", "channel", "size", "data", "request"}
           /\ b[1] = "dollar" => b = <<"dollar">>
           /\ b[1] = "channel" => b[2] \in Interfaces
           /\ b[1] = "size" => b[2] \in Nat \ {0}
           /\ b[1] = "data" => b[2] \in Nat \ {0} /\ b[3] \in Nat \ {0}
           /\ b[1] = "request" => b[2] \in {"setup", "play", "teardown"}
<1>1. CASE b = <<"dollar">>
  BY <1>1
<1>2. CASE b \in {"channel"} \X Interfaces
  BY <1>2
<1>3. CASE b \in {"size"} \X (Nat \ {0})
  BY <1>3
<1>4. CASE b \in {"data"} \X (Nat \ {0}) \X (Nat \ {0})
  BY <1>4
<1>5. CASE b \in {"request"} \X {"setup", "play", "teardown"}
  BY <1>5
<1> QED  BY <1>1, <1>2, <1>3, <1>4, <1>5 DEF Bytes

\* What is left when the first k bytes are read is framed as before.
LEMMA DropFramed ==
    ASSUME NEW s, WellFramed(s), NEW k \in Nat, k <= Len(s)
    PROVE  LET t == SubSeq(s, k + 1, Len(s))
           IN /\ WellFramed(t) /\ Len(t) = Len(s) - k
              /\ \A i \in 1..Len(t) : t[i] = s[k + i]
<1> DEFINE t == SubSeq(s, k + 1, Len(s))
<1>1. s \in Seq(Bytes) /\ Len(s) \in Nat  BY LenProperties DEF WellFramed
<1>2. t \in Seq(Bytes) /\ Len(t) = Len(s) - k /\ \A i \in 1..Len(t) : t[i] = s[k + i]
  <2>1. \A i \in (k + 1)..Len(s) : s[i] \in Bytes  BY <1>1, ElementOfSeq
  <2>2. /\ t \in Seq(Bytes) /\ Len(t) = IF k + 1 <= Len(s) THEN Len(s) - (k + 1) + 1 ELSE 0
        /\ \A i \in 1..(Len(s) - (k + 1) + 1) : t[i] = s[k + 1 + i - 1]
    BY <1>1, <2>1, SubSeqProperties
  <2> HIDE DEF t
  <2>3. Len(t) = Len(s) - k  BY <1>1, <2>2
  <2>4. ASSUME NEW i \in 1..Len(t)
        PROVE  i \in 1..(Len(s) - (k + 1) + 1) /\ k + 1 + i - 1 = k + i
    BY <1>1, <2>3
  <2> QED  BY <2>2, <2>3, <2>4
<1> HIDE DEF t
<1>3. ASSUME NEW i \in 1..Len(t)  PROVE Follows(t, i)
  <2>1. k + i \in 1..Len(s) /\ Follows(s, k + i)  BY <1>1, <1>2 DEF WellFramed
  <2>2. t[i] = s[k + i] /\ t[i] \in Bytes  BY <1>1, <1>2, ElementOfSeq
  <2>3. i < Len(t) <=> k + i < Len(s)  BY <1>1, <1>2
  <2>4. i < Len(t) => t[i + 1] = s[k + i + 1]
    <3>1. i < Len(t) => i + 1 \in 1..Len(t)  BY <1>1, <1>2
    <3> QED  BY <1>1, <1>2, <3>1
  <2>5. ASSUME t[i][1] = "size"
        PROVE  i + t[i][2] <= Len(t) /\ \A m \in 1..t[i][2] : t[i + m] = <<"data", m, t[i][2]>>
    <3>1. PICK n \in Nat : n = t[i][2]  BY <2>2, <2>5, ByteFields
    <3>2. k + i + n <= Len(s)  BY <2>1, <2>5, <2>2, <3>1 DEF Follows
    <3>3. \A m \in 1..n : s[k + i + m] = <<"data", m, n>>
      BY <2>1, <2>5, <2>2, <3>1 DEF Follows
    <3>4. i + n <= Len(t)  BY <1>1, <1>2, <3>2
    <3>5. ASSUME NEW m \in 1..n  PROVE i + m \in 1..Len(t) /\ k + (i + m) = k + i + m
      BY <1>1, <1>2, <3>4
    <3> QED  BY <1>2, <3>1, <3>3, <3>4, <3>5
  <2>6. ASSUME t[i][1] = "data"
        PROVE  /\ t[i][2] <= t[i][3] /\ i + (t[i][3] - t[i][2]) <= Len(t)
               /\ \A m \in 0..(t[i][3] - t[i][2]) : t[i + m] = <<"data", t[i][2] + m, t[i][3]>>
    <3>1. PICK a \in Nat, b \in Nat : a = t[i][2] /\ b = t[i][3]  BY <2>2, <2>6, ByteFields
    <3>2. a <= b /\ k + i + (b - a) <= Len(s)  BY <2>1, <2>6, <2>2, <3>1 DEF Follows
    <3>3. \A m \in 0..(b - a) : s[k + i + m] = <<"data", a + m, b>>
      BY <2>1, <2>6, <2>2, <3>1 DEF Follows
    <3>4. i + (b - a) <= Len(t)  BY <1>1, <1>2, <3>2
    <3>5. ASSUME NEW m \in 0..(b - a)  PROVE i + m \in 1..Len(t) /\ k + (i + m) = k + i + m
      <4>1. m \in Nat /\ m <= b - a  BY <3>2
      <4> QED  BY <1>1, <1>2, <3>4, <4>1
    <3> QED  BY <1>2, <3>1, <3>2, <3>3, <3>4, <3>5
  <2>7. /\ t[i][1] = "dollar" => i < Len(t) /\ t[i + 1][1] = "channel"
        /\ t[i][1] = "channel" => i < Len(t) /\ t[i + 1][1] = "size"
        /\ (t[i][1] = "request" \/ (t[i][1] = "data" /\ t[i][2] = t[i][3])) /\ i < Len(t) =>
             t[i + 1][1] \in {"dollar", "request"}
    BY <2>1, <2>2, <2>3, <2>4 DEF Follows
  <2> QED  BY <2>5, <2>6, <2>7 DEF Follows
<1> QED  BY <1>2, <1>3 DEF WellFramed, t

\* Requests and frames may follow one another.
LEMMA JoinFramed ==
    ASSUME NEW s, WellFramed(s), NEW t, WellFramed(t),
           t # <<>> => t[1][1] \in {"dollar", "request"}
    PROVE  /\ WellFramed(s \o t) /\ Len(s \o t) = Len(s) + Len(t)
           /\ \A i \in 1..Len(s \o t) : (s \o t)[i] = IF i <= Len(s) THEN s[i] ELSE t[i - Len(s)]
<1> DEFINE u == s \o t
<1>1. s \in Seq(Bytes) /\ t \in Seq(Bytes) /\ Len(s) \in Nat /\ Len(t) \in Nat
  BY LenProperties DEF WellFramed
<1>2. /\ u \in Seq(Bytes) /\ Len(u) = Len(s) + Len(t)
      /\ \A i \in 1..Len(u) : u[i] = IF i <= Len(s) THEN s[i] ELSE t[i - Len(s)]
  BY <1>1, ConcatProperties
<1> HIDE DEF u
<1>3. ASSUME NEW i \in 1..Len(s)  PROVE Follows(u, i)
  <2>1. Follows(s, i) /\ i \in 1..Len(u) /\ u[i] = s[i] /\ s[i] \in Bytes
    BY <1>1, <1>2, ElementOfSeq DEF WellFramed
  <2>2. i < Len(s) => i < Len(u) /\ i + 1 \in 1..Len(u) /\ u[i + 1] = s[i + 1]
    BY <1>1, <1>2
  <2>3. ~(i < Len(s)) /\ i < Len(u) => u[i + 1][1] \in {"dollar", "request"}
    <3>1. SUFFICES ASSUME ~(i < Len(s)), i < Len(u)  PROVE u[i + 1] = t[1] /\ t # <<>>
      OBVIOUS
    <3>2. i = Len(s) /\ i + 1 \in 1..Len(u) /\ ~(i + 1 <= Len(s)) /\ i + 1 - Len(s) = 1 /\ Len(t) > 0
      BY <1>1, <1>2, <3>1
    <3> QED  BY <1>1, <1>2, <3>2, EmptySeq
  <2>4. ASSUME u[i][1] = "size"
        PROVE  i + u[i][2] <= Len(u) /\ \A m \in 1..u[i][2] : u[i + m] = <<"data", m, u[i][2]>>
    <3>1. PICK n \in Nat : n = s[i][2]  BY <2>1, <2>4, ByteFields
    <3>2. i + n <= Len(s)  BY <2>1, <2>4, <3>1 DEF Follows
    <3>3. \A m \in 1..n : s[i + m] = <<"data", m, n>>
      BY <2>1, <2>4, <3>1 DEF Follows
    <3>4. i + n <= Len(u)  BY <1>1, <1>2, <3>2
    <3>5. ASSUME NEW m \in 1..n  PROVE i + m \in 1..Len(u) /\ i + m <= Len(s)
      BY <1>1, <1>2, <3>2, <3>4
    <3> QED  BY <1>2, <2>1, <3>1, <3>3, <3>4, <3>5
  <2>5. ASSUME u[i][1] = "data"
        PROVE  /\ u[i][2] <= u[i][3] /\ i + (u[i][3] - u[i][2]) <= Len(u)
               /\ \A m \in 0..(u[i][3] - u[i][2]) : u[i + m] = <<"data", u[i][2] + m, u[i][3]>>
    <3>1. PICK a \in Nat, b \in Nat : a = s[i][2] /\ b = s[i][3]  BY <2>1, <2>5, ByteFields
    <3>2. a <= b /\ i + (b - a) <= Len(s)  BY <2>1, <2>5, <2>2, <3>1 DEF Follows
    <3>3. \A m \in 0..(b - a) : s[i + m] = <<"data", a + m, b>>
      BY <2>1, <2>5, <2>2, <3>1 DEF Follows
    <3>4. i + (b - a) <= Len(u)  BY <1>1, <1>2, <3>2
    <3>5. ASSUME NEW m \in 0..(b - a)  PROVE i + m \in 1..Len(u) /\ i + m <= Len(s)
      BY <1>1, <1>2, <3>2, <3>4
    <3> QED  BY <1>2, <2>1, <3>1, <3>2, <3>3, <3>4, <3>5
  <2>6. /\ u[i][1] = "dollar" => i < Len(u) /\ u[i + 1][1] = "channel"
        /\ u[i][1] = "channel" => i < Len(u) /\ u[i + 1][1] = "size"
        /\ (u[i][1] = "request" \/ (u[i][1] = "data" /\ u[i][2] = u[i][3])) /\ i < Len(u) =>
             u[i + 1][1] \in {"dollar", "request"}
    BY <2>1, <2>2, <2>3 DEF Follows
  <2> QED  BY <2>4, <2>5, <2>6 DEF Follows
<1>4. ASSUME NEW j \in 1..Len(t)  PROVE Follows(u, Len(s) + j)
  <2> DEFINE i == Len(s) + j
  <2>1. Follows(t, j) /\ i \in 1..Len(u) /\ u[i] = t[j] /\ t[j] \in Bytes
    <3>1. i \in 1..Len(u) /\ ~(i <= Len(s)) /\ i - Len(s) = j  BY <1>1, <1>2
    <3> QED  BY <1>1, <1>2, <3>1, ElementOfSeq DEF WellFramed
  <2>2. i < Len(u) <=> j < Len(t)  BY <1>1, <1>2
  <2>3. \A m \in Nat : j + m <= Len(t) => u[i + m] = t[j + m]
    <3>1. ASSUME NEW m \in Nat, j + m <= Len(t)
          PROVE  i + m \in 1..Len(u) /\ ~(i + m <= Len(s)) /\ i + m - Len(s) = j + m
      BY <1>1, <1>2, <3>1
    <3> QED  BY <1>2, <3>1
  <2>4. i < Len(u) => u[i + 1] = t[j + 1]
    <3>1. i < Len(u) => j + 1 <= Len(t)  BY <1>1, <2>2
    <3> QED  BY <2>3, <3>1
  <2> HIDE DEF i
  <2>5. ASSUME u[i][1] = "size"
        PROVE  i + u[i][2] <= Len(u) /\ \A m \in 1..u[i][2] : u[i + m] = <<"data", m, u[i][2]>>
    <3>1. PICK n \in Nat : n = t[j][2]  BY <2>1, <2>5, ByteFields
    <3>2. j + n <= Len(t)  BY <2>1, <2>5, <2>2, <3>1 DEF Follows
    <3>3. \A m \in 1..n : t[j + m] = <<"data", m, n>>
      BY <2>1, <2>5, <2>2, <3>1 DEF Follows
    <3>4. i + n <= Len(u)  BY <1>1, <1>2, <3>2 DEF i
    <3>5. ASSUME NEW m \in 1..n  PROVE m \in Nat /\ j + m <= Len(t)
      BY <1>1, <3>2
    <3> QED  BY <2>1, <2>3, <3>1, <3>3, <3>4, <3>5
  <2>6. ASSUME u[i][1] = "data"
        PROVE  /\ u[i][2] <= u[i][3] /\ i + (u[i][3] - u[i][2]) <= Len(u)
               /\ \A m \in 0..(u[i][3] - u[i][2]) : u[i + m] = <<"data", u[i][2] + m, u[i][3]>>
    <3>1. PICK a \in Nat, b \in Nat : a = t[j][2] /\ b = t[j][3]  BY <2>1, <2>6, ByteFields
    <3>2. a <= b /\ j + (b - a) <= Len(t)  BY <2>1, <2>6, <2>2, <3>1 DEF Follows
    <3>3. \A m \in 0..(b - a) : t[j + m] = <<"data", a + m, b>>
      BY <2>1, <2>6, <2>2, <3>1 DEF Follows
    <3>4. i + (b - a) <= Len(u)  BY <1>1, <1>2, <3>2 DEF i
    <3>5. ASSUME NEW m \in 0..(b - a)  PROVE m \in Nat /\ j + m <= Len(t)
      BY <1>1, <3>2
    <3> QED  BY <2>1, <2>3, <3>1, <3>2, <3>3, <3>4, <3>5
  <2>7. /\ u[i][1] = "dollar" => i < Len(u) /\ u[i + 1][1] = "channel"
        /\ u[i][1] = "channel" => i < Len(u) /\ u[i + 1][1] = "size"
        /\ (u[i][1] = "request" \/ (u[i][1] = "data" /\ u[i][2] = u[i][3])) /\ i < Len(u) =>
             u[i + 1][1] \in {"dollar", "request"}
    BY <2>1, <2>2, <2>4 DEF Follows
  <2>8. Follows(u, i)  BY <2>5, <2>6, <2>7 DEF Follows
  <2> QED  BY <2>8 DEF i
<1>5. ASSUME NEW i \in 1..Len(u)  PROVE Follows(u, i)
  <2>1. i \in 1..Len(s) \/ \E j \in 1..Len(t) : i = Len(s) + j
    <3>1. i \in 1..Len(s) \/ (i - Len(s) \in 1..Len(t) /\ i = Len(s) + (i - Len(s)))
      BY <1>1, <1>2
    <3> QED  BY <3>1
  <2> QED  BY <1>3, <1>4, <2>1
<1> QED  BY <1>2, <1>5 DEF WellFramed, u

\* A frame, and a request, by themselves.
LEMMA FrameFramed ==
    ASSUME NEW c \in Conns, NEW f \in Frames[c]
    PROVE  LET s == FrameBytes(f)
           IN /\ WellFramed(s) /\ s # <<>> /\ s[1][1] = "dollar"
              /\ \A i \in 1..Len(s) : s[i][1] # "request"
<1> DEFINE s == FrameBytes(f)
           h == <<<<"dollar">>, <<"channel", f[1]>>, <<"size", f[2]>>>>
           d == [k \in 1..f[2] |-> <<"data", k, f[2]>>]
<1>1. PICK n \in Nat \ {0}, ch \in Interfaces : f[2] = n /\ f[1] = ch  BY FramesAssumption
<1>2. h \in Seq(Bytes) /\ Len(h) = 3 /\ h[1] = <<"dollar">> /\ h[2] = <<"channel", ch>> /\ h[3] = <<"size", n>>
  BY <1>1 DEF Bytes
<1>3. d \in Seq(Bytes) /\ Len(d) = n /\ \A k \in 1..n : d[k] = <<"data", k, n>>
  <2>1. \A k \in 1..n : <<"data", k, n>> \in Bytes  BY DEF Bytes
  <2> QED  BY <1>1, <2>1
<1>4. s = h \o d  BY DEF FrameBytes
<1> HIDE DEF s, h, d
<1>5. /\ s \in Seq(Bytes) /\ Len(s) = 3 + n
      /\ \A i \in 1..(3 + n) : s[i] = IF i <= 3 THEN h[i] ELSE d[i - 3]
  <2>1. /\ s \in Seq(Bytes) /\ Len(s) = Len(h) + Len(d)
        /\ \A i \in 1..(Len(h) + Len(d)) : s[i] = IF i <= Len(h) THEN h[i] ELSE d[i - Len(h)]
    BY <1>2, <1>3, <1>4, ConcatProperties
  <2> QED  BY <1>2, <1>3, <2>1
<1>6. s[1] = <<"dollar">> /\ s[2] = <<"channel", ch>> /\ s[3] = <<"size", n>>
  <2>1. 1 \in 1..(3 + n) /\ 2 \in 1..(3 + n) /\ 3 \in 1..(3 + n)  OBVIOUS
  <2> QED  BY <1>2, <1>5, <2>1
<1>7. ASSUME NEW k \in 1..n  PROVE s[3 + k] = <<"data", k, n>>
  <2>1. 3 + k \in 1..(3 + n) /\ ~(3 + k <= 3) /\ 3 + k - 3 = k  OBVIOUS
  <2> QED  BY <1>3, <1>5, <2>1
<1>8. \A i \in 1..Len(s) : i \in {1, 2, 3} \/ \E k \in 1..n : i = 3 + k
  <2>1. ASSUME NEW i \in 1..(3 + n), i \notin {1, 2, 3}  PROVE i - 3 \in 1..n /\ i = 3 + (i - 3)
    BY <2>1
  <2> QED  BY <1>5, <2>1
<1>9. ASSUME NEW k \in 1..n  PROVE Follows(s, 3 + k)
  <2>0. s[3 + k] = <<"data", k, n>>  BY <1>7
  <2>1. s[3 + k][1] = "data" /\ s[3 + k][2] = k /\ s[3 + k][3] = n  BY <2>0
  <2>2. k <= n /\ 3 + k + (n - k) <= Len(s)  BY <1>5
  <2>3. ASSUME NEW m \in 0..(n - k)  PROVE s[3 + k + m] = <<"data", k + m, n>>
    <3>1. k + m \in 1..n /\ 3 + (k + m) = 3 + k + m  OBVIOUS
    <3> QED  BY <1>7, <3>1
  <2>4. k = n => ~(3 + k < Len(s))  BY <1>5
  <2> QED  BY <2>1, <2>2, <2>3, <2>4 DEF Follows
<1>10. Follows(s, 1)  BY <1>5, <1>6 DEF Follows
<1>11. Follows(s, 2)  BY <1>5, <1>6 DEF Follows
<1>12. Follows(s, 3)
  <2>1. s[3][1] = "size" /\ s[3][2] = n  BY <1>6
  <2> QED  BY <1>5, <1>7, <2>1 DEF Follows
<1>13. WellFramed(s)  BY <1>5, <1>8, <1>9, <1>10, <1>11, <1>12 DEF WellFramed
<1>14. s # <<>>  BY <1>5, EmptySeq
<1>15. \A i \in 1..Len(s) : s[i][1] # "request"
  <2>1. s[1][1] = "dollar" /\ s[2][1] = "channel" /\ s[3][1] = "size"  BY <1>6
  <2>2. \A k \in 1..n : s[3 + k][1] = "data"  BY <1>7
  <2> QED  BY <1>8, <2>1, <2>2
<1> QED  BY <1>6, <1>13, <1>14, <1>15 DEF s

LEMMA RequestFramed ==
    ASSUME NEW r \in {"setup", "play", "teardown"}
    PROVE  LET s == <<<<"request", r>>>>
           IN WellFramed(s) /\ Len(s) = 1 /\ s[1] = <<"request", r>>
<1> DEFINE s == <<<<"request", r>>>>
<1>1. s \in Seq(Bytes) /\ Len(s) = 1 /\ s[1] = <<"request", r>>  BY DEF Bytes
<1>2. s[1][1] = "request"  BY <1>1
<1> HIDE DEF s
<1>3. Follows(s, 1)  BY <1>1, <1>2 DEF Follows
<1> QED  BY <1>1, <1>3 DEF WellFramed, s

-----------------------------------------------------------------------------
(* What the steps do to it.                                                *)

\* The first k bytes of c's stream have been read.
Taken(c, k) ==
    /\ in' \in [Conns -> Seq(Bytes)] /\ WellFramed(in'[c])
    /\ k <= Len(in[c]) /\ Len(in'[c]) = Len(in[c]) - k
    /\ \A i \in 1..Len(in'[c]) : in'[c][i] = in[c][k + i]
    /\ \A d \in Conns \ {c} : in'[d] = in[d]

LEMMA ReadTaken ==
    ASSUME StreamInv, NEW c \in Conns, NEW k \in Nat, k <= Len(in[c]),
           in' = [in EXCEPT ![c] = SubSeq(in[c], k + 1, Len(in[c]))]
    PROVE  Taken(c, k)
<1>1. WellFramed(in[c]) /\ in \in [Conns -> Seq(Bytes)]
  BY DEF StreamInv, StreamTypes
<1>2. in'[c] = SubSeq(in[c], k + 1, Len(in[c])) /\ \A d \in Conns \ {c} : in'[d] = in[d]
  BY <1>1
<1>3. /\ WellFramed(in'[c]) /\ Len(in'[c]) = Len(in[c]) - k
      /\ \A i \in 1..Len(in'[c]) : in'[c][i] = in[c][k + i]
  BY <1>1, <1>2, DropFramed
<1>4. in' \in [Conns -> Seq(Bytes)]
  BY <1>1, <1>2, <1>3 DEF WellFramed
<1> QED  BY <1>2, <1>3, <1>4 DEF Taken

\* A handler takes one byte.
LEMMA TakeTaken ==
    ASSUME StreamInv, NEW c \in Conns, in[c] # <<>>, Take(c)
    PROVE  /\ Taken(c, 1) /\ 1 \in 1..Len(in[c]) /\ Len(in[c]) \in Nat
           /\ Byte(c) = in[c][1] /\ Byte(c) \in Bytes
<1>1. in[c] \in Seq(Bytes)  BY DEF StreamInv, StreamTypes
<1>2. Len(in[c]) \in Nat /\ Len(in[c]) # 0  BY <1>1, EmptySeq
<1>3. 1 <= Len(in[c]) /\ 1 \in 1..Len(in[c])  BY <1>2
<1>4. Tail(in[c]) = SubSeq(in[c], 1 + 1, Len(in[c]))  BY <1>1, TailIsSubSeq
<1>5. in' = [in EXCEPT ![c] = SubSeq(in[c], 1 + 1, Len(in[c]))]  BY <1>4 DEF Take
<1>6. Taken(c, 1)  BY <1>3, <1>5, ReadTaken
<1>7. Byte(c) = in[c][1]  BY <1>1 DEF Byte
<1> QED  BY <1>1, <1>2, <1>3, <1>6, <1>7, ElementOfSeq

\* What a step leaves of the client of d.
Alone(d) ==
    /\ link'[d] = link[d]
    /\ d \in plays' <=> d \in plays
    /\ d \in asked' <=> d \in asked

\* What is true of each client, and of the one that steps after the step, is true after it.
LEMMA StreamStep ==
    ASSUME StreamInv, NEW c \in Conns, StreamTypes', WellFramed(in'[c]), Asking(c)',
           link'[c] = "away" => in'[c] = <<>>,
           \A d \in Conns \ {c} : in'[d] = in[d] /\ Alone(d)
    PROVE  StreamInv'
<1>1. ASSUME NEW d \in Conns \ {c}
      PROVE  WellFramed(in'[d]) /\ Asking(d)' /\ (link'[d] = "away" => in'[d] = <<>>)
  BY DEF StreamInv, Asking, Alone
<1> QED  BY <1>1 DEF StreamInv

\* Reading makes no frame and no request.
LEMMA TakenStep ==
    ASSUME StreamInv, NEW c \in Conns, NEW k \in Nat, Taken(c, k), StreamTypes',
           \A d \in Conns : Alone(d)
    PROVE  StreamInv'
<1>1. Len(in[c]) \in Nat /\ Len(in'[c]) \in Nat
  BY LenProperties DEF StreamInv, WellFramed, Taken
<1>2. PICK m \in Nat : Len(in'[c]) = m /\ Len(in[c]) = k + m
  <2>1. PICK m \in Nat, n \in Nat : Len(in'[c]) = m /\ Len(in[c]) = n  BY <1>1
  <2>2. m = n - k  BY <2>1 DEF Taken
  <2>3. n = k + m  BY <2>2
  <2> QED  BY <2>1, <2>3
<1>3. ASSUME NEW i \in 1..m, in'[c][i][1] = "request"
      PROVE  i = m /\ c \notin plays' /\ (link'[c] = "open" => c \in asked')
  <2>1. k + i \in 1..(k + m)  OBVIOUS
  <2>2. in'[c][i] = in[c][k + i]  BY <1>2 DEF Taken
  <2>3. k + i = k + m /\ c \notin plays /\ (link[c] = "open" => c \in asked)
    BY <1>2, <1>3, <2>1, <2>2 DEF StreamInv, Asking
  <2>4. i = m  BY <2>3
  <2> QED  BY <2>3, <2>4 DEF Alone
<1>4. Asking(c)'  BY <1>2, <1>3 DEF Asking
<1>5. link'[c] = "away" => in'[c] = <<>>
  <2>1. link'[c] = "away" => Len(in[c]) = 0  BY EmptySeq DEF StreamInv, Alone
  <2>2. Len(in[c]) = 0 => m = 0  BY <1>2
  <2>3. Len(in'[c]) = 0 => in'[c] = <<>>  BY EmptySeq DEF Taken, WellFramed
  <2> QED  BY <1>2, <2>1, <2>2, <2>3
<1> QED  BY <1>4, <1>5, StreamStep DEF Taken

\* Nothing is read, or nothing is left.
LEMMA NothingLeft ==
    ASSUME StreamInv, NEW c \in Conns, in' = [in EXCEPT ![c] = <<>>], StreamTypes',
           \A d \in Conns \ {c} : Alone(d)
    PROVE  StreamInv'
<1>1. in'[c] = <<>> /\ \A d \in Conns \ {c} : in'[d] = in[d]
  BY DEF StreamInv, StreamTypes
<1>2. WellFramed(in'[c]) /\ Len(in'[c]) = 0
  <2>1. <<>> \in Seq(Bytes) /\ Len(<<>>) = 0  OBVIOUS
  <2>2. \A i \in 1..Len(<<>>) : FALSE  BY <2>1
  <2>3. WellFramed(<<>>)  BY <2>1, <2>2 DEF WellFramed
  <2> QED  BY <1>1, <2>1, <2>3
<1>3. Asking(c)'  BY <1>2 DEF Asking
<1> QED  BY <1>1, <1>2, <1>3, StreamStep

LEMMA NothingRead ==
    ASSUME StreamInv, NEW c \in Conns, in' = in, StreamTypes',
           \A d \in Conns \ {c} : Alone(d), plays' \subseteq plays,
           link'[c] = "open" => link[c] \in {"open", "away"} /\ (c \in asked => c \in asked'),
           link'[c] = "away" => link[c] = "away"
    PROVE  StreamInv'
<1>1. link'[c] = "open" /\ link[c] = "away" => Len(in[c]) = 0
  BY EmptySeq DEF StreamInv
<1>2. Asking(c)
  BY DEF StreamInv
<1>3. ASSUME NEW i \in 1..Len(in'[c]), in'[c][i][1] = "request"
      PROVE  i = Len(in'[c]) /\ c \notin plays' /\ (link'[c] = "open" => c \in asked')
  <2>1. i = Len(in[c]) /\ c \notin plays /\ (link[c] = "open" => c \in asked)
    BY <1>2, <1>3 DEF Asking
  <2> QED  BY <1>1, <1>3, <2>1
<1>4. Asking(c)'  BY <1>3 DEF Asking
<1>5. WellFramed(in'[c]) /\ (link'[c] = "away" => in'[c] = <<>>)
  BY DEF StreamInv
<1> QED  BY <1>4, <1>5, StreamStep

\* A client sends t.
LEMMA NewBytes ==
    ASSUME StreamInv, NEW c \in Conns, NEW t, WellFramed(t), t # <<>>,
           t[1][1] \in {"dollar", "request"}, in' = [in EXCEPT ![c] = in[c] \o t]
    PROVE  /\ WellFramed(in'[c]) /\ in' \in [Conns -> Seq(Bytes)]
           /\ \A d \in Conns \ {c} : in'[d] = in[d]
           /\ Len(in[c]) \in Nat /\ Len(t) \in Nat /\ Len(in'[c]) = Len(in[c]) + Len(t)
           /\ \A i \in 1..Len(in'[c]) :
                in'[c][i] = IF i <= Len(in[c]) THEN in[c][i] ELSE t[i - Len(in[c])]
<1>1. in'[c] = in[c] \o t /\ WellFramed(in[c]) /\ \A d \in Conns \ {c} : in'[d] = in[d]
  BY DEF StreamInv, StreamTypes
<1>2. /\ WellFramed(in'[c]) /\ Len(in'[c]) = Len(in[c]) + Len(t)
      /\ \A i \in 1..Len(in'[c]) :
           in'[c][i] = IF i <= Len(in[c]) THEN in[c][i] ELSE t[i - Len(in[c])]
  BY <1>1, JoinFramed
<1>3. in' \in [Conns -> Seq(Bytes)]
  BY <1>1, <1>2 DEF StreamInv, StreamTypes, WellFramed
<1> QED  BY <1>1, <1>2, <1>3, LenProperties DEF WellFramed

LEMMA AskStream ==
    ASSUME StreamInv, NEW c \in Conns, NEW r \in {"setup", "play", "teardown"}, Ask(c, r)
    PROVE  StreamInv'
<1> DEFINE t == <<<<"request", r>>>>
<1>1. /\ c \notin asked /\ link[c] = "open"
      /\ asked' = asked \cup {c} /\ in' = [in EXCEPT ![c] = Append(@, <<"request", r>>)]
      /\ plays' = plays \ {c} /\ UNCHANGED <<link, nextSize, nextSock, inBuf>>
  BY DEF Ask, MaySend, streamVars
<1>2. WellFramed(t) /\ Len(t) = 1 /\ t[1] = <<"request", r>>  BY RequestFramed
<1>3. t # <<>> /\ t[1][1] = "request"  BY <1>2
<1>4. in' = [in EXCEPT ![c] = in[c] \o t]
  <2>1. in[c] \in Seq(Bytes) /\ <<"request", r>> \in Bytes
    BY DEF StreamInv, StreamTypes, Bytes
  <2>2. Append(in[c], <<"request", r>>) = in[c] \o t
    BY <2>1, AppendIsConcat
  <2> QED  BY <1>1, <2>2
<1> HIDE DEF t
<1>5. /\ WellFramed(in'[c]) /\ in' \in [Conns -> Seq(Bytes)]
      /\ \A d \in Conns \ {c} : in'[d] = in[d]
      /\ Len(in[c]) \in Nat /\ Len(in'[c]) = Len(in[c]) + Len(t)
      /\ \A i \in 1..Len(in'[c]) :
           in'[c][i] = IF i <= Len(in[c]) THEN in[c][i] ELSE t[i - Len(in[c])]
  BY <1>2, <1>3, <1>4, NewBytes
<1>6. PICK m \in Nat : m = Len(in[c]) /\ Len(in'[c]) = m + 1
  BY <1>2, <1>5
<1>7. ASSUME NEW i \in 1..(m + 1), in'[c][i][1] = "request"
      PROVE  i = m + 1
  <2>1. SUFFICES ASSUME i \in 1..m  PROVE FALSE
    OBVIOUS
  <2>2. in'[c][i] = in[c][i]  BY <1>5, <1>6, <2>1
  <2> QED  BY <1>1, <1>6, <1>7, <2>1, <2>2 DEF StreamInv, Asking
<1>8. Asking(c)'  BY <1>1, <1>6, <1>7 DEF Asking
<1>9. StreamTypes'  BY <1>1, <1>5 DEF StreamInv, StreamTypes
<1>10. \A d \in Conns \ {c} : in'[d] = in[d] /\ Alone(d)  BY <1>1, <1>5 DEF Alone
<1> QED  BY <1>1, <1>5, <1>8, <1>9, <1>10, StreamStep

LEMMA SendFrameStream ==
    ASSUME StreamInv, NEW c \in Conns, NEW f \in Frames[c], SendFrame(c, f)
    PROVE  StreamInv'
<1> DEFINE t == FrameBytes(f)
<1>1. /\ c \in plays /\ link[c] = "open" /\ in' = [in EXCEPT ![c] = in[c] \o t]
      /\ UNCHANGED <<link, plays, asked, nextSize, nextSock, inBuf>>
  BY DEF SendFrame, MaySend, clientVars, streamVars
<1>2. /\ WellFramed(t) /\ t # <<>> /\ t[1][1] = "dollar"
      /\ \A i \in 1..Len(t) : t[i][1] # "request"
  BY FrameFramed
<1> HIDE DEF t
<1>3. /\ WellFramed(in'[c]) /\ in' \in [Conns -> Seq(Bytes)]
      /\ \A d \in Conns \ {c} : in'[d] = in[d]
      /\ Len(in[c]) \in Nat /\ Len(t) \in Nat /\ Len(in'[c]) = Len(in[c]) + Len(t)
      /\ \A i \in 1..Len(in'[c]) :
           in'[c][i] = IF i <= Len(in[c]) THEN in[c][i] ELSE t[i - Len(in[c])]
  BY <1>1, <1>2, NewBytes
<1>4. PICK m \in Nat, n \in Nat : m = Len(in[c]) /\ n = Len(t) /\ Len(in'[c]) = m + n
  BY <1>3
<1>5. ASSUME NEW i \in 1..(m + n)
      PROVE  in'[c][i][1] # "request"
  <2>1. in'[c][i] = IF i <= m THEN in[c][i] ELSE t[i - m]
    BY <1>3, <1>4
  <2>2. IF i <= m THEN i \in 1..m ELSE i - m \in 1..n
    OBVIOUS
  <2>3. \A j \in 1..m : in[c][j][1] # "request"
    BY <1>1, <1>4 DEF StreamInv, Asking
  <2> QED  BY <1>2, <1>4, <2>1, <2>2, <2>3
<1>6. Asking(c)'  BY <1>4, <1>5 DEF Asking
<1>7. StreamTypes'  BY <1>1, <1>3 DEF StreamInv, StreamTypes
<1>8. \A d \in Conns \ {c} : in'[d] = in[d] /\ Alone(d)  BY <1>1, <1>3 DEF Alone
<1> QED  BY <1>1, <1>3, <1>6, <1>7, <1>8, StreamStep

\* What may be read of a report, and of whom.
LEMMA MayGetFacts ==
    ASSUME StreamInv, NEW n \in Reported, MayGet(n)
    PROVE  /\ n \in Nat /\ n <= nextSize["rtcp"]
           /\ nextSock = NoConn => n = 0
           /\ nextSock # NoConn => nextSock \in Conns /\ n <= Len(in[nextSock])
           /\ Len(inBuf) >= BufferSize => n = 0
           /\ Len(inBuf) < BufferSize => Len(inBuf) + n <= BufferSize
<1>1. PICK p \in Nat, m \in Nat, b \in Nat :
         p = Len(inBuf) /\ m = nextSize["rtcp"] /\ b = BufferSize
  BY BoundsAssumption, LenProperties DEF StreamInv, StreamTypes
<1>2. n \in Nat /\ n <= Available  BY <1>1 DEF MayGet, Reported
<1>3. PICK w \in Int : w = Wanted /\ w <= m /\ w <= b - p
  BY <1>1 DEF Wanted, Least
<1>4. CASE nextSock = NoConn
  <2>1. Available = 0 /\ n = 0  BY <1>2, <1>4 DEF Available, Source, MayGet
  <2> QED  BY <1>1, <1>4, <2>1
<1>5. CASE nextSock # NoConn
  <2>1. nextSock \in Conns  BY <1>5 DEF StreamInv, StreamTypes
  <2>2. PICK l \in Nat : l = Len(in[nextSock])
    BY <2>1, LenProperties DEF StreamInv, StreamTypes
  <2>3. Available = Least(w, l)  BY <1>3, <1>5, <2>2 DEF Available, Source
  <2>4. n <= w /\ n <= l  BY <1>2, <2>3 DEF MayGet, Least
  <2> QED  BY <1>1, <1>2, <1>3, <1>5, <2>1, <2>2, <2>4
<1> QED  BY <1>4, <1>5

\* The buffer with it.
LEMMA FilledFacts ==
    ASSUME StreamInv, NEW n \in Reported, MayGet(n)
    PROVE  /\ Filled(n) \in Seq(Conns \X Bytes) /\ Len(inBuf) \in Nat
           /\ Len(Filled(n)) = Len(inBuf) + n
           /\ \A i \in 1..(Len(inBuf) + n) :
                Filled(n)[i] = IF i <= Len(inBuf) THEN inBuf[i]
                               ELSE <<nextSock, in[nextSock][i - Len(inBuf)]>>
<1> DEFINE t == [k \in 1..n |-> <<Source, in[Source][k]>>]
<1>1. inBuf \in Seq(Conns \X Bytes) /\ Len(inBuf) \in Nat
  BY LenProperties DEF StreamInv, StreamTypes
<1>2. n \in Nat  BY MayGetFacts
<1>3. t \in [1..n -> Conns \X Bytes]
  <2>1. CASE nextSock = NoConn
    <3>1. n = 0  BY <2>1, MayGetFacts
    <3>2. 1..n = {}  BY <3>1
    <3> QED  BY <3>2
  <2>2. CASE nextSock # NoConn
    <3>1. nextSock \in Conns /\ n <= Len(in[nextSock])  BY <2>2, MayGetFacts
    <3>2. in[nextSock] \in Seq(Bytes) /\ Len(in[nextSock]) \in Nat
      BY <3>1, LenProperties DEF StreamInv, StreamTypes
    <3>3. \A k \in 1..n : k \in 1..Len(in[nextSock])  BY <1>2, <3>1, <3>2
    <3>4. \A k \in 1..n : in[nextSock][k] \in Bytes  BY <3>2, <3>3, ElementOfSeq
    <3> QED  BY <3>1, <3>4 DEF Source
  <2> QED  BY <2>1, <2>2
<1>4. t \in Seq(Conns \X Bytes) /\ Len(t) = n /\ \A k \in 1..n : t[k] = <<nextSock, in[nextSock][k]>>
  <2>1. t \in Seq(Conns \X Bytes)  BY <1>2, <1>3, SeqDef
  <2>2. DOMAIN t = 1..n  OBVIOUS
  <2>3. \A k \in 1..n : t[k] = <<nextSock, in[nextSock][k]>>  BY DEF Source
  <2> HIDE DEF t
  <2> QED  BY <1>2, <2>1, <2>2, <2>3, LenProperties
<1>5. Filled(n) = inBuf \o t  BY DEF Filled
<1> HIDE DEF t
<1>6. /\ inBuf \o t \in Seq(Conns \X Bytes) /\ Len(inBuf \o t) = Len(inBuf) + Len(t)
      /\ \A i \in 1..(Len(inBuf) + Len(t)) :
           (inBuf \o t)[i] = IF i <= Len(inBuf) THEN inBuf[i] ELSE t[i - Len(inBuf)]
  BY <1>1, <1>4, ConcatProperties
<1>7. ASSUME NEW i \in 1..(Len(inBuf) + n)
      PROVE  Filled(n)[i] = IF i <= Len(inBuf) THEN inBuf[i]
                            ELSE <<nextSock, in[nextSock][i - Len(inBuf)]>>
  <2>1. Filled(n)[i] = IF i <= Len(inBuf) THEN inBuf[i] ELSE t[i - Len(inBuf)]
    BY <1>4, <1>5, <1>6
  <2>2. ~(i <= Len(inBuf)) => i - Len(inBuf) \in 1..n
    BY <1>1, <1>2
  <2> QED  BY <1>4, <2>1, <2>2
<1> QED  BY <1>1, <1>4, <1>5, <1>6, <1>7

LEMMA ReportStream ==
    ASSUME StreamInv, NEW n \in Reported, IncomingReport(n)
    PROVE  StreamInv'
<1>1. /\ MayGet(n)
      /\ in' = IF Source = NoConn THEN in ELSE [in EXCEPT ![Source] = Left(n)]
      /\ nextSize' = [nextSize EXCEPT !["rtcp"] = Remaining(n)]
      /\ nextSock' = IF Outcome(n) = "part" THEN nextSock ELSE NoConn
      /\ inBuf' = IF Outcome(n) = "part" THEN Filled(n) ELSE <<>>
      /\ UNCHANGED <<link, plays, asked>>
  BY DEF IncomingReport, clientVars
<1>2. n \in Nat /\ n <= nextSize["rtcp"]  BY <1>1, MayGetFacts
<1>3. nextSize' \in [Interfaces -> Nat]
  <2>1. nextSize["rtcp"] - n \in Nat  BY <1>2 DEF StreamInv, StreamTypes
  <2> QED  BY <1>1, <2>1 DEF StreamInv, StreamTypes, Remaining
<1>4. inBuf' \in Seq(Conns \X Bytes)
  <2>1. Filled(n) \in Seq(Conns \X Bytes)  BY <1>1, FilledFacts
  <2>2. <<>> \in Seq(Conns \X Bytes)  OBVIOUS
  <2> QED  BY <1>1, <2>1, <2>2
<1>5. nextSock' \in Conns \cup {NoConn}  BY <1>1 DEF StreamInv, StreamTypes
<1>6. \A d \in Conns : Alone(d)  BY <1>1 DEF Alone
<1>7. CASE nextSock = NoConn
  <2>1. in' = in  BY <1>1, <1>7 DEF Source
  <2>2. StreamTypes'  BY <1>3, <1>4, <1>5, <2>1 DEF StreamInv, StreamTypes
  <2>3. \A d \in Conns : WellFramed(in'[d]) /\ Asking(d)' /\ (link'[d] = "away" => in'[d] = <<>>)
    BY <1>1, <2>1 DEF StreamInv, Asking
  <2> QED  BY <2>2, <2>3 DEF StreamInv
<1>8. CASE nextSock # NoConn
  <2>1. PICK c \in Conns : c = nextSock  BY <1>8 DEF StreamInv, StreamTypes
  <2>2. in' = [in EXCEPT ![c] = Left(n)]  BY <1>1, <1>8, <2>1 DEF Source
  <2>3. CASE Outcome(n) = "error"
    <3>1. in' = [in EXCEPT ![c] = <<>>]  BY <2>2, <2>3 DEF Left
    <3>2. in' \in [Conns -> Seq(Bytes)]
      <4>1. <<>> \in Seq(Bytes)  OBVIOUS
      <4> QED  BY <3>1, <4>1 DEF StreamInv, StreamTypes
    <3>3. StreamTypes'  BY <1>3, <1>4, <1>5, <3>2 DEF StreamTypes
    <3> QED  BY <1>6, <3>1, <3>3, NothingLeft
  <2>4. CASE Outcome(n) # "error"
    <3>1. in' = [in EXCEPT ![c] = SubSeq(in[c], n + 1, Len(in[c]))]
      BY <2>1, <2>2, <2>4 DEF Left, Source
    <3>2. n <= Len(in[c])  BY <1>1, <1>8, <2>1, MayGetFacts
    <3>3. Taken(c, n)  BY <1>2, <3>1, <3>2, ReadTaken
    <3>4. StreamTypes'  BY <1>3, <1>4, <1>5, <3>3 DEF StreamTypes, Taken
    <3> QED  BY <1>2, <1>6, <3>3, <3>4, TakenStep
  <2> QED  BY <2>3, <2>4
<1> QED  BY <1>7, <1>8

\* A request is the last thing that has been sent.
LEMMA RequestLast ==
    ASSUME StreamInv, NEW c \in Conns, in[c] # <<>>, Take(c), Byte(c)[1] = "request"
    PROVE  in' = [in EXCEPT ![c] = <<>>] /\ Byte(c)[2] \in {"setup", "play", "teardown"}
<1>1. /\ Taken(c, 1) /\ 1 \in 1..Len(in[c]) /\ Len(in[c]) \in Nat
      /\ Byte(c) = in[c][1] /\ Byte(c) \in Bytes
  BY TakeTaken
<1>2. Len(in[c]) = 1  BY <1>1 DEF StreamInv, Asking
<1>3. Len(in'[c]) = 0 /\ in'[c] \in Seq(Bytes)  BY <1>1, <1>2 DEF Taken
<1>4. in'[c] = <<>>  BY <1>3, EmptySeq
<1>5. in' = [in EXCEPT ![c] = in'[c]]  BY DEF StreamInv, StreamTypes, Take
<1> QED  BY <1>1, <1>4, <1>5, ByteFields

\* A byte is given to the request buffer.
LEMMA RequestByteStream ==
    ASSUME StreamInv, NEW c \in Conns, in[c] # <<>>, Take(c), RequestByte(c)
    PROVE  StreamInv'
<1>1. Taken(c, 1) /\ in \in [Conns -> Seq(Bytes)]
  BY TakeTaken DEF StreamInv, StreamTypes
<1>2. CASE Byte(c)[1] # "request"
  <2>1. UNCHANGED <<link, plays, asked, nextSize, nextSock, inBuf>>
    BY <1>2 DEF RequestByte, clientVars, streamVars
  <2>2. StreamTypes' /\ \A d \in Conns : Alone(d)
    BY <1>1, <2>1 DEF StreamInv, StreamTypes, Taken, Alone
  <2> QED  BY <1>1, <2>2, TakenStep
<1>3. CASE Byte(c)[1] = "request"
  <2>1. PICK r \in {"setup", "play", "teardown"} : r = Byte(c)[2]  BY <1>3, RequestLast
  <2>2. HandleRequest(c, r)  BY <1>3, <2>1 DEF RequestByte
  <2>3. in' = [in EXCEPT ![c] = <<>>]  BY <1>3, RequestLast
  <2>4. /\ link' = link /\ asked' = asked \ {c}
        /\ plays' = plays \/ plays' = plays \cup {c} \/ plays' = plays \ {c}
    BY <2>2 DEF HandleRequest
  <2>5. \/ UNCHANGED <<nextSize, nextSock, inBuf>>
        \/ nextSize' = NothingNext /\ nextSock' = NoConn /\ inBuf' = <<>>
    BY <2>2 DEF HandleRequest, EndSession, LeaveStream, StartPlaying, streamVars
  <2>6. StreamTypes'
    <3>1. NothingNext \in [Interfaces -> Nat] /\ <<>> \in Seq(Conns \X Bytes)
      BY DEF NothingNext
    <3> QED  BY <1>1, <2>5, <3>1 DEF StreamInv, StreamTypes, Taken
  <2>7. \A d \in Conns \ {c} : Alone(d)  BY <2>4 DEF Alone
  <2> QED  BY <2>3, <2>6, <2>7, NothingLeft
<1> QED  BY <1>2, <1>3

LEMMA ClosedStream ==
    ASSUME StreamInv, NEW c \in Conns, CloseConnection(c), UNCHANGED <<nextSize, nextSock, inBuf>>
    PROVE  StreamInv'
<1>1. in' = [in EXCEPT ![c] = <<>>]  BY DEF CloseConnection
<1>2. in' \in [Conns -> Seq(Bytes)]
  <2>1. <<>> \in Seq(Bytes)  OBVIOUS
  <2> QED  BY <1>1, <2>1 DEF StreamInv, StreamTypes
<1>3. StreamTypes'  BY <1>2 DEF StreamInv, StreamTypes
<1>4. ASSUME NEW d \in Conns \ {c}  PROVE Alone(d)
  <2>1. link' = [link EXCEPT ![c] = "away"] /\ plays' = plays \ {c} /\ asked' = asked \ {c}
    BY DEF CloseConnection
  <2>2. link'[d] = link[d]
    BY <2>1
  <2> QED  BY <2>1, <2>2 DEF Alone
<1> QED  BY <1>1, <1>3, <1>4, NothingLeft

\* A step of c that takes a byte, and does nothing with it that concerns clients.
LEMMA HandlerStream ==
    ASSUME StreamInv, NEW c \in Conns,
           \/ RtspRead(c) \/ RtspReadError(c) \/ ReadError(c) \/ AwaitDollar(c) \/ AwaitDollarFull(c)
           \/ AwaitChannel(c) \/ AwaitSize(c) \/ PacketDone(c) \/ SkipData(c)
    PROVE  StreamInv'
<1>1. CASE RtspRead(c)
  BY <1>1, RequestByteStream DEF RtspRead
<1>2. CASE RtspReadError(c)
  BY <1>2, ClosedStream DEF RtspReadError, streamVars
<1>3. CASE ReadError(c)
  BY <1>3, ClosedStream DEF ReadError
<1>4. ASSUME in[c] # <<>>, Take(c), UNCHANGED <<link, plays, asked, nextSock, inBuf>>,
             nextSize' \in [Interfaces -> Nat]
      PROVE  StreamInv'
  <2>1. Taken(c, 1)  BY <1>4, TakeTaken
  <2>2. StreamTypes' /\ \A d \in Conns : Alone(d)
    BY <1>4, <2>1 DEF StreamInv, StreamTypes, Taken, Alone
  <2> QED  BY <2>1, <2>2, TakenStep
<1>5. nextSize \in [Interfaces -> Nat]
  BY DEF StreamInv, StreamTypes
<1>6. CASE AwaitDollar(c)
  <2>1. in[c] # <<>> /\ Take(c)  BY <1>6 DEF AwaitDollar, ReadsByte
  <2>2. CASE Byte(c) = <<"dollar">>
    BY <1>4, <1>5, <1>6, <2>1, <2>2 DEF AwaitDollar, clientVars, streamVars
  <2>3. CASE Byte(c) # <<"dollar">>
    BY <1>6, <2>1, <2>3, RequestByteStream DEF AwaitDollar
  <2> QED  BY <2>2, <2>3
<1>7. CASE AwaitChannel(c)
  BY <1>4, <1>5, <1>7 DEF AwaitChannel, ReadsByte, clientVars, streamVars
<1>8. CASE AwaitSize(c)
  <2>1. /\ in[c] # <<>> /\ Take(c) /\ UNCHANGED <<link, plays, asked, inBuf>>
        /\ nextSize' = [nextSize EXCEPT ![desc[c].chan] = SizeIn(Byte(c))]
        /\ nextSock' = nextSock \/ nextSock' = c
    BY <1>8 DEF AwaitSize, ReadsByte, clientVars
  <2>2. Taken(c, 1) /\ Byte(c) \in Bytes  BY <2>1, TakeTaken
  <2>3. SizeIn(Byte(c)) \in Nat  BY <2>2, ByteFields DEF SizeIn
  <2>4. nextSize' \in [Interfaces -> Nat]  BY <1>5, <2>1, <2>3
  <2>5. StreamTypes' /\ \A d \in Conns : Alone(d)
    BY <2>1, <2>2, <2>4 DEF StreamInv, StreamTypes, Taken, Alone
  <2> QED  BY <2>2, <2>5, TakenStep
<1>9. CASE SkipData(c)
  <2>1. /\ in[c] # <<>> /\ Take(c) /\ UNCHANGED <<link, plays, asked, nextSock, inBuf>>
        /\ nextSize' = [nextSize EXCEPT !["rtp"] = @ - 1] /\ nextSize["rtp"] > 0
    BY <1>9 DEF SkipData, ReadsByte, clientVars
  <2>2. nextSize["rtp"] - 1 \in Nat  BY <1>5, <2>1
  <2>3. nextSize' \in [Interfaces -> Nat]  BY <1>5, <2>1, <2>2
  <2> QED  BY <1>4, <2>1, <2>3
<1>10. CASE AwaitDollarFull(c) \/ PacketDone(c)
  <2>1. UNCHANGED <<in, link, plays, asked, nextSize, nextSock, inBuf>>
    BY <1>10 DEF AwaitDollarFull, PacketDone, clientVars, streamVars
  <2>2. StreamTypes' /\ \A d \in Conns : Alone(d)
    BY <2>1 DEF StreamInv, StreamTypes, Alone
  <2>3. \A d \in Conns : WellFramed(in'[d]) /\ Asking(d)' /\ (link'[d] = "away" => in'[d] = <<>>)
    BY <2>1 DEF StreamInv, Asking
  <2> QED  BY <2>2, <2>3 DEF StreamInv
<1> QED  BY <1>1, <1>2, <1>3, <1>6, <1>7, <1>8, <1>9, <1>10

-----------------------------------------------------------------------------
(* Who reads a socket.                                                     *)

States == {"none", "dollar", "channel", "size", "data"}

Types ==
    /\ link \in [Conns -> {"away", "open", "gone"}]
    /\ reader \in [Conns -> {"none", "rtsp", "desc"}]
    /\ session \in [Conns -> {"none", "ready", "playing"}]
    /\ desc \in [Conns -> [state : States, chan : Interfaces \cup {"none"}, subs : SUBSET Interfaces]]
    /\ tcp \in [Interfaces -> SUBSET Conns]

\* A descriptor is there, read by its socket, known to both interfaces, and has both
\* channels, for a session that plays; or there is nothing of it.
Good(c) ==
    /\ reader[c] = "none" <=> link[c] = "away"
    /\ reader[c] = "desc" <=> desc[c].state # "none"
    /\ desc[c].subs = IF desc[c].state = "none" THEN {} ELSE Interfaces
    /\ \A i \in Interfaces : c \in tcp[i] <=> desc[c].state # "none"
    /\ desc[c].state # "none" => session[c] = "playing" /\ c \notin dropped
    /\ c \in plays /\ c \notin dropped => desc[c].state # "none"
    /\ link[c] = "away" => c \notin dropped /\ c \notin plays

ConnInv == Types /\ \A c \in Conns : Good(c)

\* What a step leaves of connection t.
Kept(t) ==
    /\ link'[t] = link[t] /\ reader'[t] = reader[t] /\ session'[t] = session[t]
    /\ desc'[t] = desc[t] /\ \A i \in Interfaces : t \in tcp'[i] <=> t \in tcp[i]
    /\ t \in plays' <=> t \in plays
    /\ t \in dropped' <=> t \in dropped

\* A step of connection c.
Local(c) == Types' /\ Good(c)' /\ \A t \in Conns \ {c} : Kept(t)

\* A step that moves the reading state of c at most, and not to or from "none".
Same(c) ==
    /\ UNCHANGED <<link, reader, session, tcp, dropped>> /\ plays' \subseteq plays
    /\ \/ UNCHANGED desc
       \/ \E st \in States \ {"none"}, ch \in Interfaces \cup {"none"} :
            /\ desc[c].state # "none"
            /\ desc' = [desc EXCEPT ![c] = [state |-> st, chan |-> ch, subs |-> desc[c].subs]]

\* What is true of each connection, and of the one that steps after the step, is true after it.
LEMMA LocalStep ==
    ASSUME ConnInv, NEW c \in Conns, Local(c)
    PROVE  ConnInv'
<1>1. ASSUME NEW t \in Conns \ {c}
      PROVE  Good(t)'
  BY <1>1 DEF ConnInv, Local, Kept, Good
<1> QED  BY <1>1 DEF ConnInv, Local

\* Moving the reading state changes nothing of this.
LEMMA SameStep ==
    ASSUME ConnInv, NEW c \in Conns, Same(c)
    PROVE  ConnInv'
<1>1. CASE UNCHANGED desc
  BY <1>1 DEF ConnInv, Types, Good, Same
<1>2. CASE ~UNCHANGED desc
  <2>1. PICK st \in States \ {"none"}, ch \in Interfaces \cup {"none"} :
            /\ desc[c].state # "none"
            /\ desc' = [desc EXCEPT ![c] = [state |-> st, chan |-> ch, subs |-> desc[c].subs]]
    BY <1>2 DEF Same
  <2>2. [state |-> st, chan |-> ch, subs |-> desc[c].subs]
          \in [state : States, chan : Interfaces \cup {"none"}, subs : SUBSET Interfaces]
    BY <2>1 DEF ConnInv, Types
  <2>3. Types'
    BY <2>1, <2>2 DEF ConnInv, Types, Same
  <2>4. ASSUME NEW t \in Conns  PROVE Good(t)'
    <3>1. /\ desc'[t].state # "none" <=> desc[t].state # "none"
          /\ desc'[t].subs = desc[t].subs
      BY <2>1, <2>2 DEF ConnInv, Types
    <3> QED  BY <3>1 DEF ConnInv, Good, Same
  <2> QED  BY <2>3, <2>4 DEF ConnInv
<1> QED  BY <1>1, <1>2

-----------------------------------------------------------------------------
(* The parts of the handlers that change who reads a socket.               *)

\* A session that leaves the stream takes the descriptor with it.
LEMMA LeaveStreamDesc ==
    ASSUME ConnInv, NEW c \in Conns, NEW last, LeaveStream(c, last)
    PROVE  /\ tcp' = [i \in Interfaces |-> tcp[i] \ {c}]
           /\ IF desc[c].state = "none" THEN desc' = desc /\ reader' = reader ELSE DeleteDescriptor(c)
<1>1. /\ tcp' = [i \in Interfaces |-> tcp[i] \ {c}]
      /\ Deregister(c, {i \in Interfaces : c \in tcp[i]})
  BY DEF LeaveStream
<1>2. CASE desc[c].state # "none"
  <2>1. desc[c].subs \subseteq {i \in Interfaces : c \in tcp[i]}
    BY <1>2 DEF ConnInv, Good
  <2> QED  BY <1>1, <1>2, <2>1 DEF Deregister
<1>3. CASE desc[c].state = "none"
  <2>1. \A i \in Interfaces : c \notin tcp[i]
    BY <1>3 DEF ConnInv, Good
  <2>2. desc' = [desc EXCEPT ![c].subs = @ \ {}] /\ reader' = reader
    BY <1>1, <1>3, <2>1 DEF Deregister
  <2>3. [desc[c] EXCEPT !.subs = @ \ {}] = desc[c]
    BY DEF ConnInv, Types
  <2> QED  BY <1>1, <1>3, <2>2, <2>3 DEF ConnInv, Types
<1> QED  BY <1>2, <1>3, <1>1

\* A socket without a descriptor is the connection's; its client does not play, or has lost
\* its place.
LEMMA NoDescriptorLeft ==
    ASSUME ConnInv, NEW c \in Conns, link' = link,
           IF desc[c].state = "none" THEN desc' = desc /\ reader' = reader ELSE DeleteDescriptor(c),
           tcp' = [i \in Interfaces |-> tcp[i] \ {c}],
           session' \in [Conns -> {"none", "ready", "playing"}],
           \A t \in Conns \ {c} : /\ session'[t] = session[t]
                                  /\ t \in plays' <=> t \in plays
                                  /\ t \in dropped' <=> t \in dropped,
           c \in plays' => c \in dropped',
           link[c] = "away" => c \notin dropped' /\ c \notin plays'
    PROVE  ConnInv'
<1>1. Types'
  BY DEF ConnInv, Types, DeleteDescriptor, NoDescriptor, States
<1>2. Good(c)'
  <2>1. desc'[c].state = "none" /\ desc'[c].subs = {}
    BY DEF ConnInv, Types, Good, DeleteDescriptor, NoDescriptor
  <2>2. reader'[c] # "desc" /\ (reader'[c] = "none" <=> link'[c] = "away")
    BY DEF ConnInv, Types, Good, DeleteDescriptor
  <2>3. \A i \in Interfaces : c \notin tcp'[i]
    OBVIOUS
  <2> QED  BY <2>1, <2>2, <2>3 DEF Good
<1>3. \A t \in Conns \ {c} : Kept(t)
  BY DEF ConnInv, Types, Kept, DeleteDescriptor
<1> QED  BY <1>1, <1>2, <1>3, LocalStep DEF Local

\* A session ends at a request.
LEMMA EndSessionStep ==
    ASSUME ConnInv, NEW c \in Conns, NEW s \in {"none", "ready"}, EndSession(c, s), link' = link,
           plays' = plays \ {c}, dropped' = dropped \ {c}
    PROVE  ConnInv'
<1>1. session' = [session EXCEPT ![c] = s] /\ LeaveStream(c, LastSession(c))
  BY DEF EndSession
<1>2. /\ tcp' = [i \in Interfaces |-> tcp[i] \ {c}]
      /\ IF desc[c].state = "none" THEN desc' = desc /\ reader' = reader ELSE DeleteDescriptor(c)
  BY <1>1, LeaveStreamDesc
<1> QED  BY <1>1, <1>2, NoDescriptorLeft DEF ConnInv, Types

\* A session times out.
LEMMA TimeOutConn ==
    ASSUME ConnInv, NEW c \in Conns, TimeOut(c) \/ TimeOutOld(c)
    PROVE  ConnInv'
<1>1. PICK last : LeaveStream(c, last)
  BY DEF TimeOut, TimeOutOld, EndSession
<1>2. /\ tcp' = [i \in Interfaces |-> tcp[i] \ {c}]
      /\ IF desc[c].state = "none" THEN desc' = desc /\ reader' = reader ELSE DeleteDescriptor(c)
  BY <1>1, LeaveStreamDesc
<1>3. link' = link /\ plays' = plays /\ Dropped(c)
  BY DEF TimeOut, TimeOutOld, clientVars
<1>4. session' = session \/ session' = [session EXCEPT ![c] = "none"]
  BY DEF TimeOut, TimeOutOld, EndSession
<1>5. /\ c \in plays' => c \in dropped'
      /\ link[c] = "away" => c \notin dropped' /\ c \notin plays'
      /\ \A t \in Conns \ {c} : t \in dropped' <=> t \in dropped
  BY <1>3 DEF Dropped, ConnInv, Good
<1>6. /\ session' \in [Conns -> {"none", "ready", "playing"}]
      /\ \A t \in Conns \ {c} : session'[t] = session[t]
  BY <1>4 DEF ConnInv, Types
<1> QED  BY <1>2, <1>3, <1>5, <1>6, NoDescriptorLeft

\* At PLAY the descriptor takes the socket over, or keeps it.
LEMMA StartPlayingDesc ==
    ASSUME ConnInv, NEW c \in Conns, StartPlaying(c)
    PROVE  desc' = [desc EXCEPT ![c] =
               [state |-> IF desc[c].state = "none" THEN "dollar" ELSE desc[c].state,
                chan |-> desc[c].chan, subs |-> Interfaces]]
BY DEF ConnInv, Types, StartPlaying

LEMMA StartPlayingStep ==
    ASSUME ConnInv, NEW c \in Conns, StartPlaying(c), link[c] # "away", link' = link,
           plays' = plays \cup {c}, dropped' = dropped \ {c}
    PROVE  ConnInv'
<1>1. desc' = [desc EXCEPT ![c] = [state |-> IF desc[c].state = "none" THEN "dollar" ELSE desc[c].state,
                                   chan |-> desc[c].chan, subs |-> Interfaces]]
  BY StartPlayingDesc
<1>2. Types'
  BY <1>1 DEF ConnInv, Types, StartPlaying, States
<1>3. Good(c)'
  BY <1>1 DEF ConnInv, Types, Good, StartPlaying
<1>4. \A t \in Conns \ {c} : Kept(t)
  BY <1>1 DEF ConnInv, Types, Kept, StartPlaying
<1> QED  BY <1>2, <1>3, <1>4, LocalStep DEF Local

\* Request r is refused, and nothing changes, or it is handled.
Refused(c, r) == c \in dirty \/ (r # "setup" /\ session[c] = "none")

LEMMA HandleRequestStep ==
    ASSUME ConnInv, NEW c \in Conns, NEW r \in {"setup", "play", "teardown"},
           HandleRequest(c, r), link[c] # "away"
    PROVE  ConnInv'
<1>1. link' = link  BY DEF HandleRequest
<1>2. CASE Refused(c, r)
  <2>1. UNCHANGED <<link, reader, session, desc, tcp, dropped, plays>>
    BY <1>2 DEF HandleRequest, Refused, streamVars
  <2> QED  BY <2>1, SameStep DEF Same
<1>3. CASE ~Refused(c, r)
  <2>1. dropped' = dropped \ {c}
    BY <1>3 DEF HandleRequest, Refused
  <2>2. CASE r = "setup"
    BY <1>1, <1>3, <2>1, <2>2, EndSessionStep DEF HandleRequest, Refused
  <2>3. CASE r = "play"
    BY <1>1, <1>3, <2>1, <2>3, StartPlayingStep DEF HandleRequest, Refused
  <2>4. CASE r = "teardown"
    BY <1>1, <1>3, <2>1, <2>4, EndSessionStep DEF HandleRequest, Refused
  <2> QED  BY <2>2, <2>3, <2>4
<1> QED  BY <1>2, <1>3

\* A connection is closed with nothing of a descriptor left.
LEMMA CloseConnectionStep ==
    ASSUME ConnInv, NEW c \in Conns, CloseConnection(c), session' = session,
           desc' = [desc EXCEPT ![c] = NoDescriptor] \/ (desc' = desc /\ desc[c].state = "none"),
           tcp' = [i \in Interfaces |-> tcp[i] \ {c}]
    PROVE  ConnInv'
<1>1. Types'
  BY DEF ConnInv, Types, CloseConnection, NoDescriptor, States
<1>2. Good(c)'
  <2>1. /\ link'[c] = "away" /\ reader'[c] = "none" /\ \A i \in Interfaces : c \notin tcp'[i]
        /\ c \notin dropped' /\ c \notin plays'
    BY DEF ConnInv, Types, CloseConnection
  <2>2. desc'[c].state = "none" /\ desc'[c].subs = {}
    BY DEF ConnInv, Types, Good, NoDescriptor
  <2> QED  BY <2>1, <2>2 DEF Good
<1>3. \A t \in Conns \ {c} : Kept(t)
  BY DEF ConnInv, Types, Kept, CloseConnection
<1> QED  BY <1>1, <1>2, <1>3, LocalStep DEF Local

-----------------------------------------------------------------------------
(* The steps.                                                              *)

LEMMA ConnectConn ==
    ASSUME ConnInv, NEW c \in Conns, Connect(c)
    PROVE  ConnInv'
<1>1. /\ link[c] = "away" /\ link' = [link EXCEPT ![c] = "open"]
      /\ reader' = [reader EXCEPT ![c] = "rtsp"] /\ session' = [session EXCEPT ![c] = "none"]
      /\ UNCHANGED <<plays, desc, tcp, dropped>>
  BY DEF Connect, streamVars
<1>2. Types'  BY <1>1 DEF ConnInv, Types
<1>3. desc[c].state = "none" /\ c \notin plays  BY <1>1 DEF ConnInv, Good
<1>4. Good(c)'  BY <1>1, <1>3 DEF ConnInv, Types, Good
<1>5. \A t \in Conns \ {c} : Kept(t)  BY <1>1 DEF ConnInv, Types, Kept
<1> QED  BY <1>2, <1>4, <1>5, LocalStep DEF Local

LEMMA LeaveConn ==
    ASSUME ConnInv, NEW c \in Conns, Leave(c)
    PROVE  ConnInv'
<1>1. /\ link[c] = "open" /\ link' = [link EXCEPT ![c] = "gone"] /\ plays' = plays \ {c}
      /\ UNCHANGED <<reader, session, desc, tcp, dropped>>
  BY DEF Leave, rtspVars, streamVars
<1>2. Types'  BY <1>1 DEF ConnInv, Types
<1>3. Good(c)'  BY <1>1 DEF ConnInv, Types, Good
<1>4. \A t \in Conns \ {c} : Kept(t)  BY <1>1 DEF ConnInv, Types, Kept
<1> QED  BY <1>2, <1>3, <1>4, LocalStep DEF Local

LEMMA SendFailsConn ==
    ASSUME ConnInv, NEW c \in Conns, NEW i \in Interfaces, SendFails(c, i)
    PROVE  ConnInv'
<1>1. /\ c \in tcp[i] /\ DeleteDescriptor(c) /\ dropped' = dropped \cup {c}
      /\ UNCHANGED <<link, plays, session>>
      /\ tcp' = [j \in Interfaces |-> IF j \in desc[c].subs \cup {i} THEN tcp[j] \ {c} ELSE tcp[j]]
  BY DEF SendFails, clientVars
<1>2. desc[c].state # "none" /\ desc[c].subs = Interfaces /\ link[c] # "away"
  BY <1>1 DEF ConnInv, Good
<1>3. tcp' = [j \in Interfaces |-> tcp[j] \ {c}]
  BY <1>1, <1>2
<1> QED  BY <1>1, <1>2, <1>3, NoDescriptorLeft DEF ConnInv, Types

\* The steps of a connection's handlers.
LEMMA HandlerConn ==
    ASSUME ConnInv, StreamInv, NEW c \in Conns,
           \/ RtspRead(c) \/ RtspReadError(c) \/ ReadError(c) \/ AwaitDollar(c) \/ AwaitDollarFull(c)
           \/ AwaitChannel(c) \/ AwaitSize(c) \/ PacketDone(c) \/ SkipData(c)
    PROVE  ConnInv'
<1>1. ASSUME RequestByte(c), link[c] # "away", in[c] # <<>>, Take(c)
      PROVE  ConnInv'
  <2>1. CASE Byte(c)[1] # "request"
    <3>1. UNCHANGED <<link, reader, session, desc, tcp, dropped, plays>>
      BY <1>1, <2>1 DEF RequestByte, clientVars, rtspVars, streamVars
    <3> QED  BY <3>1, SameStep DEF Same
  <2>2. CASE Byte(c)[1] = "request"
    <3>1. PICK r \in {"setup", "play", "teardown"} : r = Byte(c)[2]
      BY <1>1, <2>2, RequestLast
    <3>2. HandleRequest(c, r)
      BY <1>1, <2>2, <3>1 DEF RequestByte
    <3> QED  BY <1>1, <3>2, HandleRequestStep
  <2> QED  BY <2>1, <2>2
<1>2. CASE RtspRead(c)
  BY <1>1, <1>2 DEF RtspRead, ConnInv, Good
<1>3. CASE RtspReadError(c)
  <2>1. desc[c].state = "none" /\ \A i \in Interfaces : c \notin tcp[i]
    BY <1>3 DEF RtspReadError, ConnInv, Good
  <2>2. tcp' = [i \in Interfaces |-> tcp[i] \ {c}]
    BY <1>3, <2>1 DEF RtspReadError, streamVars, ConnInv, Types
  <2> QED  BY <1>3, <2>1, <2>2, CloseConnectionStep DEF RtspReadError
<1>4. CASE ReadError(c)
  <2>1. tcp' = [i \in Interfaces |-> tcp[i] \ {c}]
    <3>1. \A i \in Interfaces : i \notin desc[c].subs => c \notin tcp[i]
      BY DEF ConnInv, Good
    <3> QED  BY <1>4, <3>1 DEF ReadError, ConnInv, Types
  <2> QED  BY <1>4, <2>1, CloseConnectionStep DEF ReadError
<1>5. CASE AwaitDollar(c)
  <2>1. desc[c].state = "dollar" /\ link[c] # "away"
    BY <1>5 DEF AwaitDollar, ReadsByte, ConnInv, Good
  <2>2. CASE Byte(c) = <<"dollar">>
    <3>1. UNCHANGED <<link, reader, session, tcp, dropped, plays>>
      BY <1>5, <2>2 DEF AwaitDollar, clientVars, rtspVars, streamVars
    <3>2. desc' = [desc EXCEPT ![c] = [state |-> "channel", chan |-> desc[c].chan, subs |-> desc[c].subs]]
      BY <1>5, <2>2 DEF AwaitDollar, ConnInv, Types
    <3>3. desc[c].chan \in Interfaces \cup {"none"}
      BY DEF ConnInv, Types
    <3> QED  BY <2>1, <3>1, <3>2, <3>3, SameStep DEF Same, States
  <2>3. CASE Byte(c) # <<"dollar">>
    BY <1>1, <1>5, <2>1, <2>3 DEF AwaitDollar, ReadsByte
  <2> QED  BY <2>2, <2>3
<1>6. CASE AwaitDollarFull(c) \/ SkipData(c)
  <2>1. UNCHANGED <<link, reader, session, desc, tcp, dropped, plays>>
    BY <1>6 DEF AwaitDollarFull, SkipData, clientVars, rtspVars, streamVars
  <2> QED  BY <2>1, SameStep DEF Same
<1>7. CASE AwaitChannel(c)
  <2>1. desc[c].state = "channel" /\ UNCHANGED <<link, reader, session, tcp, dropped, plays>>
    BY <1>7 DEF AwaitChannel, ReadsByte, clientVars, rtspVars, streamVars
  <2>2. PICK st \in {"size", "dollar"}, ch \in Interfaces \cup {"none"} :
             desc' = [desc EXCEPT ![c] = [state |-> st, chan |-> ch, subs |-> desc[c].subs]]
    BY <1>7 DEF AwaitChannel, ConnInv, Types
  <2>3. st \in States \ {"none"}
    BY DEF States
  <2> QED  BY <2>1, <2>2, <2>3, SameStep DEF Same
<1>8. CASE AwaitSize(c)
  <2>1. desc[c].state = "size" /\ UNCHANGED <<link, reader, session, tcp, dropped, plays>>
    BY <1>8 DEF AwaitSize, ReadsByte, clientVars, rtspVars
  <2>2. desc' = [desc EXCEPT ![c] = [state |-> "data", chan |-> desc[c].chan, subs |-> desc[c].subs]]
    BY <1>8 DEF AwaitSize, ConnInv, Types
  <2>3. desc[c].chan \in Interfaces \cup {"none"}
    BY DEF ConnInv, Types
  <2> QED  BY <2>1, <2>2, <2>3, SameStep DEF Same, States
<1>9. CASE PacketDone(c)
  <2>1. desc[c].state = "data" /\ UNCHANGED <<link, reader, session, tcp, dropped, plays>>
    BY <1>9 DEF PacketDone, clientVars, rtspVars
  <2>2. desc' = [desc EXCEPT ![c] = [state |-> "dollar", chan |-> "none", subs |-> desc[c].subs]]
    BY <1>9 DEF PacketDone, ConnInv, Types
  <2>3. "dollar" \in States \ {"none"} /\ "none" \in Interfaces \cup {"none"}
    BY DEF States
  <2> QED  BY <2>1, <2>2, <2>3, SameStep DEF Same
<1> QED  BY <1>2, <1>3, <1>4, <1>5, <1>6, <1>7, <1>8, <1>9

\* What clients and the clock do.
LEMMA MeanwhileStream ==
    ASSUME StreamInv, ConnInv, NEW c \in Conns, Meanwhile(c)
    PROVE  StreamInv'
<1>0. link \in [Conns -> {"away", "open", "gone"}]  BY DEF ConnInv, Types
<1>1. CASE Connect(c)
  <2>1. /\ link[c] = "away" /\ link' = [link EXCEPT ![c] = "open"] /\ in' = in
        /\ UNCHANGED <<plays, asked, nextSize, nextSock, inBuf>>
    BY <1>1 DEF Connect, streamVars
  <2>2. StreamTypes' /\ \A d \in Conns \ {c} : Alone(d)
    BY <1>0, <2>1 DEF StreamInv, StreamTypes, Alone
  <2>3. link'[c] = "open"  BY <1>0, <2>1
  <2> QED  BY <2>1, <2>2, <2>3, NothingRead
<1>2. CASE Leave(c)
  <2>1. /\ link' = [link EXCEPT ![c] = "gone"] /\ in' = in
        /\ plays' = plays \ {c} /\ asked' = asked \ {c} /\ UNCHANGED <<nextSize, nextSock, inBuf>>
    BY <1>2 DEF Leave, streamVars
  <2>2. StreamTypes' /\ \A d \in Conns \ {c} : Alone(d)
    BY <1>0, <2>1 DEF StreamInv, StreamTypes, Alone
  <2>3. link'[c] = "gone"  BY <1>0, <2>1
  <2> QED  BY <2>1, <2>2, <2>3, NothingRead
<1>3. CASE \E r \in {"setup", "play", "teardown"} : Ask(c, r)
  BY <1>3, AskStream
<1>4. CASE \E f \in Frames[c] : SendFrame(c, f)
  BY <1>4, SendFrameStream
<1>5. ASSUME UNCHANGED <<in, link, plays, asked>>,
             \/ UNCHANGED <<nextSize, nextSock, inBuf>>
             \/ nextSize' = NothingNext /\ nextSock' = NoConn /\ inBuf' = <<>>
      PROVE  StreamInv'
  <2>1. StreamTypes'
    <3>1. NothingNext \in [Interfaces -> Nat] /\ <<>> \in Seq(Conns \X Bytes)
      BY DEF NothingNext
    <3> QED  BY <1>5, <3>1 DEF StreamInv, StreamTypes
  <2>2. \A d \in Conns : WellFramed(in'[d]) /\ Asking(d)' /\ (link'[d] = "away" => in'[d] = <<>>)
    BY <1>5 DEF StreamInv, Asking
  <2> QED  BY <2>1, <2>2 DEF StreamInv
<1>6. CASE \E i \in Interfaces : SendFails(c, i)
  BY <1>5, <1>6 DEF SendFails, clientVars
<1>7. CASE TimeOut(c) \/ TimeOutOld(c)
  BY <1>5, <1>7 DEF TimeOut, TimeOutOld, EndSession, LeaveStream, clientVars
<1> QED  BY <1>1, <1>2, <1>3, <1>4, <1>6, <1>7 DEF Meanwhile

LEMMA MeanwhileConn ==
    ASSUME ConnInv, NEW c \in Conns, Meanwhile(c)
    PROVE  ConnInv'
<1>1. CASE Connect(c) \/ Leave(c)
  BY <1>1, ConnectConn, LeaveConn
<1>2. CASE (\E r \in {"setup", "play", "teardown"} : Ask(c, r)) \/ (\E f \in Frames[c] : SendFrame(c, f))
  <2>1. UNCHANGED <<link, reader, session, desc, tcp, dropped>> /\ plays' \subseteq plays
    BY <1>2 DEF Ask, SendFrame, clientVars, rtspVars, streamVars
  <2> QED  BY <2>1, SameStep DEF Same
<1>3. CASE \E i \in Interfaces : SendFails(c, i)
  BY <1>3, SendFailsConn
<1>4. CASE TimeOut(c) \/ TimeOutOld(c)
  BY <1>4, TimeOutConn
<1> QED  BY <1>1, <1>2, <1>3, <1>4 DEF Meanwhile

\* Every step keeps the records of all connections and what is on its way to them.
LEMMA ConnStep ==
    ASSUME ConnInv, StreamInv, [Next]_vars
    PROVE  ConnInv' /\ StreamInv'
<1>1. ASSUME NEW c \in Conns, Meanwhile(c)
      PROVE  ConnInv' /\ StreamInv'
  BY <1>1, MeanwhileConn, MeanwhileStream
<1>2. ASSUME NEW c \in Conns,
             \/ RtspRead(c) \/ RtspReadError(c) \/ ReadError(c) \/ AwaitDollar(c) \/ AwaitDollarFull(c)
             \/ AwaitChannel(c) \/ AwaitSize(c) \/ PacketDone(c) \/ SkipData(c)
      PROVE  ConnInv' /\ StreamInv'
  BY <1>2, HandlerConn, HandlerStream
<1>3. ASSUME NEW n \in Reported, IncomingReport(n), UNCHANGED desc
      PROVE  ConnInv' /\ StreamInv'
  <2>1. UNCHANGED <<link, reader, session, desc, tcp, plays, dropped>>
    BY <1>3 DEF IncomingReport, clientVars, rtspVars
  <2> QED  BY <1>3, <2>1, ReportStream DEF ConnInv, Types, Good
<1>4. CASE UNCHANGED vars
  <2>1. UNCHANGED <<link, reader, session, desc, tcp, plays, dropped, asked, in, nextSize, nextSock, inBuf>>
    BY <1>4 DEF vars, clientVars, rtspVars, streamVars
  <2>2. ConnInv'  BY <2>1 DEF ConnInv, Types, Good
  <2>3. StreamInv'  BY <2>1 DEF StreamInv, StreamTypes, Asking
  <2> QED  BY <2>2, <2>3
<1>5. ASSUME NEW c \in Conns, Handle(c) \/ \E n \in Reported : ReadReport(c, n)
      PROVE  ConnInv' /\ StreamInv'
  BY <1>2, <1>3, <1>5 DEF Handle, ReadReport
<1> QED  BY <1>1, <1>3, <1>4, <1>5 DEF Next, DatagramWaits

LEMMA ConnFirst ==
    ASSUME Init
    PROVE  ConnInv /\ StreamInv
<1>1. ConnInv
  BY DEF Init, ConnInv, Types, Good, NoDescriptor, States
<1>2. <<>> \in Seq(Bytes) /\ <<>> \in Seq(Conns \X Bytes) /\ Len(<<>>) = 0
  OBVIOUS
<1>3. StreamTypes
  BY <1>2 DEF Init, StreamTypes, NothingNext
<1>4. \A c \in Conns : in[c] = <<>>
  BY DEF Init
<1>5. \A c \in Conns : WellFramed(in[c]) /\ Asking(c)
  <2>1. \A i \in 1..Len(<<>>) : FALSE  BY <1>2
  <2>2. WellFramed(<<>>)  BY <1>2, <2>1 DEF WellFramed
  <2> QED  BY <1>4, <2>1, <2>2 DEF Asking
<1> QED  BY <1>1, <1>3, <1>4, <1>5 DEF StreamInv

\* The records of all connections are right from the start, and stay so.
LEMMA ConnectionsRight == Spec => [](ConnInv /\ StreamInv)
<1>1. ConnInv /\ StreamInv /\ [Next]_vars => ConnInv' /\ StreamInv'
  BY ConnStep
<1>2. Init => ConnInv /\ StreamInv
  BY ConnFirst
<1> QED  BY <1>1, <1>2, PTL DEF Spec

\* Every socket has the one background handler it should have, and no descriptor outlives its
\* connection, until a full request buffer frees one under its descriptor.
THEOREM OneReader == Spec => []SomeoneReads
<1>1. ConnInv /\ StreamInv => SomeoneReads
  BY DEF ConnInv, Good, SomeoneReads
<1> QED  BY <1>1, ConnectionsRight, PTL

\* The interfaces' lists and the descriptors' tables agree, and name no closed socket.
THEOREM RecordsAgree == Spec => []RecordsMatch
<1>1. ConnInv /\ StreamInv => RecordsMatch
  BY DEF ConnInv, Types, Good, RecordsMatch
<1> QED  BY <1>1, ConnectionsRight, PTL

\* A client that plays is on the lists of both interfaces, unless it has lost its descriptor.
THEOREM PlayersListed == Spec => []PlayersAreSent
<1>1. ConnInv /\ StreamInv => PlayersAreSent
  BY DEF ConnInv, Good, PlayersAreSent
<1> QED  BY <1>1, ConnectionsRight, PTL

-----------------------------------------------------------------------------
(* What has been read, until packets are mixed.                            *)

\* How much of c's packet is still to be read.
ToRead(c) ==
    IF desc[c].state = "data" /\ (desc[c].chan = "rtcp" => nextSock = c)
      THEN nextSize[desc[c].chan] ELSE 0

\* The first byte is the one that the descriptor, or the connection, waits for.
Expected(c) ==
    /\ desc[c].state = "channel" => in[c] # <<>> /\ in[c][1][1] = "channel"
    /\ desc[c].state = "size" => in[c] # <<>> /\ in[c][1][1] = "size"
    /\ desc[c].state \in {"size", "data"} => desc[c].chan \in Interfaces
    /\ ToRead(c) # 0 =>
         /\ in[c] # <<>> /\ in[c][1][1] = "data"
         /\ ToRead(c) = in[c][1][3] - in[c][1][2] + 1
    /\ desc[c].state \notin {"channel", "size"} /\ ToRead(c) = 0 /\ in[c] # <<>> =>
         in[c][1][1] \in {"dollar", "request"}

AllRequests(s) == \A i \in 1..Len(s) : s[i][1] = "request"

\* What c's socket says is understood; without a descriptor, there are requests only.
Clear(c) ==
    /\ Expected(c) /\ c \notin dirty
    /\ desc[c].state = "none" => AllRequests(in[c])

\* The report that is being read is of the client that nextSock says, and inBuf is what has
\* been read of it.
ReportRead ==
    IF nextSock = NoConn THEN inBuf = <<>>
    ELSE /\ ToRead(nextSock) # 0 /\ desc[nextSock].chan = "rtcp"
         /\ inBuf = [j \in 1..(in[nextSock][1][2] - 1) |->
                       <<nextSock, <<"data", j, in[nextSock][1][3]>>>>]

\* c's descriptor reads, or skips, a packet for the RTP interface.
Skips(c) == desc[c].state = "data" /\ desc[c].chan = "rtp"

OneSkips == \A c, d \in Conns : Skips(c) /\ Skips(d) => c = d

PlaceInv ==
    /\ ReportRead /\ OneSkips /\ PacketsWhole
    /\ \A c \in Conns : c \in dropped \/ Clear(c)

FrameInv == mixed \/ PlaceInv

\* Where there is a descriptor, it has been there since PLAY.
LEMMA Reading ==
    ASSUME ConnInv, PlaceInv, NEW c \in Conns, desc[c].state # "none"
    PROVE  Clear(c) /\ c \notin dropped
BY DEF ConnInv, Good, PlaceInv

LEMMA Sourced ==
    ASSUME PlaceInv, NEW c \in Conns, nextSock = c
    PROVE  /\ ToRead(c) # 0 /\ desc[c].state = "data" /\ desc[c].chan = "rtcp"
           /\ ToRead(c) = nextSize["rtcp"]
           /\ inBuf = [j \in 1..(in[c][1][2] - 1) |-> <<c, <<"data", j, in[c][1][3]>>>>]
<1>1. /\ ToRead(c) # 0 /\ desc[c].chan = "rtcp"
      /\ inBuf = [j \in 1..(in[c][1][2] - 1) |-> <<c, <<"data", j, in[c][1][3]>>>>]
  BY NoConnAssumption DEF PlaceInv, ReportRead
<1> QED  BY <1>1 DEF ToRead

LEMMA FirstByte ==
    ASSUME StreamInv, NEW c \in Conns, in[c] # <<>>
    PROVE  1 \in 1..Len(in[c]) /\ in[c][1] \in Bytes /\ Follows(in[c], 1) /\ Len(in[c]) \in Nat
<1>1. in[c] \in Seq(Bytes)  BY DEF StreamInv, StreamTypes
<1>2. Len(in[c]) \in Nat /\ Len(in[c]) # 0  BY <1>1, EmptySeq
<1>3. 1 \in 1..Len(in[c])  BY <1>2
<1> QED  BY <1>1, <1>2, <1>3, ElementOfSeq DEF StreamInv, WellFramed

\* What a step leaves of the place of d.
Stays(d) ==
    /\ in'[d] = in[d] /\ desc'[d] = desc[d] /\ ToRead(d)' = ToRead(d)
    /\ d \in dirty' <=> d \in dirty
    /\ d \in dropped' <=> d \in dropped

LEMMA StaysClear ==
    ASSUME NEW d \in Conns, Stays(d), d \in dropped \/ Clear(d)
    PROVE  d \in dropped' \/ Clear(d)'
<1>1. Expected(d) => Expected(d)'  BY DEF Stays, Expected
<1>2. AllRequests(in[d]) => AllRequests(in'[d])  BY DEF Stays
<1> QED  BY <1>1, <1>2 DEF Stays, Clear

\* A step of c, other than the reading of reports and what tells the interfaces what to read.
LEMMA PlaceStep ==
    ASSUME PlaceInv, StreamInv, NEW c \in Conns, handed' = <<>>, UNCHANGED <<nextSock, inBuf>>,
           \A d \in Conns \ {c} : Stays(d), c \in dropped' \/ Clear(c)',
           Skips(c)' => Skips(c) \/ \A d \in Conns \ {c} : ~Skips(d),
           nextSock = c => ToRead(c)' # 0 /\ desc'[c].chan = "rtcp" /\ in'[c][1] = in[c][1]
    PROVE  PlaceInv'
<1>1. \A d \in Conns : d \in dropped' \/ Clear(d)'
  BY StaysClear DEF PlaceInv
<1>2. \A d \in Conns \ {c} : Skips(d)' <=> Skips(d)
  BY DEF Stays, Skips
<1>3. OneSkips'
  BY <1>2 DEF PlaceInv, OneSkips
<1>4. PacketsWhole'
  BY DEF PacketsWhole
<1>5. ReportRead'
  <2>1. CASE nextSock = NoConn
    BY <2>1 DEF PlaceInv, ReportRead
  <2>2. CASE nextSock = c
    <3>1. inBuf = [j \in 1..(in[c][1][2] - 1) |-> <<c, <<"data", j, in[c][1][3]>>>>]
      BY <2>2, Sourced
    <3>2. inBuf' = [j \in 1..(in'[c][1][2] - 1) |-> <<c, <<"data", j, in'[c][1][3]>>>>]
      BY <2>2, <3>1
    <3>3. nextSock' = c /\ c # NoConn  BY <2>2, NoConnAssumption
    <3> QED  BY <2>2, <3>2, <3>3 DEF ReportRead
  <2>3. ASSUME nextSock # NoConn, nextSock # c
        PROVE  ReportRead'
    <3>1. PICK d \in Conns \ {c} : d = nextSock  BY <2>3 DEF StreamInv, StreamTypes
    <3>2. ToRead(d)' # 0 /\ desc'[d].chan = "rtcp" /\ in'[d] = in[d]
      BY <3>1, Sourced DEF Stays
    <3>3. inBuf' = [j \in 1..(in'[d][1][2] - 1) |-> <<d, <<"data", j, in'[d][1][3]>>>>]
      BY <3>1, <3>2, Sourced
    <3>4. nextSock' = d /\ d # NoConn  BY <3>1, NoConnAssumption
    <3> QED  BY <3>2, <3>3, <3>4 DEF ReportRead
  <2> QED  BY <2>1, <2>2, <2>3
<1> QED  BY <1>1, <1>3, <1>4, <1>5 DEF PlaceInv

-----------------------------------------------------------------------------
(* Clients and the clock.                                                  *)

\* Nothing is read, and nothing comes.
LEMMA NothingMoves ==
    ASSUME PlaceInv, StreamInv, NEW c \in Conns, handed' = <<>>,
           UNCHANGED <<in, desc, dirty, dropped, nextSize, nextSock, inBuf>>
    PROVE  PlaceInv'
<1>1. \A d \in Conns : Stays(d)  BY DEF Stays, ToRead
<1>2. c \in dropped' \/ Clear(c)'  BY <1>1, StaysClear DEF PlaceInv
<1>3. Skips(c)' => Skips(c)  BY DEF Skips
<1>4. nextSock = c => ToRead(c)' # 0 /\ desc'[c].chan = "rtcp" /\ in'[c][1] = in[c][1]
  BY <1>1, Sourced DEF Stays
<1> QED  BY <1>1, <1>2, <1>3, <1>4, PlaceStep

\* A client sends t, requests only if there is no descriptor to tell frames from them.
LEMMA NewBytesPlace ==
    ASSUME PlaceInv, ConnInv, StreamInv, NEW c \in Conns, handed' = <<>>,
           NEW t, WellFramed(t), t # <<>>, t[1][1] \in {"dollar", "request"},
           in' = [in EXCEPT ![c] = in[c] \o t],
           c \in dropped \/ desc[c].state # "none" \/ AllRequests(t),
           UNCHANGED <<desc, dirty, dropped, nextSize, nextSock, inBuf>>
    PROVE  PlaceInv'
<1>1. /\ WellFramed(in'[c]) /\ \A d \in Conns \ {c} : in'[d] = in[d]
      /\ Len(in[c]) \in Nat /\ Len(t) \in Nat /\ Len(in'[c]) = Len(in[c]) + Len(t)
      /\ \A i \in 1..Len(in'[c]) :
           in'[c][i] = IF i <= Len(in[c]) THEN in[c][i] ELSE t[i - Len(in[c])]
  BY NewBytes
<1>2. PICK m \in Nat, n \in Nat : m = Len(in[c]) /\ n = Len(t) /\ n # 0 /\ Len(in'[c]) = m + n
  <2>1. Len(t) # 0  BY EmptySeq DEF WellFramed
  <2> QED  BY <1>1, <2>1
<1>3. 1 \in 1..(m + n) /\ m + n # 0  BY <1>2
<1>4. in'[c] # <<>>  BY <1>1, <1>2, <1>3, EmptySeq DEF WellFramed
<1>5. in[c] # <<>> => in'[c][1] = in[c][1]
  <2>1. in[c] # <<>> => 1 <= m  BY <1>2, FirstByte
  <2> QED  BY <1>1, <1>2, <1>3, <2>1
<1>6. in[c] = <<>> => in'[c][1] = t[1]
  <2>1. in[c] = <<>> => m = 0  BY <1>2, EmptySeq
  <2>2. m = 0 => ~(1 <= m) /\ 1 - m = 1  OBVIOUS
  <2> QED  BY <1>1, <1>2, <1>3, <2>1, <2>2
<1>7. ToRead(c)' = ToRead(c) /\ desc' = desc /\ dirty' = dirty /\ dropped' = dropped
  BY DEF ToRead
<1>8. Expected(c) => Expected(c)'
  BY <1>4, <1>5, <1>6, <1>7 DEF Expected
<1>9. AllRequests(in[c]) /\ AllRequests(t) => AllRequests(in'[c])
  <2> SUFFICES ASSUME AllRequests(in[c]), AllRequests(t), NEW i \in 1..(m + n)
               PROVE  in'[c][i][1] = "request"
    BY <1>2 DEF AllRequests
  <2>1. IF i <= m THEN i \in 1..m ELSE i - m \in 1..n  OBVIOUS
  <2> QED  BY <1>1, <1>2, <2>1 DEF AllRequests
<1>10. c \in dropped' \/ Clear(c)'
  <2>1. c \in dropped \/ Clear(c)  BY DEF PlaceInv
  <2> QED  BY <1>7, <1>8, <1>9, <2>1 DEF Clear
<1>11. \A d \in Conns \ {c} : Stays(d)  BY <1>1 DEF Stays, ToRead
<1>12. Skips(c)' => Skips(c)  BY DEF Skips
<1>13. nextSock = c => ToRead(c)' # 0 /\ desc'[c].chan = "rtcp" /\ in'[c][1] = in[c][1]
  <2>1. nextSock = c => ToRead(c) # 0 /\ desc[c].chan = "rtcp" /\ Clear(c)
    BY Sourced, Reading
  <2>2. nextSock = c => in[c] # <<>>  BY <2>1 DEF Clear, Expected
  <2> QED  BY <1>5, <1>7, <2>1, <2>2
<1> QED  BY <1>10, <1>11, <1>12, <1>13, PlaceStep

LEMMA AskPlace ==
    ASSUME PlaceInv, ConnInv, StreamInv, NEW c \in Conns, NEW r \in {"setup", "play", "teardown"},
           Ask(c, r), handed' = <<>>
    PROVE  PlaceInv'
<1> DEFINE t == <<<<"request", r>>>>
<1>1. /\ in' = [in EXCEPT ![c] = Append(@, <<"request", r>>)]
      /\ UNCHANGED <<desc, dirty, dropped, nextSize, nextSock, inBuf>>
  BY DEF Ask, streamVars
<1>2. WellFramed(t) /\ Len(t) = 1 /\ t[1] = <<"request", r>>  BY RequestFramed
<1>3. t # <<>> /\ t[1][1] = "request"  BY <1>2
<1>4. in' = [in EXCEPT ![c] = in[c] \o t]
  <2>1. in[c] \in Seq(Bytes) /\ <<"request", r>> \in Bytes
    BY DEF StreamInv, StreamTypes, Bytes
  <2>2. Append(in[c], <<"request", r>>) = in[c] \o t
    BY <2>1, AppendIsConcat
  <2> QED  BY <1>1, <2>2
<1> HIDE DEF t
<1>5. AllRequests(t)  BY <1>2, <1>3 DEF AllRequests
<1> QED  BY <1>1, <1>2, <1>3, <1>4, <1>5, NewBytesPlace

LEMMA SendFramePlace ==
    ASSUME PlaceInv, ConnInv, StreamInv, NEW c \in Conns, NEW f \in Frames[c],
           SendFrame(c, f), handed' = <<>>
    PROVE  PlaceInv'
<1> DEFINE t == FrameBytes(f)
<1>1. /\ c \in plays /\ in' = [in EXCEPT ![c] = in[c] \o t]
      /\ UNCHANGED <<desc, dirty, dropped, nextSize, nextSock, inBuf>>
  BY DEF SendFrame, streamVars
<1>2. WellFramed(t) /\ t # <<>> /\ t[1][1] = "dollar"  BY FrameFramed
<1> HIDE DEF t
<1>3. c \in dropped \/ desc[c].state # "none"  BY <1>1 DEF ConnInv, Good
<1> QED  BY <1>1, <1>2, <1>3, NewBytesPlace

\* c has no descriptor any more, and is not the one that is being read.
LEMMA DescriptorGone ==
    ASSUME PlaceInv, ConnInv, StreamInv, NEW c \in Conns, handed' = <<>>,
           UNCHANGED <<nextSize, nextSock, inBuf>>, nextSock # c,
           desc'[c].state = "none", WellFramed(in'[c]),
           c \in dropped' \/ (c \notin dirty' /\ AllRequests(in'[c])),
           \A d \in Conns \ {c} : /\ in'[d] = in[d] /\ desc'[d] = desc[d]
                                  /\ d \in dirty' <=> d \in dirty
                                  /\ d \in dropped' <=> d \in dropped
    PROVE  PlaceInv'
<1>1. \A d \in Conns \ {c} : Stays(d)  BY DEF Stays, ToRead
<1>2. ToRead(c)' = 0 /\ ~Skips(c)'  BY DEF ToRead, Skips
<1>3. AllRequests(in'[c]) /\ in'[c] # <<>> => in'[c][1][1] = "request"
  <2>1. in'[c] # <<>> => Len(in'[c]) \in Nat /\ Len(in'[c]) # 0
    BY EmptySeq, LenProperties DEF WellFramed
  <2>2. in'[c] # <<>> => 1 \in 1..Len(in'[c])  BY <2>1
  <2> QED  BY <2>2 DEF AllRequests
<1>4. c \in dropped' \/ Clear(c)'  BY <1>2, <1>3 DEF Clear, Expected
<1> QED  BY <1>1, <1>2, <1>4, PlaceStep

\* The last session ends, and with it the stream.
LEMMA StreamEnds ==
    ASSUME PlaceInv, ConnInv, StreamInv, NEW c \in Conns, handed' = <<>>,
           nextSock' = NoConn, inBuf' = <<>>, \A d \in Conns \ {c} : session[d] = "none",
           desc'[c].state = "none", WellFramed(in'[c]),
           c \in dropped' \/ (c \notin dirty' /\ AllRequests(in'[c])),
           \A d \in Conns \ {c} : /\ in'[d] = in[d] /\ desc'[d] = desc[d]
                                  /\ d \in dirty' <=> d \in dirty
                                  /\ d \in dropped' <=> d \in dropped
    PROVE  PlaceInv'
<1>1. ASSUME NEW d \in Conns \ {c}  PROVE Stays(d) /\ ~Skips(d)'
  <2>1. desc[d].state = "none"  BY DEF ConnInv, Good
  <2> QED  BY <2>1 DEF Stays, ToRead, Skips
<1>2. ToRead(c)' = 0 /\ ~Skips(c)'  BY DEF ToRead, Skips
<1>3. AllRequests(in'[c]) /\ in'[c] # <<>> => in'[c][1][1] = "request"
  <2>1. in'[c] # <<>> => Len(in'[c]) \in Nat /\ Len(in'[c]) # 0
    BY EmptySeq, LenProperties DEF WellFramed
  <2>2. in'[c] # <<>> => 1 \in 1..Len(in'[c])  BY <2>1
  <2> QED  BY <2>2 DEF AllRequests
<1>4. c \in dropped' \/ Clear(c)'  BY <1>2, <1>3 DEF Clear, Expected
<1>5. \A d \in Conns : d \in dropped' \/ Clear(d)'
  BY <1>1, <1>4, StaysClear DEF PlaceInv
<1>6. OneSkips' /\ PacketsWhole' /\ ReportRead'
  BY <1>1, <1>2 DEF OneSkips, PacketsWhole, ReportRead
<1> QED  BY <1>5, <1>6 DEF PlaceInv

\* A session leaves the stream, not in the middle of a packet of its own.
LEMMA LeavePlace ==
    ASSUME PlaceInv, ConnInv, StreamInv, NEW c \in Conns, NEW last, LeaveStream(c, last), ~mixed',
           handed' = <<>>, last => \A d \in Conns \ {c} : session[d] = "none",
           WellFramed(in'[c]),
           c \in dropped' \/ (c \notin dirty' /\ AllRequests(in'[c])),
           \A d \in Conns \ {c} : /\ in'[d] = in[d]
                                  /\ d \in dirty' <=> d \in dirty
                                  /\ d \in dropped' <=> d \in dropped
    PROVE  PlaceInv'
<1>1. desc'[c].state = "none" /\ \A d \in Conns \ {c} : desc'[d] = desc[d]
  <2>1. IF desc[c].state = "none" THEN desc' = desc /\ reader' = reader ELSE DeleteDescriptor(c)
    BY LeaveStreamDesc
  <2> QED  BY <2>1 DEF DeleteDescriptor, NoDescriptor, ConnInv, Types
<1>2. CASE last
  <2>1. nextSock' = NoConn /\ inBuf' = <<>>  BY <1>2 DEF LeaveStream
  <2> QED  BY <1>1, <1>2, <2>1, StreamEnds
<1>3. CASE ~last
  <2>1. UNCHANGED <<nextSize, nextSock, inBuf>> /\ nextSock # c  BY <1>3 DEF LeaveStream
  <2> QED  BY <1>1, <2>1, DescriptorGone
<1> QED  BY <1>2, <1>3

LEMMA TimeOutPlace ==
    ASSUME PlaceInv, ConnInv, StreamInv, NEW c \in Conns, TimeOut(c) \/ TimeOutOld(c), ~mixed',
           handed' = <<>>
    PROVE  PlaceInv'
<1>1. Dropped(c) /\ in' = in /\ dirty' = dirty
  BY DEF TimeOut, TimeOutOld
<1>2. PICK last \in BOOLEAN :
        LeaveStream(c, last) /\ (last => \A d \in Conns \ {c} : session[d] = "none")
  BY DEF TimeOut, TimeOutOld, EndSession, LastSession, LastOldSession
<1>3. c \in dropped' \/ (c \notin dirty' /\ AllRequests(in'[c]))
  BY <1>1 DEF Dropped, PlaceInv, Clear
<1>4. /\ WellFramed(in'[c])
      /\ \A d \in Conns \ {c} : /\ in'[d] = in[d]
                                /\ d \in dirty' <=> d \in dirty
                                /\ d \in dropped' <=> d \in dropped
  BY <1>1 DEF Dropped, StreamInv
<1> QED  BY <1>2, <1>3, <1>4, LeavePlace

LEMMA SendFailsPlace ==
    ASSUME PlaceInv, ConnInv, StreamInv, NEW c \in Conns, NEW i \in Interfaces, SendFails(c, i), ~mixed',
           handed' = <<>>
    PROVE  PlaceInv'
<1>1. /\ DeleteDescriptor(c) /\ dropped' = dropped \cup {c} /\ nextSock # c
      /\ UNCHANGED <<in, dirty, nextSize, nextSock, inBuf>>
  BY DEF SendFails
<1>2. desc'[c].state = "none" /\ \A d \in Conns \ {c} : desc'[d] = desc[d]
  BY <1>1 DEF DeleteDescriptor, NoDescriptor, ConnInv, Types
<1>3. WellFramed(in'[c])  BY <1>1 DEF StreamInv
<1>4. c \in dropped'  BY <1>1
<1>5. \A d \in Conns \ {c} : /\ in'[d] = in[d]
                             /\ d \in dirty' <=> d \in dirty
                             /\ d \in dropped' <=> d \in dropped
  BY <1>1
<1> QED  BY <1>1, <1>2, <1>3, <1>4, <1>5, DescriptorGone

\* What clients and the clock do, when it does not mix packets.
LEMMA MeanwhilePlace ==
    ASSUME PlaceInv, ConnInv, StreamInv, NEW c \in Conns, Meanwhile(c), ~mixed'
    PROVE  PlaceInv'
<1>0. handed' = <<>>  BY DEF Meanwhile
<1>1. CASE Connect(c) \/ Leave(c)
  <2>1. UNCHANGED <<in, desc, dirty, dropped, nextSize, nextSock, inBuf>>
    BY <1>1 DEF Connect, Leave, rtspVars, streamVars
  <2> QED  BY <1>0, <2>1, NothingMoves
<1>2. CASE (\E r \in {"setup", "play", "teardown"} : Ask(c, r)) \/ (\E f \in Frames[c] : SendFrame(c, f))
  BY <1>0, <1>2, AskPlace, SendFramePlace
<1>3. CASE \E i \in Interfaces : SendFails(c, i)
  BY <1>0, <1>3, SendFailsPlace
<1>4. CASE TimeOut(c) \/ TimeOutOld(c)
  BY <1>0, <1>4, TimeOutPlace
<1> QED  BY <1>1, <1>2, <1>3, <1>4 DEF Meanwhile

-----------------------------------------------------------------------------
(* The handlers of a connection.                                           *)

\* Between frames c's report is not the one that is being read.
LEMMA NotSource ==
    ASSUME PlaceInv, NEW c \in Conns, desc[c].state # "data" \/ desc[c].chan # "rtcp" \/ ToRead(c) = 0
    PROVE  nextSock # c
BY Sourced

\* A step of c's descriptor, or of its connection, within a frame or between two.
LEMMA QuietStep ==
    ASSUME PlaceInv, StreamInv, NEW c \in Conns, handed' = <<>>,
           UNCHANGED <<nextSize, nextSock, inBuf>>, nextSock # c, desc'[c].state # "data",
           c \in dropped' \/ Clear(c)',
           \A d \in Conns \ {c} : /\ in'[d] = in[d] /\ desc'[d] = desc[d]
                                  /\ d \in dirty' <=> d \in dirty
                                  /\ d \in dropped' <=> d \in dropped
    PROVE  PlaceInv'
<1>1. \A d \in Conns \ {c} : Stays(d)  BY DEF Stays, ToRead
<1>2. ~Skips(c)'  BY DEF Skips
<1> QED  BY <1>1, <1>2, PlaceStep

\* A request is taken and handled, by the connection or by its descriptor.
LEMMA RequestPlace ==
    ASSUME PlaceInv, ConnInv, StreamInv, NEW c \in Conns, in[c] # <<>>, Take(c),
           Byte(c)[1] = "request", RequestByte(c), desc[c].state \in {"none", "dollar"},
           ~mixed', handed' = <<>>
    PROVE  PlaceInv'
<1>1. PICK r \in {"setup", "play", "teardown"} : r = Byte(c)[2]
  BY RequestLast
<1>2. HandleRequest(c, r)
  BY <1>1 DEF RequestByte
<1>3. in'[c] = <<>> /\ WellFramed(in'[c]) /\ \A d \in Conns \ {c} : in'[d] = in[d]
  BY RequestLast, TakeTaken DEF Taken, StreamInv, StreamTypes
<1>4. nextSock # c
  BY NotSource
<1>5. AllRequests(in'[c])
  <2>1. Len(in'[c]) = 0  BY <1>3
  <2> QED  BY <2>1 DEF AllRequests
<1>6. dirty' = dirty \ {c} /\ dropped' \in {dropped, dropped \ {c}}
  BY <1>2 DEF HandleRequest
<1>7. ASSUME desc'[c].state \in {"none", "dollar"}
      PROVE  Clear(c)'
  <2>1. ToRead(c)' = 0  BY <1>7 DEF ToRead
  <2> QED  BY <1>3, <1>5, <1>6, <1>7, <2>1 DEF Clear, Expected
<1>8. CASE Refused(c, r)
  <2>1. UNCHANGED <<desc, nextSize, nextSock, inBuf, dropped>>
    BY <1>2, <1>8 DEF HandleRequest, Refused, streamVars
  <2> QED  BY <1>3, <1>4, <1>6, <1>7, <2>1, QuietStep
<1>9. CASE ~Refused(c, r) /\ r = "play"
  <2>1. StartPlaying(c)
    BY <1>2, <1>9 DEF HandleRequest, Refused
  <2>2. desc'[c].state = "dollar" /\ \A d \in Conns \ {c} : desc'[d] = desc[d]
    BY <2>1, StartPlayingDesc DEF ConnInv, Types
  <2>3. UNCHANGED <<nextSize, nextSock, inBuf>>
    BY <2>1 DEF StartPlaying
  <2> QED  BY <1>3, <1>4, <1>6, <1>7, <2>2, <2>3, QuietStep
<1>10. CASE ~Refused(c, r) /\ r # "play"
  <2>1. LeaveStream(c, LastSession(c))
    BY <1>2, <1>10 DEF HandleRequest, Refused, EndSession
  <2>2. LastSession(c) => \A d \in Conns \ {c} : session[d] = "none"
    BY DEF LastSession
  <2> QED  BY <1>3, <1>5, <1>6, <2>1, <2>2, LeavePlace
<1> QED  BY <1>8, <1>9, <1>10

\* A byte that is not of a request is taken for one: only where the descriptor has been lost.
LEMMA RtspReadPlace ==
    ASSUME PlaceInv, ConnInv, StreamInv, NEW c \in Conns, RtspRead(c), ~mixed', handed' = <<>>
    PROVE  PlaceInv'
<1>1. in[c] # <<>> /\ Take(c) /\ RequestByte(c) /\ desc[c].state = "none"
  BY DEF RtspRead, ConnInv, Good
<1>2. CASE Byte(c)[1] = "request"
  BY <1>1, <1>2, RequestPlace
<1>3. CASE Byte(c)[1] # "request"
  <2>1. /\ Taken(c, 1) /\ 1 \in 1..Len(in[c]) /\ Byte(c) = in[c][1]
    BY <1>1, TakeTaken
  <2>2. c \in dropped
    BY <1>1, <1>3, <2>1 DEF PlaceInv, Clear, AllRequests
  <2>3. /\ dirty' = dirty \cup {c}
        /\ UNCHANGED <<desc, nextSize, nextSock, inBuf, dropped>>
    BY <1>1, <1>3 DEF RequestByte, streamVars
  <2>4. nextSock # c  BY <1>1, NotSource
  <2> QED  BY <1>1, <2>1, <2>2, <2>3, <2>4, QuietStep DEF Taken
<1> QED  BY <1>2, <1>3

\* A connection is closed.
LEMMA ClosedPlace ==
    ASSUME PlaceInv, ConnInv, StreamInv, NEW c \in Conns, CloseConnection(c), handed' = <<>>,
           UNCHANGED <<nextSize, nextSock, inBuf>>, nextSock # c, desc'[c].state = "none",
           \A d \in Conns \ {c} : desc'[d] = desc[d]
    PROVE  PlaceInv'
<1>1. /\ in' = [in EXCEPT ![c] = <<>>] /\ dirty' = dirty \ {c} /\ dropped' = dropped \ {c}
  BY DEF CloseConnection
<1>2. in'[c] = <<>> /\ \A d \in Conns \ {c} : in'[d] = in[d]
  BY <1>1 DEF StreamInv, StreamTypes
<1>3. ToRead(c)' = 0  BY DEF ToRead
<1>4. AllRequests(in'[c])
  <2>1. Len(in'[c]) = 0  BY <1>2
  <2> QED  BY <2>1 DEF AllRequests
<1>5. Clear(c)'  BY <1>1, <1>2, <1>3, <1>4 DEF Clear, Expected
<1> QED  BY <1>1, <1>2, <1>5, QuietStep

LEMMA ErrorPlace ==
    ASSUME PlaceInv, ConnInv, StreamInv, NEW c \in Conns, RtspReadError(c) \/ ReadError(c), handed' = <<>>
    PROVE  PlaceInv'
<1>1. CloseConnection(c) /\ UNCHANGED <<nextSize, nextSock, inBuf>>
  BY DEF RtspReadError, ReadError, streamVars
<1>2. nextSock # c
  <2>1. RtspReadError(c) => desc[c].state = "none"
    BY DEF RtspReadError, ConnInv, Good
  <2>2. ReadError(c) => desc[c].state # "data" \/ desc[c].chan = "rtp"
    BY DEF ReadError, ReadsError
  <2> QED  BY <2>1, <2>2, NotSource
<1>3. desc'[c].state = "none" /\ \A d \in Conns \ {c} : desc'[d] = desc[d]
  BY DEF RtspReadError, ReadError, NoDescriptor, ConnInv, Types, Good
<1> QED  BY <1>1, <1>2, <1>3, ClosedPlace

\* The byte that is taken, and the one behind it.
LEMMA NextByte ==
    ASSUME StreamInv, NEW c \in Conns, in[c] # <<>>, Take(c)
    PROVE  /\ Taken(c, 1) /\ Byte(c) = in[c][1] /\ Byte(c) \in Bytes
           /\ Follows(in[c], 1) /\ Len(in[c]) \in Nat
           /\ 1 < Len(in[c]) <=> in'[c] # <<>>
           /\ in'[c] # <<>> => in'[c][1] = in[c][1 + 1]
           /\ \A d \in Conns \ {c} : in'[d] = in[d]
<1>1. /\ Taken(c, 1) /\ 1 \in 1..Len(in[c]) /\ Len(in[c]) \in Nat
      /\ Byte(c) = in[c][1] /\ Byte(c) \in Bytes
  BY TakeTaken
<1>2. Follows(in[c], 1)  BY FirstByte
<1>3. PICK m \in Nat : m = Len(in'[c]) /\ Len(in[c]) = m + 1
  <2>1. PICK n \in Nat : n = Len(in[c]) /\ 1 <= n  BY <1>1
  <2>2. n - 1 \in Nat /\ Len(in'[c]) = n - 1  BY <2>1, <1>1 DEF Taken
  <2> QED  BY <2>1, <2>2
<1>4. m = 0 <=> in'[c] = <<>>
  BY <1>1, <1>3, EmptySeq DEF Taken
<1>5. m # 0 => 1 \in 1..m /\ 1 < m + 1  OBVIOUS
<1>6. m = 0 => ~(1 < m + 1)  OBVIOUS
<1>7. in'[c] # <<>> => in'[c][1] = in[c][1 + 1]
  BY <1>1, <1>3, <1>4, <1>5 DEF Taken
<1> QED  BY <1>1, <1>2, <1>3, <1>4, <1>5, <1>6, <1>7 DEF Taken

LEMMA AwaitDollarPlace ==
    ASSUME PlaceInv, ConnInv, StreamInv, NEW c \in Conns, AwaitDollar(c), ~mixed', handed' = <<>>
    PROVE  PlaceInv'
<1>1. in[c] # <<>> /\ Take(c) /\ desc[c].state = "dollar"
  BY DEF AwaitDollar, ReadsByte
<1>2. Clear(c) /\ c \notin dropped  BY <1>1, Reading
<1>3. ToRead(c) = 0 /\ nextSock # c  BY <1>1, NotSource DEF ToRead
<1>4. /\ Byte(c) = in[c][1] /\ Byte(c) \in Bytes /\ Follows(in[c], 1)
      /\ 1 < Len(in[c]) <=> in'[c] # <<>>
      /\ in'[c] # <<>> => in'[c][1] = in[c][1 + 1]
      /\ \A d \in Conns \ {c} : in'[d] = in[d]
  BY <1>1, NextByte
<1>5. Byte(c)[1] \in {"dollar", "request"}
  BY <1>1, <1>2, <1>3, <1>4 DEF Clear, Expected
<1>6. CASE Byte(c) = <<"dollar">>
  <2>1. UNCHANGED <<dirty, nextSize, nextSock, inBuf, dropped>>
    BY <1>6 DEF AwaitDollar, streamVars
  <2>2. desc'[c].state = "channel" /\ \A d \in Conns \ {c} : desc'[d] = desc[d]
    BY <1>6 DEF AwaitDollar, ConnInv, Types
  <2>3. in'[c] # <<>> /\ in'[c][1][1] = "channel"
    BY <1>4, <1>6 DEF Follows
  <2>4. ToRead(c)' = 0  BY <2>2 DEF ToRead
  <2>5. Clear(c)'  BY <1>2, <2>1, <2>2, <2>3, <2>4 DEF Clear, Expected
  <2> QED  BY <1>3, <1>4, <2>1, <2>2, <2>5, QuietStep
<1>7. CASE Byte(c) # <<"dollar">>
  <2>1. Byte(c)[1] = "request"  BY <1>4, <1>5, <1>7, ByteFields
  <2>2. RequestByte(c)  BY <1>7 DEF AwaitDollar
  <2> QED  BY <1>1, <2>1, <2>2, RequestPlace
<1> QED  BY <1>6, <1>7

LEMMA AwaitChannelPlace ==
    ASSUME PlaceInv, ConnInv, StreamInv, NEW c \in Conns, AwaitChannel(c), handed' = <<>>
    PROVE  PlaceInv'
<1>1. /\ in[c] # <<>> /\ Take(c) /\ desc[c].state = "channel"
      /\ UNCHANGED <<dirty, nextSize, nextSock, inBuf, dropped>>
  BY DEF AwaitChannel, ReadsByte, streamVars
<1>2. Clear(c) /\ c \notin dropped  BY <1>1, Reading
<1>3. nextSock # c  BY <1>1, NotSource
<1>4. /\ Byte(c) = in[c][1] /\ Byte(c) \in Bytes /\ Follows(in[c], 1)
      /\ 1 < Len(in[c]) <=> in'[c] # <<>>
      /\ in'[c] # <<>> => in'[c][1] = in[c][1 + 1]
      /\ \A d \in Conns \ {c} : in'[d] = in[d]
  BY <1>1, NextByte
<1>5. Byte(c)[1] = "channel" /\ Byte(c)[2] \in Interfaces
  BY <1>1, <1>2, <1>4, ByteFields DEF Clear, Expected
<1>6. desc[c].subs = Interfaces  BY <1>1 DEF ConnInv, Good
<1>7. /\ desc'[c].state = "size" /\ desc'[c].chan \in Interfaces
      /\ \A d \in Conns \ {c} : desc'[d] = desc[d]
  BY <1>5, <1>6 DEF AwaitChannel, ConnInv, Types
<1>8. in'[c] # <<>> /\ in'[c][1][1] = "size"
  BY <1>4, <1>5 DEF Follows
<1>9. ToRead(c)' = 0  BY <1>7 DEF ToRead
<1>10. Clear(c)'  BY <1>1, <1>2, <1>7, <1>8, <1>9 DEF Clear, Expected
<1> QED  BY <1>1, <1>3, <1>4, <1>7, <1>10, QuietStep

LEMMA PacketDonePlace ==
    ASSUME PlaceInv, ConnInv, StreamInv, NEW c \in Conns, PacketDone(c), handed' = <<>>
    PROVE  PlaceInv'
<1>1. /\ desc[c].state = "data" /\ nextSize[desc[c].chan] = 0
      /\ UNCHANGED <<in, dirty, nextSize, nextSock, inBuf, dropped>>
  BY DEF PacketDone
<1>2. Clear(c) /\ c \notin dropped  BY <1>1, Reading
<1>3. ToRead(c) = 0 /\ nextSock # c
  <2>1. ToRead(c) = 0  BY <1>1 DEF ToRead
  <2> QED  BY <2>1, NotSource
<1>4. desc'[c].state = "dollar" /\ \A d \in Conns \ {c} : desc'[d] = desc[d]
  BY DEF PacketDone, ConnInv, Types
<1>5. ToRead(c)' = 0  BY <1>4 DEF ToRead
<1>6. Clear(c)'  BY <1>1, <1>2, <1>3, <1>4, <1>5 DEF Clear, Expected
<1> QED  BY <1>1, <1>3, <1>4, <1>6, QuietStep

\* The size of a frame is read, and no packet of another client is being read on its channel.
LEMMA AwaitSizePlace ==
    ASSUME PlaceInv, ConnInv, StreamInv, NEW c \in Conns, AwaitSize(c), ~mixed', handed' = <<>>
    PROVE  PlaceInv'
<1>1. /\ in[c] # <<>> /\ Take(c) /\ desc[c].state = "size"
      /\ nextSize' = [nextSize EXCEPT ![desc[c].chan] = SizeIn(Byte(c))]
      /\ nextSock' = IF desc[c].chan = "rtcp" THEN c ELSE nextSock
      /\ ~Interrupts(c, desc[c].chan)
      /\ UNCHANGED <<dirty, inBuf, dropped>>
  BY DEF AwaitSize, ReadsByte
<1>2. Clear(c) /\ c \notin dropped  BY <1>1, Reading
<1>3. nextSock # c  BY <1>1, NotSource
<1>4. /\ Byte(c) = in[c][1] /\ Byte(c) \in Bytes /\ Follows(in[c], 1)
      /\ 1 < Len(in[c]) <=> in'[c] # <<>>
      /\ in'[c] # <<>> => in'[c][1] = in[c][1 + 1]
      /\ \A d \in Conns \ {c} : in'[d] = in[d]
  BY <1>1, NextByte
<1>5. /\ desc'[c].state = "data" /\ desc'[c].chan = desc[c].chan
      /\ \A d \in Conns \ {c} : desc'[d] = desc[d]
  BY DEF AwaitSize, ConnInv, Types
<1>6. Byte(c)[1] = "size" /\ desc[c].chan \in Interfaces
  BY <1>1, <1>2, <1>4 DEF Clear, Expected
<1>7. PICK n \in Nat \ {0} : n = in[c][1][2] /\ n = SizeIn(Byte(c))
  BY <1>4, <1>6, ByteFields DEF SizeIn
<1>8. in'[c] # <<>> /\ in'[c][1] = <<"data", 1, n>>
  <2>1. 1 + n <= Len(in[c]) /\ in[c][1 + 1] = <<"data", 1, n>>
    <3>1. 1 \in 1..n  OBVIOUS
    <3> QED  BY <1>4, <1>6, <1>7, <3>1 DEF Follows
  <2>2. 1 < Len(in[c])  BY <1>4, <2>1
  <2> QED  BY <1>4, <2>1, <2>2
<1>9. nextSize'[desc[c].chan] = n /\ \A i \in Interfaces \ {desc[c].chan} : nextSize'[i] = nextSize[i]
  BY <1>1, <1>6, <1>7 DEF StreamInv, StreamTypes
<1>10. ToRead(c)' = n
  BY <1>1, <1>5, <1>9 DEF ToRead
<1>11. in'[c][1][1] = "data" /\ in'[c][1][2] = 1 /\ in'[c][1][3] = n
  BY <1>8
<1>12. n = n - 1 + 1  OBVIOUS
<1>13. Clear(c)'
  <2>1. ToRead(c)' = in'[c][1][3] - in'[c][1][2] + 1  BY <1>10, <1>11, <1>12
  <2>2. Expected(c)'  BY <1>5, <1>6, <1>8, <1>10, <1>11, <2>1 DEF Expected
  <2> QED  BY <1>1, <1>2, <1>5, <2>2 DEF Clear
<1>14. CASE desc[c].chan = "rtp"
  <2>1. \A d \in Conns \ {c} : ~Skips(d)
    BY <1>1, <1>14 DEF Interrupts, Skips
  <2>2. ASSUME NEW d \in Conns \ {c}  PROVE Stays(d)
    <3>1. ToRead(d)' = ToRead(d)
      <4>1. d \in dropped \/ Clear(d)  BY DEF PlaceInv
      <4>2. desc'[d] = desc[d] /\ nextSock' = nextSock /\ nextSize'["rtcp"] = nextSize["rtcp"]
        BY <1>1, <1>5, <1>9, <1>14
      <4>3. desc[d].state = "data" => desc[d].chan = "rtcp"
        <5>1. desc[d].state = "data" => desc[d].chan \in Interfaces
          BY Reading DEF Clear, Expected
        <5> QED  BY <2>1, <5>1 DEF Skips
      <4> QED  BY <4>2, <4>3 DEF ToRead
    <3> QED  BY <1>1, <1>4, <1>5, <3>1 DEF Stays
  <2>3. nextSock' = nextSock  BY <1>1, <1>14
  <2> QED  BY <1>1, <1>3, <1>13, <2>1, <2>2, <2>3, PlaceStep
<1>15. CASE desc[c].chan = "rtcp"
  <2>1. nextSock = NoConn /\ nextSock' = c  BY <1>1, <1>15 DEF Interrupts
  <2>2. inBuf' = <<>>  BY <1>1, <2>1 DEF PlaceInv, ReportRead
  <2>3. ASSUME NEW d \in Conns \ {c}  PROVE Stays(d)
    <3>1. ToRead(d)' = ToRead(d)
      <4>1. desc'[d] = desc[d] /\ nextSock # d /\ nextSock' # d
        BY <1>5, <2>1, NoConnAssumption
      <4>2. desc[d].state = "data" => desc[d].chan \in Interfaces
        BY Reading DEF Clear, Expected
      <4>3. nextSize'["rtp"] = nextSize["rtp"]  BY <1>9, <1>15
      <4> QED  BY <4>1, <4>2, <4>3 DEF ToRead
    <3> QED  BY <1>1, <1>4, <1>5, <3>1 DEF Stays
  <2>4. \A d \in Conns : d \in dropped' \/ Clear(d)'
    BY <1>13, <2>3, StaysClear DEF PlaceInv
  <2>5. OneSkips'
    <3>1. \A d \in Conns \ {c} : Skips(d)' <=> Skips(d)  BY <2>3 DEF Stays, Skips
    <3>2. ~Skips(c)'  BY <1>5, <1>15 DEF Skips
    <3> QED  BY <3>1, <3>2 DEF PlaceInv, OneSkips
  <2>6. PacketsWhole'  BY DEF PacketsWhole
  <2>7. inBuf' = [j \in 1..(in'[c][1][2] - 1) |-> <<c, <<"data", j, in'[c][1][3]>>>>]
    <3>1. 1..(1 - 1) = {}  OBVIOUS
    <3>2. [j \in 1..(1 - 1) |-> <<c, <<"data", j, n>>>>] = <<>>  BY <3>1
    <3> QED  BY <1>11, <2>2, <3>2
  <2>8. ReportRead'
    <3>1. ToRead(c)' # 0 /\ desc'[c].chan = "rtcp" /\ c # NoConn
      BY <1>5, <1>10, <1>15, NoConnAssumption
    <3> QED  BY <2>1, <2>7, <3>1 DEF ReportRead
  <2> QED  BY <2>4, <2>5, <2>6, <2>8 DEF PlaceInv
<1> QED  BY <1>6, <1>14, <1>15

\* The first g bytes of what is left of c's packet are read.
LEMMA DataTaken ==
    ASSUME StreamInv, NEW c \in Conns, Expected(c), ToRead(c) # 0,
           NEW g \in Nat, g <= ToRead(c), Taken(c, g)
    PROVE  \E a \in Nat \ {0}, n \in Nat \ {0} :
             /\ a <= n /\ ToRead(c) = n - a + 1
             /\ in[c][1][2] = a /\ in[c][1][3] = n
             /\ \A k \in 1..g : in[c][k] = <<"data", a + k - 1, n>>
             /\ g < ToRead(c) => in'[c] # <<>> /\ in'[c][1] = <<"data", a + g, n>>
             /\ g = ToRead(c) /\ in'[c] # <<>> => in'[c][1][1] \in {"dollar", "request"}
<1>1. /\ in[c] # <<>> /\ in[c][1][1] = "data"
      /\ ToRead(c) = in[c][1][3] - in[c][1][2] + 1
      /\ WellFramed(in[c]) /\ in[c] \in Seq(Bytes) /\ in'[c] \in Seq(Bytes)
  BY DEF Expected, StreamInv, WellFramed, Taken
<1>2. PICK l \in Nat : l = Len(in[c]) /\ l # 0 /\ Len(in'[c]) = l - g
  BY <1>1, LenProperties, EmptySeq DEF Taken
<1>3. 1 \in 1..Len(in[c]) /\ in[c][1] \in Bytes /\ Follows(in[c], 1)
  BY <1>1, FirstByte
<1>4. PICK a \in Nat \ {0}, n \in Nat \ {0} : a = in[c][1][2] /\ n = in[c][1][3]
  BY <1>1, <1>3, ByteFields
<1>5. /\ a <= n /\ 1 + (n - a) <= l
      /\ \A k \in 0..(n - a) : in[c][1 + k] = <<"data", a + k, n>>
  BY <1>1, <1>2, <1>3, <1>4 DEF Follows
<1>6. ToRead(c) = n - a + 1 /\ g <= n - a + 1  BY <1>1, <1>4
<1>7. ASSUME NEW k \in 1..g  PROVE in[c][k] = <<"data", a + k - 1, n>>
  <2>1. k - 1 \in 0..(n - a) /\ 1 + (k - 1) = k /\ a + (k - 1) = a + k - 1  BY <1>6
  <2>2. in[c][1 + (k - 1)] = <<"data", a + (k - 1), n>>  BY <1>5, <2>1
  <2> QED  BY <2>1, <2>2
<1>8. in'[c] # <<>> => 1 \in 1..Len(in'[c]) /\ g < l
  <2>1. in'[c] # <<>> => l - g # 0  BY <1>1, <1>2, EmptySeq
  <2>2. l - g # 0 => 1 \in 1..(l - g) /\ g < l
    <3>1. g <= l  BY <1>2 DEF Taken
    <3> QED  BY <3>1
  <2> QED  BY <1>2, <2>1, <2>2
<1>9. in'[c] # <<>> => in'[c][1] = in[c][1 + g]
  <2>1. in'[c] # <<>> => in'[c][1] = in[c][g + 1]  BY <1>8 DEF Taken
  <2>2. g + 1 = 1 + g  OBVIOUS
  <2> QED  BY <2>1, <2>2
<1>10. ASSUME g < n - a + 1
       PROVE  in'[c] # <<>> /\ in'[c][1] = <<"data", a + g, n>>
  <2>1. l - g # 0 /\ g \in 0..(n - a)  BY <1>5, <1>10
  <2>2. in'[c] # <<>>  BY <1>2, <2>1, EmptySeq
  <2> QED  BY <1>5, <1>9, <2>1, <2>2
<1>11. ASSUME g = n - a + 1, in'[c] # <<>>
       PROVE  in'[c][1][1] \in {"dollar", "request"}
  <2>1. n - a \in 0..(n - a) /\ a + (n - a) = n /\ 1 + (n - a) = g  BY <1>5, <1>11
  <2>2. in[c][g] = <<"data", n, n>>
    <3>1. in[c][1 + (n - a)] = <<"data", a + (n - a), n>>  BY <1>5, <2>1
    <3> QED  BY <2>1, <3>1
  <2>3. g \in 1..l /\ g < l  BY <1>5, <1>8, <1>11
  <2>4. Follows(in[c], g)  BY <1>1, <1>2, <2>3 DEF WellFramed
  <2>5. in[c][g][1] = "data" /\ in[c][g][2] = in[c][g][3] /\ g < Len(in[c])
    BY <1>2, <2>2, <2>3
  <2>6. in[c][g + 1][1] \in {"dollar", "request"}  BY <2>4, <2>5 DEF Follows
  <2>7. g + 1 = 1 + g  OBVIOUS
  <2> QED  BY <1>9, <1>11, <2>6, <2>7
<1> QED  BY <1>4, <1>5, <1>6, <1>7, <1>10, <1>11

\* A part of the packet is read, or all of it, and what comes next is what is waited for.
LEMMA DataClear ==
    ASSUME StreamInv, NEW c \in Conns, Clear(c), ToRead(c) # 0,
           NEW g \in Nat, g <= ToRead(c), Taken(c, g),
           UNCHANGED <<desc, dirty>>, ToRead(c)' = ToRead(c) - g
    PROVE  Clear(c)'
<1>1. Expected(c) /\ c \notin dirty' /\ desc[c].state = "data" /\ desc[c].chan \in Interfaces
  <2>1. Expected(c) /\ desc[c].state = "data"  BY DEF Clear, ToRead
  <2> QED  BY <2>1 DEF Clear, Expected
<1>2. PICK a \in Nat \ {0}, n \in Nat \ {0} :
         /\ a <= n /\ ToRead(c) = n - a + 1
         /\ g < ToRead(c) => in'[c] # <<>> /\ in'[c][1] = <<"data", a + g, n>>
         /\ g = ToRead(c) /\ in'[c] # <<>> => in'[c][1][1] \in {"dollar", "request"}
  <2>1. PICK a \in Nat \ {0}, n \in Nat \ {0} :
             /\ a <= n /\ ToRead(c) = n - a + 1
             /\ in[c][1][2] = a /\ in[c][1][3] = n
             /\ \A k \in 1..g : in[c][k] = <<"data", a + k - 1, n>>
             /\ g < ToRead(c) => in'[c] # <<>> /\ in'[c][1] = <<"data", a + g, n>>
             /\ g = ToRead(c) /\ in'[c] # <<>> => in'[c][1][1] \in {"dollar", "request"}
    BY <1>1, DataTaken
  <2> QED  BY <2>1
<1>3. PICK l \in Nat : l = ToRead(c)' /\ l = n - a + 1 - g  BY <1>2
<1>4. desc'[c].state = "data" /\ desc'[c].chan \in Interfaces  BY <1>1
<1>5. CASE g < ToRead(c)
  <2>1. l = n - (a + g) + 1 /\ l # 0  BY <1>2, <1>3, <1>5
  <2>2. /\ in'[c] # <<>> /\ in'[c][1][1] = "data"
        /\ in'[c][1][2] = a + g /\ in'[c][1][3] = n
    BY <1>2, <1>5
  <2>3. ToRead(c)' = in'[c][1][3] - in'[c][1][2] + 1 /\ ToRead(c)' # 0  BY <1>3, <2>1, <2>2
  <2> QED  BY <1>1, <1>4, <2>2, <2>3 DEF Clear, Expected
<1>6. CASE g = ToRead(c)
  <2>1. l = 0  BY <1>2, <1>3, <1>6
  <2>2. ToRead(c)' = 0 /\ (in'[c] # <<>> => in'[c][1][1] \in {"dollar", "request"})
    BY <1>2, <1>3, <1>6, <2>1
  <2> QED  BY <1>1, <1>4, <2>2 DEF Clear, Expected
<1>7. g < ToRead(c) \/ g = ToRead(c)  BY <1>2
<1> QED  BY <1>5, <1>6, <1>7

\* A byte of an RTP packet is skipped.
LEMMA SkipDataPlace ==
    ASSUME PlaceInv, ConnInv, StreamInv, NEW c \in Conns, SkipData(c), handed' = <<>>
    PROVE  PlaceInv'
<1>1. /\ in[c] # <<>> /\ Take(c) /\ desc[c].state = "data" /\ desc[c].chan = "rtp"
      /\ nextSize["rtp"] > 0 /\ nextSize' = [nextSize EXCEPT !["rtp"] = @ - 1]
      /\ UNCHANGED <<dirty, desc, nextSock, inBuf, dropped>>
  BY DEF SkipData, ReadsByte
<1>2. Clear(c) /\ c \notin dropped  BY <1>1, Reading
<1>3. nextSock # c  BY <1>1, NotSource
<1>4. Taken(c, 1)  BY <1>1, TakeTaken
<1>5. PICK m \in Nat : m = nextSize["rtp"] /\ m > 0  BY <1>1 DEF StreamInv, StreamTypes
<1>6. nextSize'["rtp"] = m - 1 /\ nextSize'["rtcp"] = nextSize["rtcp"]
  BY <1>1, <1>5 DEF StreamInv, StreamTypes
<1>7. ToRead(c) = m /\ ToRead(c)' = m - 1  BY <1>1, <1>5, <1>6 DEF ToRead
<1>8. ToRead(c) # 0 /\ 1 <= ToRead(c) /\ ToRead(c)' = ToRead(c) - 1  BY <1>5, <1>7
<1>9. Clear(c)'
  <2>1. UNCHANGED <<desc, dirty>> /\ 1 \in Nat  BY <1>1
  <2> QED  BY <1>2, <1>4, <1>8, <2>1, DataClear
<1>10. Skips(c)' => Skips(c)  BY <1>1 DEF Skips
<1>11. ASSUME NEW d \in Conns \ {c}  PROVE Stays(d)
  <2>1. ~Skips(d)  BY <1>1 DEF PlaceInv, OneSkips, Skips
  <2>2. desc[d].state = "data" => desc[d].chan = "rtcp"
    <3>1. desc[d].state = "data" => desc[d].chan \in Interfaces
      BY Reading DEF Clear, Expected
    <3> QED  BY <2>1, <3>1 DEF Skips
  <2>3. ToRead(d)' = ToRead(d)  BY <1>1, <1>6, <2>2 DEF ToRead
  <2> QED  BY <1>1, <1>4, <2>3 DEF Stays, Taken
<1> QED  BY <1>1, <1>3, <1>9, <1>10, <1>11, PlaceStep

-----------------------------------------------------------------------------
(* The reading of a report.                                                *)

\* Without a client to read, there is nothing.
LEMMA NoReport ==
    ASSUME PlaceInv, StreamInv, NEW c \in Conns, NEW n \in Reported, nextSock = NoConn,
           IncomingReport(n), UNCHANGED desc
    PROVE  PlaceInv'
<1>1. /\ MayGet(n) /\ in' = in /\ nextSize' = [nextSize EXCEPT !["rtcp"] = Remaining(n)]
      /\ nextSock' = NoConn
      /\ inBuf' = (IF Outcome(n) = "part" THEN Filled(n) ELSE <<>>)
      /\ handed' = (IF Outcome(n) = "packet" THEN Filled(n) ELSE <<>>)
      /\ UNCHANGED <<dirty, dropped>>
  BY DEF IncomingReport, Source
<1>2. n = 0  BY <1>1, MayGetFacts
<1>3. inBuf = <<>>  BY DEF PlaceInv, ReportRead
<1>4. Filled(n) = <<>>
  <2>1. Filled(n) \in Seq(Conns \X Bytes) /\ Len(Filled(n)) = Len(inBuf) + n
    BY <1>1, FilledFacts
  <2>2. Len(inBuf) = 0  BY <1>3
  <2>3. Len(Filled(n)) = 0  BY <1>2, <2>1, <2>2
  <2> QED  BY <2>1, <2>3, EmptySeq
<1>5. nextSize' = nextSize
  <2>1. nextSize["rtcp"] - 0 = nextSize["rtcp"]  BY DEF StreamInv, StreamTypes
  <2>2. Remaining(n) = nextSize["rtcp"]  BY <1>2, <2>1 DEF Remaining
  <2> QED  BY <1>1, <2>2 DEF StreamInv, StreamTypes
<1>6. inBuf' = inBuf /\ handed' = <<>> /\ nextSock' = nextSock  BY <1>1, <1>3, <1>4
<1> QED  BY <1>1, <1>5, <1>6, NothingMoves

\* What is in the buffer with it: the packet from its beginning to the byte that is read last.
LEMMA ReportFilled ==
    ASSUME StreamInv, NEW c \in Conns, nextSock = c, NEW g \in Reported, MayGet(g),
           NEW a \in Nat \ {0}, NEW n \in Nat \ {0},
           inBuf = [j \in 1..(a - 1) |-> <<c, <<"data", j, n>>>>],
           \A k \in 1..g : in[c][k] = <<"data", a + k - 1, n>>
    PROVE  /\ Len(inBuf) = a - 1
           /\ Filled(g) = [j \in 1..(a + g - 1) |-> <<c, <<"data", j, n>>>>]
<1>1. PICK p \in Nat : p = a - 1  OBVIOUS
<1>2. Len(inBuf) = p
  <2>1. DOMAIN inBuf = 1..p  BY <1>1
  <2> QED  BY <1>1, <2>1, LenProperties DEF StreamInv, StreamTypes
<1>3. g \in Nat  BY MayGetFacts
<1>4. /\ Filled(g) \in Seq(Conns \X Bytes) /\ Len(Filled(g)) = p + g
      /\ \A i \in 1..(p + g) :
           Filled(g)[i] = IF i <= p THEN inBuf[i] ELSE <<c, in[c][i - p]>>
  BY <1>2, FilledFacts
<1>5. ASSUME NEW i \in 1..(p + g)  PROVE Filled(g)[i] = <<c, <<"data", i, n>>>>
  <2>1. CASE i <= p
    <3>1. i \in 1..p  BY <2>1
    <3> QED  BY <1>1, <1>4, <2>1, <3>1
  <2>2. CASE ~(i <= p)
    <3>1. i - p \in 1..g /\ a + (i - p) - 1 = i  BY <1>1, <1>3, <2>2
    <3>2. in[c][i - p] = <<"data", a + (i - p) - 1, n>>  BY <3>1
    <3> QED  BY <1>4, <2>2, <3>1, <3>2
  <2> QED  BY <2>1, <2>2
<1>6. Filled(g) \in [1..(p + g) -> Conns \X Bytes]  BY <1>4, LenProperties
<1>7. Filled(g) = [j \in 1..(p + g) |-> <<c, <<"data", j, n>>>>]  BY <1>5, <1>6
<1>8. p + g = a + g - 1  BY <1>1, <1>3
<1> QED  BY <1>1, <1>2, <1>7, <1>8

\* A report of c is read, in full, in part or until reading fails, whoever calls the handler.
LEMMA ReportPlace ==
    ASSUME PlaceInv, ConnInv, StreamInv, NEW c \in Conns, NEW g \in Reported, nextSock = c,
           IncomingReport(g), UNCHANGED desc
    PROVE  PlaceInv'
<1>1. /\ MayGet(g) /\ in' = [in EXCEPT ![c] = Left(g)]
      /\ nextSize' = [nextSize EXCEPT !["rtcp"] = Remaining(g)]
      /\ nextSock' = (IF Outcome(g) = "part" THEN c ELSE NoConn)
      /\ inBuf' = (IF Outcome(g) = "part" THEN Filled(g) ELSE <<>>)
      /\ handed' = (IF Outcome(g) = "packet" THEN Filled(g) ELSE <<>>)
      /\ UNCHANGED <<dirty, dropped>>
  BY NoConnAssumption DEF IncomingReport, Source
<1>2. /\ ToRead(c) # 0 /\ desc[c].state = "data" /\ desc[c].chan = "rtcp"
      /\ ToRead(c) = nextSize["rtcp"] /\ c # NoConn
      /\ inBuf = [j \in 1..(in[c][1][2] - 1) |-> <<c, <<"data", j, in[c][1][3]>>>>]
  BY Sourced, NoConnAssumption
<1>3. Clear(c) /\ Expected(c) /\ c \notin dropped /\ c \notin dropped'
  <2>1. Clear(c) /\ c \notin dropped  BY <1>2, Reading
  <2> QED  BY <1>1, <2>1 DEF Clear
<1>4. PICK m \in Nat : m = nextSize["rtcp"] /\ m # 0  BY <1>2 DEF StreamInv, StreamTypes
<1>5. g \in Nat /\ g <= m /\ g <= Len(in[c])  BY <1>1, <1>2, <1>4, MayGetFacts
<1>6. Remaining(g) = m - g /\ m - g \in Nat  BY <1>4, <1>5 DEF Remaining
<1>7. nextSize'["rtcp"] = m - g /\ nextSize'["rtp"] = nextSize["rtp"]
  BY <1>1, <1>6 DEF StreamInv, StreamTypes
<1>8. ASSUME NEW d \in Conns \ {c}  PROVE Stays(d) /\ (Skips(d)' <=> Skips(d))
  <2>1. nextSock # d /\ nextSock' # d  BY <1>1, NoConnAssumption
  <2>2. desc[d].state = "data" => desc[d].chan \in Interfaces
    BY Reading DEF Clear, Expected
  <2>3. ToRead(d)' = ToRead(d)  BY <1>7, <2>1, <2>2 DEF ToRead
  <2>4. in'[d] = in[d]  BY <1>1 DEF StreamInv, StreamTypes
  <2> QED  BY <1>1, <2>3, <2>4 DEF Stays, Skips
<1>9. OneSkips'
  <2>1. ~Skips(c)'  BY <1>2 DEF Skips
  <2> QED  BY <1>8, <2>1 DEF PlaceInv, OneSkips
<1>10. ASSUME c \in dropped' \/ Clear(c)'
       PROVE  \A d \in Conns : d \in dropped' \/ Clear(d)'
  BY <1>8, <1>10, StaysClear DEF PlaceInv
<1>11. CASE Outcome(g) = "error"
  <2>1. in'[c] = <<>>  BY <1>1, <1>11 DEF Left, StreamInv, StreamTypes
  <2>2. nextSock' = NoConn /\ inBuf' = <<>> /\ handed' = <<>>  BY <1>1, <1>11
  <2>3. ToRead(c)' = 0  BY <1>2, <2>2 DEF ToRead
  <2>4. Clear(c)'
    <3>1. c \notin dirty' /\ desc'[c].state = "data" /\ desc'[c].chan = "rtcp"
      BY <1>1, <1>2, <1>3 DEF Clear
    <3> QED  BY <2>1, <2>3, <3>1 DEF Clear, Expected
  <2>5. ReportRead' /\ PacketsWhole'  BY <2>2 DEF ReportRead, PacketsWhole
  <2> QED  BY <1>9, <1>10, <2>4, <2>5 DEF PlaceInv
<1>12. ASSUME Outcome(g) # "error"
       PROVE  PlaceInv'
  <2>1. Taken(c, g)
    <3>1. in' = [in EXCEPT ![c] = SubSeq(in[c], g + 1, Len(in[c]))]
      BY <1>1, <1>12 DEF Left, Source
    <3> QED  BY <1>5, <3>1, ReadTaken
  <2>2. PICK a \in Nat \ {0}, n \in Nat \ {0} :
         /\ a <= n /\ ToRead(c) = n - a + 1
         /\ in[c][1][2] = a /\ in[c][1][3] = n
         /\ \A k \in 1..g : in[c][k] = <<"data", a + k - 1, n>>
         /\ g < ToRead(c) => in'[c] # <<>> /\ in'[c][1] = <<"data", a + g, n>>
         /\ g = ToRead(c) /\ in'[c] # <<>> => in'[c][1][1] \in {"dollar", "request"}
    <3>1. g <= ToRead(c) /\ ToRead(c) # 0  BY <1>2, <1>4, <1>5
    <3> QED  BY <1>3, <1>5, <2>1, <3>1, DataTaken
  <2>3. Len(inBuf) = a - 1 /\ Filled(g) = [j \in 1..(a + g - 1) |-> <<c, <<"data", j, n>>>>]
    <3>1. inBuf = [j \in 1..(a - 1) |-> <<c, <<"data", j, n>>>>]  BY <1>2, <2>2
    <3> QED  BY <1>1, <2>2, <3>1, ReportFilled
  <2>4. PICK b \in Nat : b = BufferSize  BY BoundsAssumption
  <2>10. PICK w \in Int : w = Wanted /\ w <= m /\ w <= b - (a - 1)
    BY <1>4, <2>3, <2>4 DEF Wanted, Least
  <2>5. \/ Outcome(g) = "packet" /\ g = m /\ a + g - 1 <= b
        \/ Outcome(g) = "part" /\ g < m
    <3>1. CASE a - 1 >= b
      <4>1. g = 0  BY <1>1, <2>3, <2>4, <3>1, MayGetFacts
      <4>2. g < m  BY <1>4, <4>1
      <4>3. Remaining(g) # 0 /\ ~(g < w)  BY <1>6, <2>10, <3>1, <4>1, <4>2
      <4>4. Len(inBuf) >= BufferSize  BY <2>3, <2>4, <3>1
      <4>5. Outcome(g) = "part"  BY <1>2, <2>10, <4>3, <4>4 DEF Outcome, Source
      <4> QED  BY <4>2, <4>5
    <3>2. CASE a - 1 < b
      <4>1. a - 1 + g <= b  BY <1>1, <2>3, <2>4, <3>2, MayGetFacts
      <4>2. a + g - 1 <= b  BY <1>5, <4>1
      <4>3. ~(Len(inBuf) >= BufferSize)  BY <2>3, <2>4, <3>2
      <4>4. CASE g = m
        <5>1. Remaining(g) = 0 /\ ~(g < w)  BY <1>6, <2>10, <4>4
        <5>2. Outcome(g) = "packet"  BY <2>10, <4>3, <5>1 DEF Outcome
        <5> QED  BY <4>2, <4>4, <5>2
      <4>5. CASE g # m
        <5>1. Remaining(g) # 0  BY <1>5, <1>6, <4>5
        <5>2. Outcome(g) = "part"  BY <1>2, <1>12, <4>3, <5>1 DEF Outcome, Source
        <5>3. g < m  BY <1>5, <4>5
        <5> QED  BY <5>2, <5>3
      <4> QED  BY <4>4, <4>5
    <3> QED  BY <2>4, <3>1, <3>2
  <2>6. ToRead(c)' = m - g
    <3>1. CASE Outcome(g) = "part"
      BY <1>1, <1>2, <1>7, <3>1 DEF ToRead
    <3>2. CASE Outcome(g) = "packet"
      <4>1. nextSock' # c /\ g = m  BY <1>1, <1>2, <2>5, <3>2
      <4>2. ToRead(c)' = 0  BY <1>2, <4>1 DEF ToRead
      <4>3. m - g = 0  BY <1>5, <4>1
      <4> QED  BY <4>2, <4>3
    <3> QED  BY <2>5, <3>1, <3>2
  <2>7. Clear(c)'
    <3>1. ToRead(c)' = ToRead(c) - g /\ g <= ToRead(c)  BY <1>2, <1>4, <1>5, <2>6
    <3>2. UNCHANGED <<desc, dirty>>  BY <1>1
    <3> QED  BY <1>2, <1>3, <1>5, <2>1, <3>1, <3>2, DataClear
  <2>8. CASE Outcome(g) = "part"
    <3>1. g < m /\ nextSock' = c /\ inBuf' = Filled(g) /\ handed' = <<>>
      BY <1>1, <2>5, <2>8
    <3>2. ToRead(c)' # 0  BY <1>5, <2>6, <3>1
    <3>3. in'[c][1][2] = a + g /\ in'[c][1][3] = n  BY <1>2, <1>4, <2>2, <3>1
    <3>4. inBuf' = [j \in 1..(in'[c][1][2] - 1) |-> <<c, <<"data", j, in'[c][1][3]>>>>]
      <4>1. a + g - 1 = (a + g) - 1  BY <1>5
      <4> QED  BY <2>3, <3>1, <3>3, <4>1
    <3>5. ReportRead'  BY <1>2, <3>1, <3>2, <3>4 DEF ReportRead
    <3>6. PacketsWhole'  BY <3>1 DEF PacketsWhole
    <3> QED  BY <1>9, <1>10, <2>7, <3>5, <3>6 DEF PlaceInv
  <2>9. CASE Outcome(g) = "packet"
    <3>1. nextSock' = NoConn /\ inBuf' = <<>> /\ handed' = Filled(g) /\ g = m /\ a + g - 1 <= b
      BY <1>1, <2>5, <2>9
    <3>2. m = n - a + 1  BY <1>2, <1>4, <2>2
    <3>3. a + g - 1 = n /\ n \in 1..BufferSize  BY <2>4, <3>1, <3>2
    <3>4. handed' = [k \in 1..n |-> <<c, <<"data", k, n>>>>]  BY <2>3, <3>1, <3>3
    <3>5. PacketsWhole'  BY <3>3, <3>4 DEF PacketsWhole
    <3>6. ReportRead'  BY <3>1 DEF ReportRead
    <3> QED  BY <1>9, <1>10, <2>7, <3>5, <3>6 DEF PlaceInv
  <2> QED  BY <2>5, <2>8, <2>9
<1> QED  BY <1>11, <1>12

-----------------------------------------------------------------------------
(* Every step.                                                             *)

LEMMA HandlerPlace ==
    ASSUME PlaceInv, ConnInv, StreamInv, NEW c \in Conns, ~mixed', handed' = <<>>,
           \/ RtspRead(c) \/ RtspReadError(c) \/ ReadError(c) \/ AwaitDollar(c) \/ AwaitDollarFull(c)
           \/ AwaitChannel(c) \/ AwaitSize(c) \/ PacketDone(c) \/ SkipData(c)
    PROVE  PlaceInv'
<1>1. CASE RtspRead(c)
  BY <1>1, RtspReadPlace
<1>2. CASE RtspReadError(c) \/ ReadError(c)
  BY <1>2, ErrorPlace
<1>3. CASE AwaitDollar(c)
  BY <1>3, AwaitDollarPlace
<1>4. CASE AwaitDollarFull(c)
  <2>1. UNCHANGED <<in, desc, dirty, dropped, nextSize, nextSock, inBuf>>
    BY <1>4 DEF AwaitDollarFull, streamVars
  <2> QED  BY <2>1, NothingMoves
<1>5. CASE AwaitChannel(c)
  BY <1>5, AwaitChannelPlace
<1>6. CASE AwaitSize(c)
  BY <1>6, AwaitSizePlace
<1>7. CASE PacketDone(c)
  BY <1>7, PacketDonePlace
<1>8. CASE SkipData(c)
  BY <1>8, SkipDataPlace
<1> QED  BY <1>1, <1>2, <1>3, <1>4, <1>5, <1>6, <1>7, <1>8

\* Packets that have been mixed stay so.
LEMMA MixedStays ==
    ASSUME StreamInv, [Next]_vars, mixed
    PROVE  mixed'
<1>1. ASSUME NEW c \in Conns, NEW last, LeaveStream(c, last)
      PROVE  mixed'
  BY <1>1 DEF LeaveStream
<1>2. ASSUME NEW c \in Conns, NEW r \in {"setup", "play", "teardown"}, HandleRequest(c, r)
      PROVE  mixed'
  <2>1. CASE Refused(c, r)
    BY <1>2, <2>1 DEF HandleRequest, Refused
  <2>2. CASE ~Refused(c, r)
    <3>1. CASE r = "play"
      <4>1. StartPlaying(c)  BY <1>2, <2>2, <3>1 DEF HandleRequest, Refused
      <4> QED  BY <4>1 DEF StartPlaying
    <3>2. CASE r # "play"
      <4>1. LeaveStream(c, LastSession(c))
        BY <1>2, <2>2, <3>2 DEF HandleRequest, Refused, EndSession
      <4> QED  BY <1>1, <4>1
    <3> QED  BY <3>1, <3>2
  <2> QED  BY <2>1, <2>2
<1>3. ASSUME NEW c \in Conns, in[c] # <<>>, Take(c), RequestByte(c)
      PROVE  mixed'
  <2>1. CASE Byte(c)[1] = "request"
    <3>1. PICK r \in {"setup", "play", "teardown"} : r = Byte(c)[2]  BY <1>3, <2>1, RequestLast
    <3> QED  BY <1>2, <1>3, <2>1, <3>1 DEF RequestByte
  <2>2. CASE Byte(c)[1] # "request"
    BY <1>3, <2>2 DEF RequestByte
  <2> QED  BY <2>1, <2>2
<1>4. ASSUME NEW c \in Conns, RtspRead(c) \/ AwaitDollar(c)
      PROVE  mixed'
  BY <1>3, <1>4 DEF RtspRead, AwaitDollar, ReadsByte
<1>5. ASSUME NEW c \in Conns,
             \/ RtspReadError(c) \/ ReadError(c) \/ AwaitDollarFull(c) \/ AwaitChannel(c)
             \/ AwaitSize(c) \/ PacketDone(c) \/ SkipData(c)
      PROVE  mixed'
  BY <1>5 DEF RtspReadError, ReadError, AwaitDollarFull, AwaitChannel, AwaitSize, PacketDone, SkipData
<1>6. ASSUME NEW n \in Reported, IncomingReport(n)
      PROVE  mixed'
  BY <1>6 DEF IncomingReport
<1>7. ASSUME NEW c \in Conns, TimeOut(c) \/ TimeOutOld(c)
      PROVE  mixed'
  BY <1>1, <1>7 DEF TimeOut, TimeOutOld, EndSession
<1>8. ASSUME NEW c \in Conns, Meanwhile(c)
      PROVE  mixed'
  BY <1>7, <1>8 DEF Meanwhile, Connect, Leave, Ask, SendFrame, SendFails
<1>9. CASE UNCHANGED vars
  BY <1>9 DEF vars
<1>10. ASSUME NEW c \in Conns, Handle(c) \/ \E n \in Reported : ReadReport(c, n)
       PROVE  mixed'
  BY <1>4, <1>5, <1>6, <1>10 DEF Handle, ReadReport
<1> QED  BY <1>6, <1>8, <1>9, <1>10 DEF Next, DatagramWaits

LEMMA FrameStep ==
    ASSUME FrameInv, ConnInv, StreamInv, [Next]_vars
    PROVE  FrameInv'
<1>1. SUFFICES ASSUME ~mixed', PlaceInv
               PROVE  PlaceInv'
  BY MixedStays DEF FrameInv
<1>2. ASSUME NEW c \in Conns, Meanwhile(c)
      PROVE  PlaceInv'
  BY <1>1, <1>2, MeanwhilePlace
<1>3. ASSUME NEW c \in Conns, NEW n \in Reported, IncomingReport(n), UNCHANGED desc
      PROVE  PlaceInv'
  <2>1. CASE nextSock = NoConn
    BY <1>1, <1>3, <2>1, NoReport
  <2>2. CASE nextSock # NoConn
    <3>1. PICK d \in Conns : nextSock = d  BY <2>2 DEF StreamInv, StreamTypes
    <3> QED  BY <1>1, <1>3, <3>1, ReportPlace
  <2> QED  BY <2>1, <2>2
<1>4. ASSUME NEW c \in Conns, Handle(c) \/ \E n \in Reported : ReadReport(c, n)
      PROVE  PlaceInv'
  BY <1>1, <1>3, <1>4, HandlerPlace DEF Handle, ReadReport
<1>5. ASSUME NEW n \in Reported, DatagramWaits(n)
      PROVE  PlaceInv'
  BY <1>3, <1>5 DEF DatagramWaits, StreamInv, StreamTypes
<1>6. CASE UNCHANGED vars
  <2>1. /\ UNCHANGED <<in, desc, dirty, dropped, nextSize, nextSock, inBuf, handed>>
        /\ \A d \in Conns : Stays(d)
    BY <1>6 DEF vars, streamVars, Stays, ToRead
  <2>2. \A d \in Conns : d \in dropped' \/ Clear(d)'
    BY <1>1, <2>1, StaysClear DEF PlaceInv
  <2>3. ReportRead' /\ OneSkips' /\ PacketsWhole'
    BY <1>1, <2>1 DEF PlaceInv, ReportRead, ToRead, OneSkips, Skips, PacketsWhole
  <2> QED  BY <2>2, <2>3 DEF PlaceInv
<1> QED  BY <1>2, <1>4, <1>5, <1>6 DEF Next

LEMMA FramesFirst ==
    ASSUME Init
    PROVE  FrameInv
<1>1. \A c \in Conns : /\ in[c] = <<>> /\ desc[c].state = "none" /\ ToRead(c) = 0 /\ c \notin dirty
                       /\ ~Skips(c)
  BY DEF Init, NoDescriptor, ToRead, Skips
<1>2. \A i \in 1..Len(<<>>) : FALSE
  <2>1. Len(<<>>) = 0  OBVIOUS
  <2> QED  BY <2>1
<1>3. \A c \in Conns : Clear(c)  BY <1>1, <1>2 DEF Clear, Expected, AllRequests
<1>4. ReportRead /\ OneSkips /\ PacketsWhole
  BY <1>1 DEF Init, ReportRead, OneSkips, PacketsWhole
<1> QED  BY <1>3, <1>4 DEF FrameInv, PlaceInv

LEMMA FramesRight == Spec => [](FrameInv /\ ConnInv /\ StreamInv)
<1>1. Init => FrameInv /\ ConnInv /\ StreamInv
  BY ConnFirst, FramesFirst
<1>2. FrameInv /\ ConnInv /\ StreamInv /\ [Next]_vars => FrameInv' /\ ConnInv' /\ StreamInv'
  BY ConnStep, FrameStep
<1> QED  BY <1>1, <1>2, PTL DEF Spec

\* Nothing of a frame is taken for a request, unless a socket has lost its descriptor or an
\* interface its place.
THEOREM FramesKept == Spec => []FramingKept
<1>1. FrameInv /\ ConnInv /\ StreamInv => FramingKept
  BY DEF FrameInv, PlaceInv, Clear, FramingKept
<1> QED  BY <1>1, FramesRight, PTL

\* Each report that is handed on is one packet of one client, unless packets have been mixed.
THEOREM WholePackets == Spec => []WholeUnlessMixed
<1>1. FrameInv /\ ConnInv /\ StreamInv => WholeUnlessMixed
  BY DEF FrameInv, PlaceInv, WholeUnlessMixed
<1> QED  BY <1>1, FramesRight, PTL
=============================================================================
