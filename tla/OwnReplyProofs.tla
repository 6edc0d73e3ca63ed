---------------------------- MODULE OwnReplyProofs ----------------------------
(***************************************************************************)
(* OwnReply, for any number of descriptors, clients, functions and calls,  *)
(* with the inductive invariant ClientsInStep on top of ServerInv: the     *)
(* readers, callbacks and partial results of a client, the tokens on its   *)
(* connection in both directions and the functions that the server has     *)
(* stored for it tell of the same calls in the same order.                 *)
(***************************************************************************)
EXTENDS NetReplProofs

-----------------------------------------------------------------------------
(* A client and its connection.                                            *)

(* What the server and other clients do to a connection leaves its client  *)
(* in step: they accept it or close it, but what is left to read in either *)
(* direction stays, and what is stored for it is only added to.            *)
LEMMA InStepKept ==
  ASSUME NEW s \in ClientStates, NEW k, NEW cn \in Connections, NEW live \in BOOLEAN,
         NEW D, NEW calls \in Nat, InStep(s, k, cn, live, D, calls),
         NEW cn2 \in Connections, NEW live2 \in BOOLEAN, NEW D2 \in SUBSET Eids, NEW calls2 \in Nat,
         live2 => live, calls <= calls2, cn2.down = cn.down,
         cn2.server = "queued" => cn.server = "queued",
         cn.server # "queued" => D \subseteq D2,
         live2 => Rest(cn2) = Rest(cn)
  PROVE  InStep(s, k, cn2, live2, D2, calls2)
<1>1. ASSUME s.phase \in {"define", "waiting"}
      PROVE  Defines(s, cn2, live2, D2)
  <2>1. Defines(s, cn, live, D)
    BY <1>1 DEF InStep
  <2>2. \A e \in Eids : e < s.def => e \in D2
    <3>1. CASE cn.server = "queued"
      <4>1. s.def = 1 /\ \A e \in Eids : ~(e < 1)
        BY <2>1, <3>1, EidAssumption DEF Defines
      <4> QED
        BY <4>1
    <3>2. CASE cn.server # "queued"
      BY <2>1, <3>2 DEF Defines
    <3> QED
      BY <3>1, <3>2
  <2>3. s.def \in D /\ cn.down # <<>> => s.def \in D2
    BY <2>1 DEF Defines
  <2> QED
    BY <2>1, <2>2, <2>3 DEF Defines
<1>2. ASSUME s.phase = "ready"
      PROVE  cn2.server # "queued" /\ D2 = Eids /\ Answers(s, k, cn2, live2, calls2)
  <2>1. cn.server # "queued" /\ D = Eids /\ Answers(s, k, cn, live, calls)
    BY <1>2 DEF InStep
  <2>2. cn2.server # "queued" /\ D2 = Eids
    BY <2>1
  <2>3. live2 => cn2.up = cn.up
    BY <2>1, <2>2 DEF Rest
  <2>4. PICK N \in [1 .. Len(s.asyncReaders) -> 1 .. calls],
             end \in [0 .. Len(s.asyncReaders) -> Nat], m \in 0 .. Len(s.asyncReaders) :
               Matched(s, k, cn, live, N, end, m)
    BY <2>1 DEF Answers
  <2>5. N \in [1 .. Len(s.asyncReaders) -> 1 .. calls2]
    OBVIOUS
  <2>6. Matched(s, k, cn2, live2, N, end, m)
    BY <2>3, <2>4 DEF Matched
  <2> QED
    BY <2>2, <2>5, <2>6 DEF Answers
<1>3. s.phase = "failed" => \A e \in Eids : s.part[e] # <<>> => s.ks[e] # <<>>
  BY DEF InStep
<1> QED
  BY <1>1, <1>2, <1>3 DEF InStep

(* The tokens that a client has still to read are a sequence, and tokens   *)
(* that arrive are added at its end.                                       *)
LEMMA StreamAdds ==
  ASSUME NEW s \in ClientStates, NEW down \in Seq(Replies)
  PROVE  /\ Stream(s, down) \in Seq(Replies)
         /\ s.asyncReaders # <<>> =>
              Head(s.asyncReaders) \in Eids /\ s.part[Head(s.asyncReaders)] \in Seq(Replies)
         /\ \A r \in Seq(Replies) : Stream(s, down \o r) = Stream(s, down) \o r
<1>1. s.asyncReaders \in Seq(Eids) /\ s.part \in [Eids -> Seq(Replies)]
  BY DEF ClientStates
<1>2. CASE s.asyncReaders = <<>>
  BY <1>2 DEF Stream
<1>3. CASE s.asyncReaders # <<>>
  <2>1. Head(s.asyncReaders) \in Eids
    BY <1>1, <1>3, TailFacts
  <2>2. PICK p \in Seq(Replies) : p = s.part[Head(s.asyncReaders)]
    BY <1>1, <2>1
  <2>3. \A d : Stream(s, d) = p \o d
    BY <1>3, <2>2 DEF Stream
  <2>4. \A r \in Seq(Replies) : p \o (down \o r) = (p \o down) \o r
    BY ConcatAssociative, SMTT(30)
  <2>5. p \o down \in Seq(Replies)
    BY ConcatProperties
  <2> QED
    BY <2>1, <2>2, <2>3, <2>4, <2>5
<1> QED
  BY <1>2, <1>3

(* The server's answer to the next call completes the next result.         *)
LEMMA ArrivedMore ==
  ASSUME NEW a \in Seq(Eids), NEW k, NEW toks \in Seq(Replies), NEW N,
         NEW end \in [0 .. Len(a) -> Nat], NEW m \in 0 .. Len(a), m < Len(a),
         Ends(a, end), Arrived(a, k, toks, N, end, m),
         NEW r \in Seq(Replies), Len(r) = Parts[a[m + 1]],
         \A i \in 1 .. Parts[a[m + 1]] : r[i] = Result(k, N[m + 1], i)
  PROVE  Arrived(a, k, toks \o r, N, end, m + 1)
<1>1. Len(a) \in Nat /\ \A j \in 1 .. Len(a) : a[j] \in Eids /\ Parts[a[j]] \in Nat
  BY LenProperties, ElementOfSeq, PartAssumption
<1>2. m \in Nat /\ m + 1 \in 1 .. Len(a) /\ Len(toks) \in Nat /\ Len(r) \in Nat
  BY <1>1, LenProperties
<1>3. Len(toks) = end[m] /\ end[m + 1] = end[m] + Parts[a[m + 1]] /\ end[m] \in Nat
  <2>1. end[m + 1] = end[m + 1 - 1] + Parts[a[m + 1]] /\ m + 1 - 1 = m
    BY <1>2 DEF Ends
  <2> QED
    BY <1>2, <2>1 DEF Arrived
<1>4. /\ Len(toks \o r) = end[m + 1]
      /\ \A i \in 1 .. end[m + 1] : (toks \o r)[i] = IF i <= end[m] THEN toks[i] ELSE r[i - end[m]]
  <2>1. PICK t : t = toks \o r
    OBVIOUS
  <2>2. /\ Len(t) = Len(toks) + Len(r)
        /\ \A i \in 1 .. Len(toks) + Len(r) :
             t[i] = IF i <= Len(toks) THEN toks[i] ELSE r[i - Len(toks)]
    BY <2>1, ConcatProperties
  <2>3. Len(toks) + Len(r) = end[m + 1]
    BY <1>3
  <2> QED
    BY <1>3, <2>1, <2>2, <2>3
<1>5. ASSUME NEW j \in 1 .. m + 1, NEW i \in 1 .. Parts[a[j]]
      PROVE  (toks \o r)[end[j - 1] + i] = Result(k, N[j], i)
  <2>1. j - 1 \in 0 .. Len(a) /\ j \in 0 .. Len(a) /\ j \in 1 .. Len(a)
    BY <1>1, <1>2
  <2>2. end[j] = end[j - 1] + Parts[a[j]] /\ end[j - 1] \in Nat /\ end[j] \in Nat /\ Parts[a[j]] \in Nat
    BY <1>1, <2>1 DEF Ends
  <2>3. CASE j # m + 1
    <3>1. j \in 1 .. m /\ end[j] <= end[m]
      BY <1>1, <1>2, <2>1, <2>3 DEF Ends
    <3>2. toks[end[j - 1] + i] = Result(k, N[j], i)
      BY <3>1 DEF Arrived
    <3>3. end[j - 1] + i \in 1 .. end[m + 1] /\ end[j - 1] + i <= end[m]
      <4>1. \A x, y, p, z, q \in Nat :
              y = x + p /\ y <= z /\ i <= p => x + i \in 1 .. z + q /\ x + i <= z
        OBVIOUS
      <4>2. PICK x \in Nat, y \in Nat, p \in Nat, z \in Nat, q \in Nat :
              x = end[j - 1] /\ y = end[j] /\ p = Parts[a[j]] /\ z = end[m] /\ q = Parts[a[m + 1]]
        BY <1>1, <1>2, <1>3, <2>2
      <4>3. i <= p /\ y = x + p /\ y <= z /\ end[m + 1] = z + q
        BY <1>3, <2>2, <3>1, <4>2
      <4>4. x + i \in 1 .. z + q /\ x + i <= z
        BY <4>1, <4>3
      <4> QED
        BY <4>2, <4>3, <4>4
    <3> QED
      BY <1>4, <3>2, <3>3
  <2>4. CASE j = m + 1
    <3>1. j - 1 = m
      BY <1>2, <2>4
    <3>2. i \in 1 .. Parts[a[m + 1]] /\ r[i] = Result(k, N[m + 1], i)
      BY <2>4
    <3>3. /\ end[m] + i \in 1 .. end[m + 1] /\ ~(end[m] + i <= end[m])
          /\ end[m] + i - end[m] = i
      <4>1. \A x, z, q \in Nat :
              x \in 1 .. q => z + x \in 1 .. z + q /\ ~(z + x <= z) /\ z + x - z = x
        OBVIOUS
      <4>2. PICK z \in Nat, q \in Nat : z = end[m] /\ q = Parts[a[m + 1]]
        BY <1>1, <1>2, <1>3, <2>2, <2>4, <3>1
      <4>3. i \in Nat /\ i \in 1 .. q /\ end[m + 1] = z + q
        BY <1>3, <3>2, <4>2
      <4>4. z + i \in 1 .. z + q /\ ~(z + i <= z) /\ z + i - z = i
        BY <4>1, <4>3
      <4> QED
        BY <4>2, <4>3, <4>4
    <3>4. PICK x \in 1 .. end[m + 1] : x = end[m] + i
      BY <3>3
    <3>5. (toks \o r)[x] = r[x - end[m]]
      BY <1>4, <3>3, <3>4
    <3>6. x - end[m] = i
      BY <3>3, <3>4, SMTT(30)
    <3>7. (toks \o r)[end[m] + i] = r[i]
      BY <3>4, <3>5, <3>6
    <3> QED
      BY <2>4, <3>1, <3>2, <3>7
  <2> QED
    BY <2>3, <2>4
<1> QED
  BY <1>4, <1>5 DEF Arrived

(* The server reads the request of the next call.                          *)
LEMMA AskedFewer ==
  ASSUME NEW a \in Seq(Eids), NEW up \in Seq(Requests), NEW N, NEW m \in 0 .. Len(a),
         m < Len(a), Asked(a, up, N, m)
  PROVE  /\ Len(up) > 1 /\ up # <<>>
         /\ up[1] = <<"invoke", a[m + 1]>> /\ up[2] = <<"body", N[m + 1]>>
         /\ Asked(a, SubSeq(up, 3, Len(up)), N, m + 1)
<1>1. Len(a) \in Nat /\ m \in Nat /\ Len(up) = 2 * (Len(a) - m)
  BY LenProperties DEF Asked
<1>2. up[1] = <<"invoke", a[m + 1]>> /\ up[2] = <<"body", N[m + 1]>>
  <2>1. 1 \in 1 .. Len(a) - m /\ 2 * 1 - 1 = 1 /\ 2 * 1 = 2
    BY <1>1
  <2>2. up[2 * 1 - 1] = <<"invoke", a[m + 1]>> /\ up[2 * 1] = <<"body", N[m + 1]>>
    BY <2>1 DEF Asked
  <2> QED
    BY <2>1, <2>2
<1>3. Len(up) > 1 /\ up # <<>>
  BY <1>1, EmptySeq
<1>4. PICK u : u = SubSeq(up, 3, Len(up))
  OBVIOUS
<1>5. /\ Len(u) = Len(up) - 2
      /\ \A i \in 1 .. Len(up) - 2 : u[i] = up[i + 2]
  <2>1. Len(up) \in Nat /\ \A i \in 3 .. Len(up) : up[i] \in Requests
    BY LenProperties, ElementOfSeq
  <2>2. /\ Len(u) = IF 3 <= Len(up) THEN Len(up) - 3 + 1 ELSE 0
        /\ \A i \in 1 .. Len(up) - 3 + 1 : u[i] = up[3 + i - 1]
    BY <1>4, <2>1, SubSeqProperties
  <2>3. \A n \in Nat : n > 1 => /\ (IF 3 <= n THEN n - 3 + 1 ELSE 0) = n - 2
                               /\ \A i \in 1 .. n - 2 : i \in 1 .. n - 3 + 1 /\ 3 + i - 1 = i + 2
    OBVIOUS
  <2>4. Len(u) = Len(up) - 2
    BY <1>3, <2>1, <2>2, <2>3
  <2>5. ASSUME NEW i \in 1 .. Len(up) - 2 PROVE u[i] = up[i + 2]
    <3>1. i \in 1 .. Len(up) - 3 + 1 /\ 3 + i - 1 = i + 2
      BY <1>3, <2>1, <2>3
    <3>2. u[i] = up[3 + i - 1]
      BY <2>2, <3>1
    <3> QED
      BY <3>1, <3>2
  <2> QED
    BY <2>4, <2>5
<1>6. Len(u) = 2 * (Len(a) - (m + 1))
  BY <1>1, <1>5
<1>7. ASSUME NEW j \in 1 .. Len(a) - (m + 1)
      PROVE  /\ u[2 * j - 1] = <<"invoke", a[m + 1 + j]>>
             /\ u[2 * j] = <<"body", N[m + 1 + j]>>
  <2>1. /\ j + 1 \in 1 .. Len(a) - m /\ m + (j + 1) = m + 1 + j
        /\ 2 * (j + 1) - 1 = (2 * j - 1) + 2 /\ 2 * (j + 1) = 2 * j + 2
        /\ 2 * j - 1 \in 1 .. Len(up) - 2 /\ 2 * j \in 1 .. Len(up) - 2
    BY <1>1
  <2>2. up[2 * (j + 1) - 1] = <<"invoke", a[m + (j + 1)]>> /\ up[2 * (j + 1)] = <<"body", N[m + (j + 1)]>>
    BY <2>1 DEF Asked
  <2> QED
    BY <1>5, <2>1, <2>2
<1> QED
  BY <1>2, <1>3, <1>4, <1>6, <1>7 DEF Asked

(* A call is answered: the client has one more result to read.             *)
LEMMA CallAnswered ==
  ASSUME NEW s \in ClientStates, NEW k, NEW cn \in Connections, NEW cn2 \in Connections,
         NEW calls \in Nat, NEW N \in [1 .. Len(s.asyncReaders) -> 1 .. calls],
         NEW end \in [0 .. Len(s.asyncReaders) -> Nat], NEW m \in 0 .. Len(s.asyncReaders),
         Matched(s, k, cn, TRUE, N, end, m), m < Len(s.asyncReaders),
         NEW r \in Seq(Replies), Len(r) = Parts[s.asyncReaders[m + 1]],
         \A i \in 1 .. Parts[s.asyncReaders[m + 1]] : r[i] = Result(k, N[m + 1], i),
         cn2.up = SubSeq(cn.up, 3, Len(cn.up)), cn2.down = cn.down \o r
  PROVE  Answers(s, k, cn2, TRUE, calls)
<1>1. s.asyncReaders \in Seq(Eids) /\ cn.down \in Seq(Replies) /\ cn.up \in Seq(Requests)
  BY DEF ClientStates, Connections
<1>2. Stream(s, cn2.down) = Stream(s, cn.down) \o r /\ Stream(s, cn.down) \in Seq(Replies)
  <2>1. PICK d \in Seq(Replies) : d = cn.down
    BY <1>1
  <2>2. Stream(s, d \o r) = Stream(s, d) \o r /\ Stream(s, d) \in Seq(Replies)
    BY StreamAdds
  <2> QED
    BY <2>1, <2>2
<1>3. Arrived(s.asyncReaders, k, Stream(s, cn2.down), N, end, m + 1)
  BY <1>1, <1>2, ArrivedMore DEF Matched
<1>4. Asked(s.asyncReaders, cn2.up, N, m + 1)
  BY <1>1, AskedFewer DEF Matched
<1>5. m + 1 \in 0 .. Len(s.asyncReaders)
  BY <1>1, LenProperties
<1> QED
  BY <1>3, <1>4, <1>5 DEF Answers, Matched

(* The calls of a function that wait grow at the end of the queue.         *)
LEMMA LaterCall ==
  ASSUME NEW S \in SUBSET Nat, NEW q \in Seq(S), NEW y \in S, Increasing(q), \A x \in Range(q) : x < y
  PROVE  Increasing(Append(q, y)) /\ Range(Append(q, y)) = Range(q) \union {y}
<1>0. /\ DOMAIN Append(q, y) = 1 .. Len(q) + 1 /\ DOMAIN q = 1 .. Len(q) /\ Len(q) \in Nat
      /\ \A i \in 1 .. Len(q) : Append(q, y)[i] = q[i]
      /\ Append(q, y)[Len(q) + 1] = y
      /\ Range(Append(q, y)) = Range(q) \union {y}
  BY AppendFacts
<1>1. PICK r : /\ r = Append(q, y)
               /\ DOMAIN r = 1 .. Len(q) + 1 /\ DOMAIN q = 1 .. Len(q) /\ Len(q) \in Nat
               /\ \A i \in 1 .. Len(q) : r[i] = q[i]
               /\ r[Len(q) + 1] = y
               /\ Range(r) = Range(q) \union {y}
  BY <1>0
<1>2. ASSUME NEW i \in 1 .. Len(q) + 1, NEW j \in 1 .. Len(q) + 1, i < j
      PROVE  r[i] < r[j]
  <2>1. i \in 1 .. Len(q)
    BY <1>1, <1>2
  <2>2. r[i] = q[i] /\ q[i] \in Range(q)
    BY <1>1, <2>1 DEF Range
  <2>3. CASE j = Len(q) + 1
    BY <1>1, <2>2, <2>3
  <2>4. CASE j # Len(q) + 1
    <3>1. j \in 1 .. Len(q)
      BY <1>1, <2>4
    <3> QED
      BY <1>1, <1>2, <2>1, <2>2, <3>1 DEF Increasing
  <2> QED
    BY <2>3, <2>4
<1> QED
  BY <1>1, <1>2 DEF Increasing

(* The numbers of the calls that wait, when one more call is made.         *)
LEMMA NumbersMore ==
  ASSUME NEW n \in Nat, NEW calls \in Nat, NEW N \in [1 .. n -> 1 .. calls]
  PROVE  /\ Append(N, calls + 1) \in [1 .. n + 1 -> 1 .. calls + 1]
         /\ Append(N, calls + 1)[n + 1] = calls + 1
         /\ \A j \in 1 .. n : Append(N, calls + 1)[j] = N[j]
<1>1. PICK S, x : S = 1 .. calls + 1 /\ x = calls + 1
  OBVIOUS
<1>2. x \in S /\ N \in [1 .. n -> S]
  BY <1>1
<1>3. N \in Seq(S) /\ Len(N) = n
  BY <1>2
<1>4. /\ Append(N, x) \in Seq(S) /\ Len(Append(N, x)) = Len(N) + 1 /\ Append(N, x)[Len(N) + 1] = x
      /\ \A j \in 1 .. Len(N) : Append(N, x)[j] = N[j]
  BY <1>2, <1>3, AppendProperties
<1>5. Append(N, x) \in [1 .. n + 1 -> S]
  BY <1>3, <1>4, LenProperties
<1> QED
  BY <1>1, <1>3, <1>4, <1>5

(* A callback is queued: it waits for a call that is later than all others. *)
LEMMA WaitingMore ==
  ASSUME NEW a \in Seq(Eids), NEW ks \in [Eids -> Seq(1 .. MaxCalls)], NEW calls \in Nat,
         NEW N \in [1 .. Len(a) -> 1 .. calls], Waiting(a, ks, N), NEW e \in Eids
  PROVE  Waiting(Append(a, e), [ks EXCEPT ![e] = Append(@, calls + 1)], Append(N, calls + 1))
<1>1. PICK n \in Nat : n = Len(a)
  BY LenProperties
<1>b. PICK b : b = Append(a, e)
  OBVIOUS
<1>2. PICK ks2 : ks2 = [ks EXCEPT ![e] = Append(@, calls + 1)]
  OBVIOUS
<1>3. /\ DOMAIN b = 1 .. n + 1 /\ DOMAIN a = 1 .. n /\ b[n + 1] = e
      /\ \A i \in 1 .. n : b[i] = a[i]
  BY <1>1, <1>b, AppendFacts
<1>4. PICK N2 : N2 = Append(N, calls + 1)
  OBVIOUS
<1>5. DOMAIN N2 = 1 .. n + 1 /\ N2[n + 1] = calls + 1 /\ \A i \in 1 .. n : N2[i] = N[i] /\ N[i] \in 1 .. calls
  <2>1. N \in [1 .. n -> 1 .. calls]
    BY <1>1, <1>b
  <2>2. N2 \in [1 .. n + 1 -> 1 .. calls + 1] /\ N2[n + 1] = calls + 1 /\ \A j \in 1 .. n : N2[j] = N[j]
    BY <1>4, <2>1, NumbersMore
  <2> QED
    BY <2>1, <2>2
<1>6. Increasing(N) /\ \A f \in Eids : Increasing(ks[f]) /\ Range(ks[f]) = {N[j] : j \in Readers(a, f)}
  BY DEF Waiting
<1>7. Increasing(N2)
  <2>1. \A i, j \in 1 .. n : i < j => N[i] < N[j]
    BY <1>1, <1>b, <1>6 DEF Increasing
  <2>2. ASSUME NEW i \in 1 .. n + 1, NEW j \in 1 .. n + 1, i < j
        PROVE  N2[i] < N2[j]
    <3>1. i \in 1 .. n
      BY <2>2
    <3>2. CASE j = n + 1
      <4>1. N2[i] = N[i] /\ N[i] \in 1 .. calls /\ N2[j] = calls + 1
        BY <1>5, <3>1, <3>2
      <4>2. \A x \in 1 .. calls : x < calls + 1
        OBVIOUS
      <4> QED
        BY <4>1, <4>2
    <3>3. CASE j # n + 1
      <4>1. j \in 1 .. n
        BY <3>3
      <4> QED
        BY <1>5, <2>1, <2>2, <3>1, <4>1
    <3> QED
      BY <3>2, <3>3
  <2> QED
    BY <1>5, <2>2 DEF Increasing
<1>8. ASSUME NEW f \in Eids
      PROVE  Increasing(ks2[f]) /\ Range(ks2[f]) = {N2[j] : j \in Readers(b, f)}
  <2>1. PICK q \in Seq(1 .. MaxCalls) : q = ks[f]
    OBVIOUS
  <2>2. Increasing(q) /\ Range(q) = {N[j] : j \in Readers(a, f)}
    BY <1>6, <2>1
  <2>3. Readers(a, f) = {j \in 1 .. n : a[j] = f} /\ Readers(b, f) = {j \in 1 .. n + 1 : b[j] = f}
    BY <1>3 DEF Readers
  <2>4. \A x \in Range(q) : x \in 1 .. calls
    BY <1>5, <2>2, <2>3
  <2>5. \A i \in 1 .. n + 1 : i \in 1 .. n \/ i = n + 1
    OBVIOUS
  <2>6. \A i \in 1 .. n : i \in 1 .. n + 1 /\ i # n + 1
    OBVIOUS
  <2>7. CASE f = e
    <3>2. ks2[f] = Append(q, calls + 1)
      BY <1>2, <2>1, <2>7
    <3>3. Readers(b, f) = Readers(a, f) \union {n + 1}
      <4>1. n + 1 \in 1 .. n + 1
        OBVIOUS
      <4> QED
        BY <1>3, <2>3, <2>5, <2>6, <2>7, <4>1
    <3>4. {N2[j] : j \in Readers(b, f)} = Range(q) \union {calls + 1}
      <4>1. \A j \in Readers(a, f) : N2[j] = N[j]
        BY <1>5, <2>3
      <4> QED
        <5>1. {N2[j] : j \in Readers(b, f)} = {N2[j] : j \in Readers(a, f)} \union {N2[n + 1]}
          BY <3>3
        <5>2. {N2[j] : j \in Readers(a, f)} = {N[j] : j \in Readers(a, f)}
          BY <4>1
        <5> QED
          BY <1>5, <2>2, <5>1, <5>2
    <3>5. q \in Seq(Nat) /\ calls + 1 \in Nat
      <4>1. 1 .. MaxCalls \subseteq Nat
        OBVIOUS
      <4> QED
        <5>1. PICK S : S = 1 .. MaxCalls
          OBVIOUS
        <5>2. q \in Seq(S) /\ S \subseteq Nat
          BY <2>1, <4>1, <5>1
        <5>3. q \in Seq(Nat)
          BY <5>2, SeqMonotonic
        <5> QED
          BY <5>3
    <3>6. \A x \in 1 .. calls : x < calls + 1
      OBVIOUS
    <3>7. PICK y : y = calls + 1
      OBVIOUS
    <3>8. y \in Nat /\ \A x \in Range(q) : x < y
      BY <2>4, <3>5, <3>6, <3>7
    <3>9. Increasing(Append(q, y)) /\ Range(Append(q, y)) = Range(q) \union {y}
      <4>1. Nat \in SUBSET Nat
        OBVIOUS
      <4> QED
        BY <2>2, <3>5, <3>8, <4>1, LaterCall
    <3> QED
      BY <3>2, <3>4, <3>7, <3>9
  <2>8. CASE f # e
    <3>2. ks2[f] = q
      BY <1>2, <2>1, <2>8
    <3>3. Readers(b, f) = Readers(a, f)
      BY <1>3, <2>3, <2>5, <2>6, <2>8
    <3>4. {N2[j] : j \in Readers(b, f)} = {N[j] : j \in Readers(a, f)}
      <4>1. \A j \in Readers(a, f) : N2[j] = N[j]
        BY <1>5, <2>3
      <4> QED
        BY <3>3, <4>1
    <3> QED
      BY <2>2, <3>2, <3>4
  <2> QED
    BY <2>7, <2>8
<1> QED
  BY <1>1, <1>b, <1>2, <1>4, <1>7, <1>8 DEF Waiting

(* The tokens of a new call's result are the last of the stream.           *)
LEMMA EndsMore ==
  ASSUME NEW a \in Seq(Eids), NEW e \in Eids, NEW end \in [0 .. Len(a) -> Nat], Ends(a, end),
         NEW end2, end2 = [j \in 0 .. Len(a) + 1 |->
                             IF j = Len(a) + 1 THEN end[Len(a)] + Parts[e] ELSE end[j]]
  PROVE  Ends(Append(a, e), end2) /\ end2 \in [0 .. Len(a) + 1 -> Nat]
<1>1. PICK n \in Nat, p \in Nat : n = Len(a) /\ p = Parts[e]
  BY LenProperties, PartAssumption
<1>b. PICK b : b = Append(a, e)
  OBVIOUS
<1>2. /\ Len(b) = n + 1 /\ b[n + 1] = e
      /\ \A i \in 1 .. n : b[i] = a[i]
  BY <1>1, <1>b, AppendFacts
<1>3. /\ end2 = [j \in 0 .. n + 1 |-> IF j = n + 1 THEN end[n] + p ELSE end[j]]
      /\ end \in [0 .. n -> Nat]
  BY <1>1, <1>b
<1>4. n \in 0 .. n /\ end[n] \in Nat /\ end[n] + p \in Nat
  BY <1>3
<1>5. end2 \in [0 .. n + 1 -> Nat]
  BY <1>3, <1>4
<1>6. end2[n + 1] = end[n] + p /\ \A i \in 0 .. n : end2[i] = end[i] /\ end[i] \in Nat
  BY <1>3
<1>7. /\ end[0] = 0
      /\ \A j \in 1 .. n : end[j] = end[j - 1] + Parts[a[j]]
      /\ \A i, j \in 0 .. n : i <= j => end[i] <= end[j]
  BY <1>1, <1>b DEF Ends
<1>8. ASSUME NEW j \in 1 .. n + 1 PROVE end2[j] = end2[j - 1] + Parts[b[j]]
  <2>1. CASE j = n + 1
    <3>1. j - 1 = n
      BY <2>1
    <3> QED
      BY <1>1, <1>b, <1>2, <1>4, <1>6, <2>1, <3>1
  <2>2. CASE j # n + 1
    <3>1. j \in 1 .. n /\ j \in 0 .. n /\ j - 1 \in 0 .. n
      BY <2>2
    <3> QED
      BY <1>2, <1>6, <1>7, <3>1
  <2> QED
    BY <2>1, <2>2
<1>9. ASSUME NEW i \in 0 .. n + 1, NEW j \in 0 .. n + 1, i <= j PROVE end2[i] <= end2[j]
  <2>1. CASE j = n + 1 /\ i = n + 1
    BY <1>4, <1>6, <2>1
  <2>2. CASE j = n + 1 /\ i # n + 1
    <3>1. i \in 0 .. n
      BY <2>2
    <3>2. end[i] <= end[n]
      BY <1>4, <1>7, <3>1
    <3> QED
      <4>1. PICK x \in Nat, y \in Nat : x = end[i] /\ y = end[n]
        BY <1>3, <1>4, <3>1
      <4>2. \A u, v, w \in Nat : u <= v => u <= v + w
        OBVIOUS
      <4>3. end2[i] = x /\ end2[j] = y + p /\ x <= y
        BY <1>6, <2>2, <3>1, <3>2, <4>1
      <4> QED
        BY <4>1, <4>2, <4>3
  <2>3. CASE j # n + 1
    <3>1. i \in 0 .. n /\ j \in 0 .. n
      BY <1>9, <2>3
    <3> QED
      BY <1>6, <1>7, <1>9, <3>1
  <2> QED
    BY <2>1, <2>2, <2>3
<1>10. end2[0] = 0
  <2>1. 0 \in 0 .. n
    OBVIOUS
  <2> QED
    BY <1>6, <1>7, <2>1
<1> QED
  BY <1>1, <1>b, <1>2, <1>5, <1>8, <1>9, <1>10 DEF Ends

(* A call that is sent is the last that the server has to read.            *)
LEMMA AskedMore ==
  ASSUME NEW a \in Seq(Eids), NEW up \in Seq(Requests), NEW N, NEW m \in 0 .. Len(a),
         Asked(a, up, N, m), NEW e \in Eids, NEW x, NEW N2, NEW up2,
         <<"invoke", e>> \in Requests, <<"body", x>> \in Requests,
         up2 = up \o <<<<"invoke", e>>, <<"body", x>>>>,
         N2[Len(a) + 1] = x, \A j \in 1 .. Len(a) : N2[j] = N[j]
  PROVE  Asked(Append(a, e), up2, N2, m)
<1>1. PICK n \in Nat : n = Len(a)
  BY LenProperties
<1>b. PICK b : b = Append(a, e)
  OBVIOUS
<1>2. Len(b) = n + 1 /\ b[n + 1] = e /\ \A i \in 1 .. n : b[i] = a[i]
  BY <1>1, <1>b, AppendFacts
<1>3. m \in Nat /\ m <= n /\ Len(up) \in Nat /\ Len(up) = 2 * (n - m)
  BY <1>1, <1>b, LenProperties DEF Asked
<1>4. /\ Len(up2) = Len(up) + 2
      /\ \A i \in 1 .. Len(up) : up2[i] = up[i]
      /\ up2[Len(up) + 1] = <<"invoke", e>> /\ up2[Len(up) + 2] = <<"body", x>>
  <2>1. PICK t : t = <<<<"invoke", e>>, <<"body", x>>>>
    OBVIOUS
  <2>2. t \in Seq(Requests) /\ Len(t) = 2 /\ t[1] = <<"invoke", e>> /\ t[2] = <<"body", x>>
    BY <2>1
  <2>3. PICK l \in Nat : l = Len(up)
    BY <1>3
  <2>4. /\ Len(up2) = l + 2
        /\ \A i \in 1 .. l + 2 : up2[i] = IF i <= l THEN up[i] ELSE t[i - l]
    BY <2>1, <2>2, <2>3, ConcatProperties
  <2>5. /\ \A i \in 1 .. l : i \in 1 .. l + 2 /\ i <= l
        /\ l + 1 \in 1 .. l + 2 /\ l + 2 \in 1 .. l + 2 /\ ~(l + 1 <= l) /\ ~(l + 2 <= l)
        /\ l + 1 - l = 1 /\ l + 2 - l = 2
    OBVIOUS
  <2> QED
    BY <2>2, <2>3, <2>4, <2>5
<1>5. ASSUME NEW j \in 1 .. n + 1 - m
      PROVE  up2[2 * j - 1] = <<"invoke", b[m + j]>> /\ up2[2 * j] = <<"body", N2[m + j]>>
  <2>1. CASE j = n + 1 - m
    <3>1. 2 * j - 1 = Len(up) + 1 /\ 2 * j = Len(up) + 2 /\ m + j = n + 1
      BY <1>3, <2>1
    <3> QED
      BY <1>1, <1>b, <1>2, <1>4, <3>1
  <2>2. CASE j # n + 1 - m
    <3>1. /\ j \in 1 .. n - m /\ m + j \in 1 .. n
          /\ 2 * j - 1 \in 1 .. Len(up) /\ 2 * j \in 1 .. Len(up)
      BY <1>3, <2>2
    <3>2. up[2 * j - 1] = <<"invoke", a[m + j]>> /\ up[2 * j] = <<"body", N[m + j]>>
      BY <1>1, <1>b, <3>1 DEF Asked
    <3> QED
      BY <1>1, <1>b, <1>2, <1>4, <3>1, <3>2
  <2> QED
    BY <2>1, <2>2
<1>6. Len(up2) = 2 * (n + 1 - m)
  BY <1>3, <1>4
<1> QED
  <2>1. Asked(b, up2, N2, m)
    <3>1. Len(b) = n + 1
      BY <1>2
    <3>2. Len(up2) = 2 * (Len(b) - m)
      BY <1>6, <3>1
    <3>3. \A j \in 1 .. Len(b) - m : up2[2 * j - 1] = <<"invoke", b[m + j]>> /\ up2[2 * j] = <<"body", N2[m + j]>>
      <4>1. 1 .. Len(b) - m = 1 .. n + 1 - m
        BY <3>1
      <4> QED
        BY <1>5, <4>1
    <3> QED
      BY <3>2, <3>3 DEF Asked
  <2> QED
    BY <1>1, <1>b, <2>1

(* The client makes a call: a request, a callback and a reader are added.  *)
LEMMA CallMade ==
  ASSUME NEW s \in ClientStates, NEW k, NEW cn \in Connections, NEW cn2 \in Connections,
         NEW calls \in Nat, Answers(s, k, cn, TRUE, calls),
         NEW e \in Eids, NEW s2 \in ClientStates,
         s2.asyncReaders = Append(s.asyncReaders, e),
         s2.ks = [s.ks EXCEPT ![e] = Append(@, calls + 1)], s2.part = s.part,
         <<"invoke", e>> \in Requests, <<"body", calls + 1>> \in Requests,
         cn2.up = cn.up \o <<<<"invoke", e>>, <<"body", calls + 1>>>>, cn2.down = cn.down
  PROVE  Answers(s2, k, cn2, TRUE, calls + 1)
<1>1. PICK N \in [1 .. Len(s.asyncReaders) -> 1 .. calls],
           end \in [0 .. Len(s.asyncReaders) -> Nat], m \in 0 .. Len(s.asyncReaders) :
             Matched(s, k, cn, TRUE, N, end, m)
  BY DEF Answers
<1>2. PICK a \in Seq(Eids), n \in Nat : a = s.asyncReaders /\ n = Len(a)
  BY LenProperties DEF ClientStates
<1>b. PICK b : b = Append(a, e)
  OBVIOUS
<1>3. /\ b \in Seq(Eids) /\ Len(b) = n + 1 /\ b # <<>> /\ b[n + 1] = e
      /\ \A i \in 1 .. n : b[i] = a[i]
  <2>1. /\ Append(a, e) \in Seq(Eids) /\ Len(Append(a, e)) = Len(a) + 1 /\ Append(a, e) # <<>>
        /\ Append(a, e)[Len(a) + 1] = e /\ \A i \in 1 .. Len(a) : Append(a, e)[i] = a[i]
    BY AppendFacts
  <2> QED
    BY <1>2, <1>b, <2>1
<1>4. PICK N2 \in [1 .. n + 1 -> 1 .. calls + 1] :
        N2 = Append(N, calls + 1) /\ N2[n + 1] = calls + 1 /\ \A j \in 1 .. n : N2[j] = N[j]
  <2>1. N \in [1 .. n -> 1 .. calls]
    BY <1>2, <1>b
  <2>2. /\ Append(N, calls + 1) \in [1 .. n + 1 -> 1 .. calls + 1]
        /\ Append(N, calls + 1)[n + 1] = calls + 1
        /\ \A j \in 1 .. n : Append(N, calls + 1)[j] = N[j]
    BY <2>1, NumbersMore
  <2> QED
    BY <2>2, Zenon
<1>5. PICK end2 : end2 = [j \in 0 .. n + 1 |-> IF j = n + 1 THEN end[n] + Parts[e] ELSE end[j]]
  OBVIOUS
<1>6. Waiting(b, s2.ks, N2)
  <2>1. Waiting(a, s.ks, N) /\ N \in [1 .. Len(a) -> 1 .. calls]
    BY <1>1, <1>2, <1>b DEF Matched
  <2>2. s.ks \in [Eids -> Seq(1 .. MaxCalls)]
    BY DEF ClientStates
  <2>3. Waiting(Append(a, e), [s.ks EXCEPT ![e] = Append(@, calls + 1)], Append(N, calls + 1))
    BY <2>1, <2>2, WaitingMore
  <2> QED
    BY <1>2, <1>b, <1>4, <2>3
<1>7. Ends(b, end2) /\ end2 \in [0 .. n + 1 -> Nat]
  <2>1. Ends(a, end) /\ end \in [0 .. Len(a) -> Nat]
    BY <1>1, <1>2, <1>b DEF Matched
  <2>2. end2 = [j \in 0 .. Len(a) + 1 |->
                  IF j = Len(a) + 1 THEN end[Len(a)] + Parts[e] ELSE end[j]]
    BY <1>2, <1>b, <1>5
  <2>3. Ends(Append(a, e), end2) /\ end2 \in [0 .. Len(a) + 1 -> Nat]
    BY <2>1, <2>2, EndsMore, ZenonT(60)
  <2> QED
    BY <1>2, <1>b, <2>3
<1>8. PartRead(s) /\ (a # <<>> => Head(b) = Head(a)) /\ (a = <<>> => Head(b) = e)
  <2>1. PartRead(s)
    BY <1>1 DEF Matched
  <2>2. a # <<>> => Head(b) = Head(a)
    BY <1>2, <1>b, HeadTailAppend
  <2>3. a = <<>> => Head(b) = e
    BY <1>2, <1>b, HeadTailAppend
  <2> QED
    BY <2>1, <2>2, <2>3
<1>9. PartRead(s2)
  BY <1>2, <1>b, <1>3, <1>8 DEF PartRead
<1>10. Stream(s2, cn2.down) = Stream(s, cn.down)
  <2>1. s2.asyncReaders = b
    BY <1>2, <1>b
  <2>2. CASE a = <<>>
    <3>1. s2.part[e] = <<>>
      BY <1>2, <1>b, <1>8, <2>2 DEF PartRead
    <3>2. Stream(s2, cn2.down) = <<>> \o cn.down
      BY <1>3, <1>8, <2>1, <2>2, <3>1 DEF Stream
    <3>3. cn.down \in Seq(Replies)
      BY DEF Connections
    <3>4. <<>> \o cn.down = cn.down
      BY <3>3, ConcatEmptySeq
    <3> QED
      BY <1>2, <1>b, <2>2, <3>2, <3>4 DEF Stream
  <2>3. CASE a # <<>>
    BY <1>2, <1>b, <1>3, <1>8, <2>1, <2>3 DEF Stream
  <2> QED
    BY <2>2, <2>3
<1>11. Arrived(b, k, Stream(s2, cn2.down), N2, end2, m)
  <2>1. Arrived(a, k, Stream(s, cn.down), N, end, m) /\ m \in 0 .. n
    BY <1>1, <1>2, <1>b DEF Matched
  <2>2. end2[m] = end[m]
    BY <1>5, <2>1
  <2>3. ASSUME NEW j \in 1 .. m
        PROVE  b[j] = a[j] /\ end2[j - 1] = end[j - 1] /\ N2[j] = N[j]
    <3>1. j \in 1 .. n /\ j \in 1 .. n + 1 /\ j # n + 1
          /\ j - 1 \in 0 .. n + 1 /\ j - 1 # n + 1
      BY <2>1
    <3> QED
      BY <1>3, <1>4, <1>5, <3>1
  <2> QED
    <3>1. Len(Stream(s2, cn2.down)) = end2[m]
      BY <1>10, <2>1, <2>2 DEF Arrived
    <3>2. ASSUME NEW j \in 1 .. m, NEW i \in 1 .. Parts[b[j]]
          PROVE  Stream(s2, cn2.down)[end2[j - 1] + i] = Result(k, N2[j], i)
      <4>1. i \in 1 .. Parts[a[j]]
        BY <2>3
      <4>2. Stream(s, cn.down)[end[j - 1] + i] = Result(k, N[j], i)
        BY <2>1, <4>1 DEF Arrived
      <4> QED
        BY <1>10, <2>3, <4>2
    <3> QED
      BY <3>1, <3>2 DEF Arrived
<1>12. Asked(b, cn2.up, N2, m)
  <2>1. Asked(a, cn.up, N, m) /\ m \in 0 .. Len(a) /\ cn.up \in Seq(Requests)
    BY <1>1, <1>2, <1>b DEF Matched, Connections
  <2>2. N2[Len(a) + 1] = calls + 1 /\ \A j \in 1 .. Len(a) : N2[j] = N[j]
    BY <1>2, <1>b, <1>4
  <2> QED
    <3>1. Asked(Append(a, e), cn2.up, N2, m)
      BY <2>1, <2>2, AskedMore, ZenonT(30)
    <3> QED
      BY <1>2, <1>b, <3>1
<1>13. Matched(s2, k, cn2, TRUE, N2, end2, m)
  BY <1>2, <1>b, <1>6, <1>7, <1>9, <1>11, <1>12 DEF Matched
<1>14. m \in 0 .. n + 1 /\ Len(s2.asyncReaders) = n + 1
  BY <1>2, <1>b, <1>3
<1> QED
  BY <1>6, <1>7, <1>13, <1>14 DEF Answers

(* The oldest callback of a function is that of its oldest reader.         *)
LEMMA OldestCall ==
  ASSUME NEW a \in Seq(Eids), NEW ks \in [Eids -> Seq(1 .. MaxCalls)],
         NEW N \in [1 .. Len(a) -> Nat], Waiting(a, ks, N), a # <<>>
  PROVE  /\ Head(a) \in Eids /\ ks[Head(a)] # <<>> /\ Head(ks[Head(a)]) = N[1]
<1>1. PICK n \in Nat, e \in Eids : n = Len(a) /\ n # 0 /\ e = Head(a) /\ e = a[1] /\ DOMAIN a = 1 .. n
  BY TailFacts
<1>2. PICK q \in Seq(1 .. MaxCalls) : q = ks[e]
  OBVIOUS
<1>3. /\ Increasing(N) /\ Increasing(q) /\ Range(q) = {N[j] : j \in Readers(a, e)}
      /\ Readers(a, e) = {j \in 1 .. n : a[j] = e}
  BY <1>1, <1>2 DEF Waiting, Readers
<1>4. 1 \in 1 .. n /\ N[1] \in Nat /\ N[1] \in Range(q)
  <2>1. 1 \in 1 .. n /\ 1 \in Readers(a, e)
    <3>1. 1 \in 1 .. n /\ a[1] = e
      BY <1>1
    <3> QED
      BY <1>3, <3>1
  <2>2. N \in [1 .. n -> Nat]
    BY <1>1
  <2> QED
    BY <1>3, <2>1, <2>2
<1>5. DOMAIN q = 1 .. Len(q) /\ Len(q) \in Nat
  BY LenProperties
<1>6. PICK i \in 1 .. Len(q) : q[i] = N[1]
  BY <1>4, <1>5 DEF Range
<1>7. q # <<>> /\ 1 \in 1 .. Len(q)
  BY <1>5, <1>6, EmptySeq
<1>8. Head(q) = q[1] /\ q[1] \in Range(q)
  BY <1>5, <1>7, TailFacts
<1>9. PICK j \in 1 .. n : q[1] = N[j]
  BY <1>3, <1>8
<1>10. N[j] \in Nat /\ N[1] \in Nat /\ (1 < j => N[1] < N[j]) /\ (1 < i => q[1] < q[i])
  <2>1. N \in [1 .. n -> Nat]
    BY <1>1
  <2>2. 1 < j => N[1] < N[j]
    BY <1>3, <1>4, <2>1 DEF Increasing
  <2>3. 1 < i => q[1] < q[i]
    BY <1>3, <1>5, <1>7 DEF Increasing
  <2> QED
    BY <1>4, <2>1, <2>2, <2>3
<1>11. q[1] = N[1]
  BY <1>6, <1>9, <1>10
<1> QED
  BY <1>1, <1>2, <1>4, <1>7, <1>8, <1>11

(* The oldest of the calls of a function is no longer among them.          *)
LEMMA EarliestLeaves ==
  ASSUME NEW S \in SUBSET Nat, NEW q \in Seq(S), q # <<>>, Increasing(q)
  PROVE  Increasing(Tail(q)) /\ Range(Tail(q)) = Range(q) \ {Head(q)}
<1>1. PICK l \in Nat : l = Len(q) /\ l # 0
  BY EmptySeq
<1>2. PICK t : t = Tail(q)
  OBVIOUS
<1>3. /\ DOMAIN t = 1 .. l - 1 /\ DOMAIN q = 1 .. l /\ Head(q) = q[1]
      /\ \A i \in 1 .. l - 1 : t[i] = q[i + 1]
  BY <1>1, <1>2, TailFacts
<1>4. \A i \in 1 .. l : q[i] \in Nat
  BY <1>1, ElementOfSeq
<1>5. \A i, j \in 1 .. l : i < j => q[i] < q[j]
  BY <1>3 DEF Increasing
<1>6. \A i \in 1 .. l - 1 : i + 1 \in 1 .. l /\ 1 < i + 1
  OBVIOUS
<1>7. Increasing(t)
  <2>1. ASSUME NEW i \in 1 .. l - 1, NEW j \in 1 .. l - 1, i < j PROVE t[i] < t[j]
    <3>1. i + 1 < j + 1
      BY <2>1
    <3> QED
      BY <1>3, <1>5, <1>6, <3>1
  <2> QED
    BY <1>3, <2>1 DEF Increasing
<1>8. Range(t) \subseteq Range(q) \ {Head(q)}
  <2>1. ASSUME NEW i \in 1 .. l - 1 PROVE t[i] \in Range(q) /\ t[i] # Head(q)
    <3>1. 1 \in 1 .. l
      BY <1>1
    <3>2. t[i] = q[i + 1] /\ q[1] < q[i + 1] /\ q[1] \in Nat /\ q[i + 1] \in Nat
      BY <1>3, <1>4, <1>5, <1>6, <3>1
    <3>3. q[i + 1] \in Range(q)
      BY <1>3, <1>6 DEF Range
    <3> QED
      BY <1>3, <3>2, <3>3
  <2> QED
    BY <1>3, <2>1 DEF Range
<1>9. Range(q) \ {Head(q)} \subseteq Range(t)
  <2>1. ASSUME NEW x \in Range(q), x # Head(q) PROVE x \in Range(t)
    <3>1. PICK i \in 1 .. l : x = q[i]
      BY <1>3 DEF Range
    <3>2. i # 1
      BY <1>3, <2>1, <3>1
    <3>3. i - 1 \in 1 .. l - 1 /\ (i - 1) + 1 = i
      BY <3>2
    <3>4. t[i - 1] = x
      BY <1>3, <3>1, <3>3
    <3> QED
      BY <1>3, <3>3, <3>4 DEF Range
  <2> QED
    BY <2>1
<1> QED
  BY <1>2, <1>7, <1>8, <1>9

(* The oldest callback is called.                                          *)
LEMMA WaitingLess ==
  ASSUME NEW a \in Seq(Eids), NEW ks \in [Eids -> Seq(1 .. MaxCalls)], NEW calls \in Nat,
         NEW N \in [1 .. Len(a) -> 1 .. calls], Waiting(a, ks, N), a # <<>>
  PROVE  Waiting(Tail(a), [ks EXCEPT ![Head(a)] = Tail(@)], Tail(N))
<1>1. PICK n \in Nat, e \in Eids : n = Len(a) /\ n # 0 /\ e = Head(a)
  BY TailFacts, ZenonT(30)
<1>b. PICK b : b = Tail(a)
  OBVIOUS
<1>2. /\ DOMAIN a = 1 .. n /\ DOMAIN b = 1 .. n - 1 /\ a[1] = e
      /\ \A i \in 1 .. n - 1 : b[i] = a[i + 1]
  BY <1>1, <1>b, TailFacts
<1>3. PICK N2 : N2 = Tail(N)
  OBVIOUS
<1>4. /\ DOMAIN N2 = 1 .. n - 1 /\ DOMAIN N = 1 .. n
      /\ \A j \in 1 .. n - 1 : N2[j] = N[j + 1]
      /\ \A j \in 1 .. n : N[j] \in Nat
  <2>1. PICK S : S = 1 .. calls
    OBVIOUS
  <2>2. N \in [1 .. n -> S] /\ DOMAIN N = 1 .. n /\ \A j \in 1 .. n : N[j] \in Nat
    <3>1. N \in [1 .. n -> S]
      BY <1>1, <1>b, <2>1
    <3>2. \A x \in S : x \in Nat
      BY <2>1
    <3> QED
      BY <3>1, <3>2
  <2>3. N \in Seq(S) /\ Len(N) = n
    BY <2>2
  <2>4. N # <<>>
    BY <1>1, <1>b, <2>3, EmptySeq
  <2>5. /\ DOMAIN N2 = 1 .. Len(N) - 1
        /\ \A j \in 1 .. Len(N) - 1 : N2[j] = N[j + 1]
    BY <1>3, <2>3, <2>4, TailFacts
  <2> QED
    BY <2>2, <2>3, <2>5
<1>5. /\ \A i, j \in 1 .. n : i < j => N[i] < N[j]
      /\ \A f \in Eids : Increasing(ks[f]) /\ Range(ks[f]) = {N[j] : j \in Readers(a, f)}
  BY <1>4 DEF Waiting, Increasing
<1>6. \A i \in 1 .. n - 1 : i + 1 \in 1 .. n /\ 1 < i + 1
  OBVIOUS
<1>7. Increasing(N2)
  <2>1. ASSUME NEW i \in 1 .. n - 1, NEW j \in 1 .. n - 1, i < j PROVE N2[i] < N2[j]
    <3>1. i + 1 < j + 1
      BY <2>1
    <3> QED
      BY <1>4, <1>5, <1>6, <3>1
  <2> QED
    BY <1>4, <2>1 DEF Increasing
<1>8. PICK ks2 : ks2 = [ks EXCEPT ![e] = Tail(@)]
  OBVIOUS
<1>9. ASSUME NEW f \in Eids
      PROVE  Increasing(ks2[f]) /\ Range(ks2[f]) = {N2[j] : j \in Readers(b, f)}
  <2>1. Readers(a, f) = {j \in 1 .. n : a[j] = f} /\ Readers(b, f) = {j \in 1 .. n - 1 : b[j] = f}
    BY <1>2 DEF Readers
  <2>2. PICK q \in Seq(1 .. MaxCalls) : q = ks[f]
    OBVIOUS
  <2>3. Increasing(q) /\ Range(q) = {N[j] : j \in Readers(a, f)}
    BY <1>5, <2>2
  <2>4. {N2[j] : j \in Readers(b, f)} = {N[j] : j \in Readers(a, f) \ {1}}
    <3>1. ASSUME NEW j \in Readers(b, f) PROVE j + 1 \in Readers(a, f) \ {1} /\ N2[j] = N[j + 1]
      <4>1. j \in 1 .. n - 1 /\ b[j] = f
        BY <2>1
      <4>2. j + 1 \in 1 .. n /\ j + 1 # 1
        BY <1>6, <4>1
      <4>3. a[j + 1] = f /\ N2[j] = N[j + 1]
        BY <1>2, <1>4, <4>1
      <4> QED
        BY <2>1, <4>2, <4>3
    <3>2. ASSUME NEW i \in Readers(a, f) \ {1} PROVE i - 1 \in Readers(b, f) /\ N2[i - 1] = N[i]
      <4>1. i \in 1 .. n /\ a[i] = f /\ i # 1
        BY <2>1
      <4>2. i - 1 \in 1 .. n - 1 /\ (i - 1) + 1 = i
        BY <4>1
      <4>3. b[i - 1] = a[i] /\ N2[i - 1] = N[i]
        BY <1>2, <1>4, <4>2
      <4> QED
        BY <2>1, <4>1, <4>2, <4>3
    <3>3. ASSUME NEW x \in {N2[j] : j \in Readers(b, f)} PROVE x \in {N[j] : j \in Readers(a, f) \ {1}}
      BY <3>1
    <3>4. ASSUME NEW x \in {N[j] : j \in Readers(a, f) \ {1}} PROVE x \in {N2[j] : j \in Readers(b, f)}
      <4>1. PICK i \in Readers(a, f) \ {1} : x = N[i]
        OBVIOUS
      <4> QED
        BY <3>2, <4>1
    <3> QED
      BY <3>3, <3>4
  <2>5. CASE f = e
    <3>1. 1 \in Readers(a, f)
      BY <1>1, <1>b, <1>2, <2>1, <2>5
    <3>2. \A i \in Readers(a, f) \ {1} : N[i] # N[1]
      <4>1. ASSUME NEW i \in Readers(a, f) \ {1} PROVE N[i] # N[1]
        <5>1. i \in 1 .. n /\ 1 \in 1 .. n /\ 1 < i
          BY <2>1, <3>1
        <5>2. N[1] < N[i] /\ N[1] \in Nat /\ N[i] \in Nat
          BY <1>4, <1>5, <5>1
        <5> QED
          BY <5>2
      <4> QED
        BY <4>1
    <3>3. {N[j] : j \in Readers(a, f) \ {1}} = Range(q) \ {N[1]}
      BY <2>3, <3>1, <3>2
    <3>4. q # <<>> /\ Head(q) = N[1]
      <4>1. N \in [1 .. Len(a) -> Nat]
        OBVIOUS
      <4>2. ks[Head(a)] # <<>> /\ Head(ks[Head(a)]) = N[1]
        BY <4>1, OldestCall
      <4> QED
        BY <1>1, <1>b, <2>2, <2>5, <4>2
    <3>5. Increasing(Tail(q)) /\ Range(Tail(q)) = Range(q) \ {Head(q)}
      <4>1. PICK S : S = 1 .. MaxCalls
        OBVIOUS
      <4>2. S \in SUBSET Nat /\ q \in Seq(S)
        BY <4>1
      <4> QED
        BY <2>3, <3>4, <4>2, EarliestLeaves
    <3>6. ks2[f] = Tail(q)
      BY <1>8, <2>2, <2>5
    <3> QED
      BY <2>4, <3>3, <3>4, <3>5, <3>6
  <2>6. CASE f # e
    <3>1. 1 \notin Readers(a, f)
      BY <1>2, <2>1, <2>6
    <3>2. Readers(a, f) \ {1} = Readers(a, f)
      BY <3>1
    <3>3. ks2[f] = q
      BY <1>8, <2>2, <2>6
    <3> QED
      BY <2>3, <2>4, <3>2, <3>3
  <2> QED
    BY <2>5, <2>6
<1> QED
  BY <1>1, <1>b, <1>3, <1>7, <1>8, <1>9 DEF Waiting

(* Where the results end, when the first has been read.                    *)
LEMMA EndsLess ==
  ASSUME NEW a \in Seq(Eids), a # <<>>, NEW end \in [0 .. Len(a) -> Nat], Ends(a, end)
  PROVE  \E end2 \in [0 .. Len(a) - 1 -> Nat] :
           /\ Ends(Tail(a), end2)
           /\ end[1] = Parts[Head(a)] /\ end[0] = 0
           /\ \A j \in 0 .. Len(a) - 1 : end[j + 1] = end2[j] + end[1]
<1>1. PICK n \in Nat : n = Len(a) /\ n # 0
  BY TailFacts
<1>b. PICK b : b = Tail(a)
  OBVIOUS
<1>2. /\ Len(b) = n - 1 /\ Head(a) = a[1]
      /\ \A i \in 1 .. n - 1 : b[i] = a[i + 1]
  BY <1>1, <1>b, TailFacts
<1>3. PICK end2 : /\ end2 = [j \in 0 .. n - 1 |-> end[j + 1] - end[1]]
                  /\ end \in [0 .. n -> Nat]
  BY <1>1, <1>b
<1>4. /\ end[0] = 0
      /\ \A j \in 1 .. n : end[j] = end[j - 1] + Parts[a[j]]
      /\ \A i, j \in 0 .. n : i <= j => end[i] <= end[j]
      /\ \A j \in 1 .. n : Parts[a[j]] \in Nat
  <2>1. \A j \in 1 .. n : a[j] \in Eids
    BY <1>1, <1>b, ElementOfSeq
  <2> QED
    BY <1>1, <1>b, <2>1, PartAssumption DEF Ends
<1>5. PICK x \in Nat : x = end[1]
  BY <1>1, <1>b, <1>3, SMTT(30)
<1>6. \A j \in 0 .. n - 1 : j + 1 \in 0 .. n /\ 1 \in 0 .. n /\ 1 <= j + 1 /\ j + 1 \in 1 .. n
  BY <1>1, <1>b
<1>7. ASSUME NEW j \in 0 .. n - 1
      PROVE  end2[j] = end[j + 1] - x /\ end2[j] \in Nat /\ end[j + 1] = end2[j] + x /\ end[j + 1] \in Nat
  <2>1. PICK y \in Nat : y = end[j + 1]
    BY <1>3, <1>6
  <2>2. x <= y
    BY <1>4, <1>5, <1>6, <2>1
  <2>3. y - x \in Nat /\ y = (y - x) + x
    BY <2>2
  <2>4. end2[j] = y - x
    BY <1>3, <1>5, <2>1
  <2> QED
    BY <2>1, <2>3, <2>4
<1>8. x = Parts[Head(a)]
  <2>1. 1 \in 1 .. n /\ 1 - 1 = 0
    BY <1>1, <1>b
  <2>2. end[1] = end[1 - 1] + Parts[a[1]] /\ Parts[a[1]] \in Nat
    BY <1>4, <2>1
  <2> QED
    BY <1>2, <1>4, <1>5, <2>1, <2>2
<1>9. end2[0] = 0
  <2>1. 0 \in 0 .. n - 1 /\ 0 + 1 = 1
    BY <1>1, <1>b
  <2>2. end2[0] = x - x
    BY <1>5, <1>7, <2>1
  <2> QED
    BY <2>2
<1>10. ASSUME NEW j \in 1 .. n - 1 PROVE end2[j] = end2[j - 1] + Parts[b[j]]
  <2>1. /\ j \in 0 .. n - 1 /\ j - 1 \in 0 .. n - 1 /\ (j - 1) + 1 = j
        /\ j + 1 \in 1 .. n /\ (j + 1) - 1 = j /\ j \in 0 .. n
    BY <1>1, <1>b
  <2>2. PICK u \in Nat, v \in Nat, w \in Nat : u = end2[j] /\ v = end2[j - 1] /\ w = Parts[a[j + 1]]
    BY <1>4, <1>7, <2>1
  <2>3. end[j + 1] = u + x /\ end[j] = v + x
    BY <1>7, <2>1, <2>2
  <2>4. end[j + 1] = end[j] + w
    BY <1>4, <2>1, <2>2
  <2>5. u = v + w
    BY <2>3, <2>4
  <2> QED
    BY <1>2, <2>2, <2>5
<1>11. ASSUME NEW i \in 0 .. n - 1, NEW j \in 0 .. n - 1, i <= j PROVE end2[i] <= end2[j]
  <2>1. PICK u \in Nat, v \in Nat : u = end2[i] /\ v = end2[j]
    BY <1>7
  <2>2. i + 1 <= j + 1
    BY <1>11
  <2>3. end[i + 1] <= end[j + 1]
    BY <1>4, <1>6, <2>2
  <2>4. u + x <= v + x
    BY <1>7, <2>1, <2>3
  <2>5. u <= v
    BY <2>4
  <2> QED
    BY <2>1, <2>5
<1>12. end2 \in [0 .. n - 1 -> Nat]
  BY <1>3, <1>7
<1>13. Ends(b, end2)
  BY <1>2, <1>9, <1>10, <1>11 DEF Ends
<1>14. end2 \in [0 .. Len(a) - 1 -> Nat] /\ Ends(Tail(a), end2)
  BY <1>1, <1>b, <1>12, <1>13
<1>15. /\ end[1] = Parts[Head(a)] /\ end[0] = 0
       /\ \A j \in 0 .. Len(a) - 1 : end[j + 1] = end2[j] + end[1]
  BY <1>1, <1>b, <1>4, <1>5, <1>7, <1>8
<1> QED
  BY <1>14, <1>15

(* Tokens after tokens. *)
LEMMA TokensFollow ==
  ASSUME NEW p \in Seq(Replies), NEW d \in Seq(Replies)
  PROVE  /\ Len(p \o d) = Len(p) + Len(d)
         /\ \A i \in 1 .. Len(p) + Len(d) :
              (p \o d)[i] = IF i <= Len(p) THEN p[i] ELSE d[i - Len(p)]
BY ConcatProperties, ZenonT(30)

(* The first result of the stream is that of the oldest call, and after it *)
(* come the others.                                                        *)
LEMMA ArrivedLess ==
  ASSUME NEW a \in Seq(Eids), a # <<>>, NEW k, NEW N, NEW N2,
         \A j \in 1 .. Len(a) - 1 : N2[j] = N[j + 1],
         NEW end, NEW end2 \in [0 .. Len(a) - 1 -> Nat], Ends(Tail(a), end2),
         end[1] = Parts[Head(a)], end[0] = 0,
         \A j \in 0 .. Len(a) - 1 : end[j + 1] = end2[j] + end[1],
         NEW m \in 1 .. Len(a), NEW p \in Seq(Replies), Len(p) = Parts[Head(a)],
         NEW toks \in Seq(Replies), Arrived(a, k, p \o toks, N, end, m)
  PROVE  /\ \A i \in 1 .. Len(p) : p[i] = Result(k, N[1], i)
         /\ Arrived(Tail(a), k, toks, N2, end2, m - 1)
<1>1. PICK n \in Nat : n = Len(a) /\ n # 0
  <2>1. Len(a) \in Nat \ {0}
    BY TailFacts
  <2> QED
    BY <2>1
<1>b. PICK b : b = Tail(a)
  OBVIOUS
<1>2. /\ Len(b) = n - 1 /\ Head(a) = a[1]
      /\ \A i \in 1 .. n - 1 : b[i] = a[i + 1]
  BY <1>1, <1>b, TailFacts
<1>3. /\ Ends(b, end2) /\ end2 \in [0 .. n - 1 -> Nat]
      /\ end[1] = Parts[a[1]] /\ end[0] = 0
      /\ \A j \in 0 .. n - 1 : end[j + 1] = end2[j] + end[1]
  BY <1>1, <1>b, <1>2
<1>4. PICK x \in Nat, l \in Nat : x = Len(p) /\ x = end[1] /\ l = Len(toks)
  BY <1>2, <1>3, LenProperties
<1>t. PICK t : t = p \o toks
  OBVIOUS
<1>5. /\ Len(t) = x + l
      /\ \A i \in 1 .. x + l : t[i] = IF i <= x THEN p[i] ELSE toks[i - x]
  <2>1. /\ Len(p \o toks) = Len(p) + Len(toks)
        /\ \A i \in 1 .. Len(p) + Len(toks) :
             (p \o toks)[i] = IF i <= Len(p) THEN p[i] ELSE toks[i - Len(p)]
    BY TokensFollow
  <2> QED
    BY <1>4, <1>t, <2>1
<1>6. /\ x + l = end[m]
      /\ \A j \in 1 .. m : \A i \in 1 .. Parts[a[j]] : t[end[j - 1] + i] = Result(k, N[j], i)
  BY <1>4, <1>t, <1>5 DEF Arrived
<1>7. ASSUME NEW i \in 1 .. x PROVE p[i] = Result(k, N[1], i)
  <2>1. 1 \in 1 .. m /\ 1 - 1 = 0 /\ i \in 1 .. Parts[a[1]] /\ 0 + i = i
    BY <1>3, <1>4, <1>t
  <2>2. t[end[1 - 1] + i] = Result(k, N[1], i)
    BY <1>6, <2>1
  <2>3. t[i] = Result(k, N[1], i)
    BY <1>3, <2>1, <2>2
  <2>4. i \in 1 .. x + l /\ i <= x
    OBVIOUS
  <2> QED
    BY <1>5, <2>3, <2>4
<1>8. l = end2[m - 1]
  <2>1. m - 1 \in 0 .. n - 1 /\ (m - 1) + 1 = m
    BY <1>1, <1>b
  <2>2. PICK y \in Nat : y = end2[m - 1]
    BY <1>3, <2>1
  <2>3. x + l = y + x
    BY <1>3, <1>4, <1>t, <1>6, <2>1, <2>2
  <2>4. l = y
    BY <2>3
  <2> QED
    BY <2>2, <2>4
<1>9. ASSUME NEW j \in 1 .. m - 1, NEW i \in 1 .. Parts[b[j]]
      PROVE  toks[end2[j - 1] + i] = Result(k, N2[j], i)
  <2>1. /\ j \in 1 .. n - 1 /\ j - 1 \in 0 .. n - 1 /\ (j - 1) + 1 = j /\ j + 1 \in 1 .. m
        /\ (j + 1) - 1 = j /\ j \in 0 .. n - 1 /\ m - 1 \in 0 .. n - 1 /\ j <= m - 1
    <3>1. m \in 1 .. n
      BY <1>1, <1>b
    <3>2. /\ m \in Nat /\ 1 <= m /\ m <= n /\ n \in Nat
          /\ j \in Nat /\ 1 <= j /\ j <= m - 1
      BY <3>1
    <3>3. j \in 1 .. n - 1 /\ j - 1 \in 0 .. n - 1 /\ j \in 0 .. n - 1
      BY <3>2
    <3>4. j + 1 \in 1 .. m /\ m - 1 \in 0 .. n - 1 /\ j <= m - 1
      BY <3>2
    <3>5. (j - 1) + 1 = j /\ (j + 1) - 1 = j
      BY <3>2
    <3> QED
      BY <3>3, <3>4, <3>5
  <2>2. b[j] = a[j + 1] /\ N2[j] = N[j + 1]
    BY <1>1, <1>b, <1>2, <2>1
  <2>3. PICK y \in Nat, z \in Nat : y = end2[j - 1] /\ z = end2[j] /\ z = y + Parts[b[j]] /\ z <= l
    <3>1. end2[j] = end2[j - 1] + Parts[b[j]]
      BY <1>2, <1>3, <2>1 DEF Ends
    <3>2. end2[j] <= end2[m - 1]
      BY <1>2, <1>3, <2>1 DEF Ends
    <3> QED
      BY <1>3, <1>8, <2>1, <3>1, <3>2
  <2>4. end[j] = y + x
    BY <1>3, <1>4, <1>t, <2>1, <2>3
  <2>5. t[end[(j + 1) - 1] + i] = Result(k, N[j + 1], i)
    BY <1>6, <2>1, <2>2
  <2>6. t[(y + x) + i] = Result(k, N2[j], i)
    BY <2>1, <2>2, <2>4, <2>5
  <2>7. Parts[b[j]] \in Nat
    <3>1. a[j + 1] \in Eids
      <4>1. j + 1 \in 1 .. Len(a)
        BY <1>1, <1>b, <2>1
      <4> QED
        BY <4>1, ElementOfSeq
    <3> QED
      BY <2>2, <3>1, PartAssumption
  <2>8. (y + x) + i \in 1 .. x + l /\ ~((y + x) + i <= x) /\ ((y + x) + i) - x = y + i
    <3>1. PICK w \in Nat : w = Parts[b[j]]
      BY <2>7
    <3>2. i \in 1 .. w /\ y + w <= l
      BY <2>3, <3>1
    <3> QED
      BY <3>2
  <2>9. PICK g \in 1 .. x + l : g = (y + x) + i /\ ~(g <= x) /\ g - x = y + i
    BY <2>8
  <2>10. t[g] = toks[g - x]
    BY <1>5, <2>9
  <2> QED
    BY <2>3, <2>6, <2>9, <2>10
<1>10. Arrived(b, k, toks, N2, end2, m - 1)
  BY <1>4, <1>t, <1>8, <1>9 DEF Arrived
<1> QED
  BY <1>1, <1>b, <1>4, <1>t, <1>7, <1>10

(* What the server has still to read, when the oldest call is called back. *)
LEMMA AskedLess ==
  ASSUME NEW a \in Seq(Eids), a # <<>>, NEW N, NEW N2,
         \A j \in 1 .. Len(a) - 1 : N2[j] = N[j + 1],
         NEW m \in 1 .. Len(a), NEW up, Asked(a, up, N, m)
  PROVE  Asked(Tail(a), up, N2, m - 1)
<1>1. PICK n \in Nat : n = Len(a) /\ n # 0
  BY TailFacts
<1>b. PICK b : b = Tail(a)
  OBVIOUS
<1>2. Len(b) = n - 1 /\ \A i \in 1 .. n - 1 : b[i] = a[i + 1]
  BY <1>1, <1>b, TailFacts
<1>3. /\ Len(up) = 2 * (n - m)
      /\ \A j \in 1 .. n - m : up[2 * j - 1] = <<"invoke", a[m + j]>> /\ up[2 * j] = <<"body", N[m + j]>>
  BY <1>1, <1>b DEF Asked
<1>4. (n - 1) - (m - 1) = n - m
  BY <1>1, <1>b
<1>5. ASSUME NEW j \in 1 .. n - m
      PROVE  b[(m - 1) + j] = a[m + j] /\ N2[(m - 1) + j] = N[m + j]
  <2>1. (m - 1) + j \in 1 .. n - 1 /\ ((m - 1) + j) + 1 = m + j
    BY <1>1, <1>b
  <2>2. PICK i \in 1 .. n - 1 : i = (m - 1) + j /\ i + 1 = m + j
    BY <2>1
  <2>3. b[i] = a[i + 1] /\ N2[i] = N[i + 1]
    BY <1>1, <1>b, <1>2
  <2> QED
    BY <2>2, <2>3
<1>6. Asked(b, up, N2, m - 1)
  <2>1. Len(b) - (m - 1) = n - m
    BY <1>2, <1>4
  <2>2. \A j \in 1 .. n - m : up[2 * j - 1] = <<"invoke", b[(m - 1) + j]>> /\ up[2 * j] = <<"body", N2[(m - 1) + j]>>
    BY <1>3, <1>5
  <2> QED
    BY <1>3, <2>1, <2>2 DEF Asked
<1> QED
  BY <1>1, <1>b, <1>6

(* How many tokens there are to read.                                      *)
LEMMA TokensAdd ==
  ASSUME NEW p \in Seq(Replies), NEW d \in Seq(Replies)
  PROVE  Len(p \o d) = Len(p) + Len(d) /\ Len(p) \in Nat /\ Len(d) \in Nat
BY ConcatProperties, LenProperties

(* A token that is read is still at the head of the stream.                *)
LEMMA TokenMoves ==
  ASSUME NEW p \in Seq(Replies), NEW d \in Seq(Replies), d # <<>>
  PROVE  /\ Head(d) \in Replies /\ Tail(d) \in Seq(Replies)
         /\ Append(p, Head(d)) \in Seq(Replies) /\ Len(Append(p, Head(d))) = Len(p) + 1
         /\ Append(p, Head(d)) \o Tail(d) = p \o d
<1>1. PICK x \in Replies, t \in Seq(Replies) : x = Head(d) /\ t = Tail(d)
  BY HeadTailProperties
<1>2. d = <<x>> \o t /\ <<x>> \in Seq(Replies)
  <2>1. <<x>> \in Seq(Replies) /\ Len(<<x>>) = 1 /\ <<x>>[1] = x
    OBVIOUS
  <2>2. /\ <<x>> \o t \in Seq(Replies) /\ Len(<<x>> \o t) = 1 + Len(t)
        /\ \A i \in 1 .. 1 + Len(t) : (<<x>> \o t)[i] = IF i <= 1 THEN <<x>>[i] ELSE t[i - 1]
    BY <2>1, ConcatProperties
  <2>3. PICK l \in Nat : l = Len(d) /\ l # 0
    BY EmptySeq
  <2>4. /\ Len(t) = l - 1 /\ x = d[1]
        /\ \A i \in 1 .. l - 1 : t[i] = d[i + 1]
    BY <1>1, <2>3, TailFacts
  <2>5. 1 + Len(t) = l
    BY <2>3, <2>4
  <2>6. ASSUME NEW i \in 1 .. l PROVE (<<x>> \o t)[i] = d[i]
    <3>1. CASE i = 1
      BY <2>1, <2>2, <2>4, <2>5, <3>1
    <3>2. CASE i # 1
      <4>1. i - 1 \in 1 .. l - 1 /\ (i - 1) + 1 = i /\ ~(i <= 1)
        BY <3>2
      <4> QED
        BY <2>2, <2>4, <2>5, <4>1
    <3> QED
      BY <3>1, <3>2
  <2> QED
    BY <2>1, <2>2, <2>3, <2>5, <2>6, SeqEqual
<1>3. Append(p, x) = p \o <<x>>
  BY AppendIsConcat
<1>4. (p \o <<x>>) \o t = p \o (<<x>> \o t)
  BY <1>2, ConcatAssociative
<1>5. Append(p, x) \in Seq(Replies) /\ Len(Append(p, x)) = Len(p) + 1
  BY AppendProperties
<1> QED
  BY <1>1, <1>2, <1>3, <1>4, <1>5

(* The client reads a token of a result that is then still not complete.   *)
ReadsToken(s, k, cn, live, calls, p, e, s2, cn2) ==
  /\ Answers(s, k, cn, live, calls)
  /\ s.asyncReaders # <<>> /\ cn2.up = cn.up /\ e = Head(s.asyncReaders)
  /\ s2.asyncReaders = s.asyncReaders /\ s2.ks = s.ks
  /\ \A f \in Eids : s2.part[f] = IF f = e THEN p ELSE s.part[f]
  /\ p \o cn2.down = Stream(s, cn.down) /\ Len(p) < Parts[e]

LEMMA ResultTokenRead ==
  ASSUME NEW s \in ClientStates, NEW k, NEW cn \in Connections, NEW cn2 \in Connections,
         NEW live \in BOOLEAN, NEW calls \in Nat, NEW s2 \in ClientStates, NEW e, NEW p,
         ReadsToken(s, k, cn, live, calls, p, e, s2, cn2)
  PROVE  Answers(s2, k, cn2, live, calls)
<1> USE DEF ReadsToken
<1>1. PICK N \in [1 .. Len(s.asyncReaders) -> 1 .. calls],
           end \in [0 .. Len(s.asyncReaders) -> Nat], m \in 0 .. Len(s.asyncReaders) :
             Matched(s, k, cn, live, N, end, m)
  BY DEF Answers
<1>2. e \in Eids
  BY TailFacts DEF ClientStates
<1>3. Stream(s2, cn2.down) = Stream(s, cn.down)
  BY <1>2 DEF Stream
<1>4. PartRead(s2)
  <2>1. PartRead(s)
    BY <1>1 DEF Matched
  <2>2. ASSUME NEW f \in Eids, s2.part[f] # <<>>
        PROVE  f = e /\ Len(s2.part[f]) < Parts[f]
    <3>1. CASE f = e
      BY <3>1
    <3>2. CASE f # e
      BY <2>1, <2>2, <3>2 DEF PartRead
    <3> QED
      BY <3>1, <3>2
  <2> QED
    BY <2>2 DEF PartRead
<1>5. Matched(s2, k, cn2, live, N, end, m)
  BY <1>1, <1>3, <1>4 DEF Matched
<1> QED
  BY <1>5 DEF Answers

(* The client reads a result to its end, and calls the oldest callback of  *)
(* the function of the oldest reader: that of the call it is the result of. *)
ReadsResult(s, k, cn, live, calls, p, e, s2, cn2) ==
  /\ Answers(s, k, cn, live, calls) /\ s.asyncReaders # <<>> /\ (live => cn.down # <<>>)
  /\ e = Head(s.asyncReaders) /\ Len(p) = Parts[e] /\ p \o cn2.down = Stream(s, cn.down)
  /\ cn2.up = cn.up /\ s2.asyncReaders = Tail(s.asyncReaders)
  /\ \A f \in Eids : s2.ks[f] = IF f = e THEN Tail(s.ks[f]) ELSE s.ks[f]
  /\ \A f \in Eids : s2.part[f] = IF f = e THEN <<>> ELSE s.part[f]

LEMMA ResultRead ==
  ASSUME NEW s \in ClientStates, NEW k, NEW cn \in Connections, NEW cn2 \in Connections,
         NEW live \in BOOLEAN, NEW calls \in Nat, NEW p \in Seq(Replies), NEW e,
         NEW s2 \in ClientStates, ReadsResult(s, k, cn, live, calls, p, e, s2, cn2)
  PROVE  /\ s.ks[e] # <<>> /\ \A i \in 1 .. Len(p) : p[i] = Result(k, Head(s.ks[e]), i)
         /\ Answers(s2, k, cn2, live, calls)
<1> USE DEF ReadsResult
<1>1. PICK N \in [1 .. Len(s.asyncReaders) -> 1 .. calls],
           end \in [0 .. Len(s.asyncReaders) -> Nat], m \in 0 .. Len(s.asyncReaders) :
             Matched(s, k, cn, live, N, end, m)
  BY DEF Answers
<1>2. PICK a \in Seq(Eids), n \in Nat : a = s.asyncReaders /\ n = Len(a) /\ n # 0 /\ a # <<>>
  <2>1. s.asyncReaders \in Seq(Eids)
    BY DEF ClientStates
  <2>2. Len(s.asyncReaders) \in Nat \ {0}
    BY <2>1, EmptySeq
  <2> QED
    BY <2>1, <2>2
<1>3. e \in Eids /\ e = Head(a) /\ Tail(a) \in Seq(Eids) /\ Len(Tail(a)) = n - 1
  BY <1>2, TailFacts
<1>4. /\ Waiting(a, s.ks, N) /\ N \in [1 .. Len(a) -> 1 .. calls] /\ PartRead(s)
      /\ Ends(a, end) /\ end \in [0 .. Len(a) -> Nat]
      /\ Arrived(a, k, p \o cn2.down, N, end, m) /\ (live => Asked(a, cn.up, N, m))
  BY <1>1, <1>2 DEF Matched
<1>5. s.ks \in [Eids -> Seq(1 .. MaxCalls)] /\ cn2.down \in Seq(Replies) /\ cn.down \in Seq(Replies)
  BY DEF ClientStates, Connections
<1>6. PICK N2 : N2 = Tail(N)
  OBVIOUS
<1>7. /\ Waiting(Tail(a), [s.ks EXCEPT ![Head(a)] = Tail(@)], Tail(N))
      /\ s.ks[Head(a)] # <<>> /\ Head(s.ks[Head(a)]) = N[1]
  <2>1. Waiting(Tail(a), [s.ks EXCEPT ![Head(a)] = Tail(@)], Tail(N))
    BY <1>2, <1>4, <1>5, WaitingLess
  <2>2. N \in [1 .. Len(a) -> Nat]
    BY <1>4
  <2>3. s.ks[Head(a)] # <<>> /\ Head(s.ks[Head(a)]) = N[1]
    <3>1. PICK ks : ks = s.ks
      OBVIOUS
    <3>2. ks \in [Eids -> Seq(1 .. MaxCalls)] /\ Waiting(a, ks, N) /\ a # <<>>
      BY <1>2, <1>4, <1>5, <3>1
    <3>3. ks[Head(a)] # <<>> /\ Head(ks[Head(a)]) = N[1]
      BY <2>2, <3>2, OldestCall
    <3> QED
      BY <3>1, <3>3
  <2> QED
    BY <2>1, <2>3
<1>8. Waiting(Tail(a), s2.ks, N2) /\ s.ks[e] # <<>> /\ Head(s.ks[e]) = N[1]
  <2>1. s2.ks = [s.ks EXCEPT ![e] = Tail(@)]
    <3>1. s2.ks \in [Eids -> Seq(1 .. MaxCalls)]
      BY DEF ClientStates
    <3> QED
      BY <1>3, <1>5, <3>1
  <2> QED
    BY <1>3, <1>6, <1>7, <2>1
<1>9. N2 \in [1 .. n - 1 -> 1 .. calls] /\ \A j \in 1 .. Len(a) - 1 : N2[j] = N[j + 1]
  <2>1. PICK S : S = 1 .. calls
    OBVIOUS
  <2>2. N \in Seq(S) /\ Len(N) = n
    <3>1. N \in [1 .. n -> S]
      BY <1>2, <1>4, <2>1
    <3> QED
      BY <3>1
  <2>3. N # <<>>
    BY <1>2, <2>2, EmptySeq
  <2>4. N2 \in Seq(S) /\ Len(N2) = n - 1 /\ \A j \in 1 .. n - 1 : N2[j] = N[j + 1]
    BY <1>6, <2>2, <2>3, TailFacts
  <2>5. N2 \in [1 .. n - 1 -> S]
    BY <2>4, LenProperties
  <2> QED
    BY <1>2, <2>1, <2>4, <2>5
<1>10. \E end2 \in [0 .. Len(a) - 1 -> Nat] :
         /\ Ends(Tail(a), end2)
         /\ end[1] = Parts[Head(a)] /\ end[0] = 0
         /\ \A j \in 0 .. Len(a) - 1 : end[j + 1] = end2[j] + end[1]
  BY <1>2, <1>4, EndsLess
<1>11. PICK end2 : /\ Ends(Tail(a), end2) /\ end2 \in [0 .. Len(a) - 1 -> Nat]
                   /\ end[1] = Parts[Head(a)] /\ end[0] = 0
                   /\ \A j \in 0 .. Len(a) - 1 : end[j + 1] = end2[j] + end[1]
  BY <1>10
<1>12. PartRead(s2) /\ Stream(s2, cn2.down) = cn2.down
  <2>1. \A f \in Eids : s2.part[f] = <<>>
    BY <1>3, <1>4 DEF PartRead
  <2>2. s2.asyncReaders # <<>> => Head(s2.asyncReaders) \in Eids
    BY <1>2, <1>3, TailFacts
  <2>3. <<>> \o cn2.down = cn2.down
    BY <1>5, ConcatEmptySeq
  <2> QED
    BY <2>1, <2>2, <2>3 DEF PartRead, Stream
<1>13. ASSUME NEW m2 \in 0 .. n - 1, Arrived(Tail(a), k, cn2.down, N2, end2, m2),
              live => Asked(Tail(a), cn2.up, N2, m2)
       PROVE  Answers(s2, k, cn2, live, calls)
  <2>1. s2.asyncReaders = Tail(a) /\ Len(s2.asyncReaders) = n - 1
    BY <1>2, <1>3
  <2>2. Matched(s2, k, cn2, live, N2, end2, m2)
    BY <1>8, <1>11, <1>12, <1>13, <2>1 DEF Matched
  <2>3. end2 \in [0 .. n - 1 -> Nat]
    BY <1>2, <1>11
  <2> QED
    BY <1>9, <2>1, <2>2, <2>3 DEF Answers
<1>14. CASE m # 0
  <2>1. m \in 1 .. Len(a)
    BY <1>2, <1>14
  <2>2. /\ \A i \in 1 .. Len(p) : p[i] = Result(k, N[1], i)
        /\ Arrived(Tail(a), k, cn2.down, N2, end2, m - 1)
    <3>1. a # <<>> /\ Len(p) = Parts[Head(a)] /\ cn2.down \in Seq(Replies)
      BY <1>2, <1>3, <1>5
    <3>2. \A j \in 1 .. Len(a) - 1 : N2[j] = N[j + 1]
      BY <1>9
    <3>3. Arrived(a, k, p \o cn2.down, N, end, m)
      BY <1>4
    <3> QED
      BY <1>11, <2>1, <3>1, <3>2, <3>3, ArrivedLess
  <2>3. live => Asked(Tail(a), cn2.up, N2, m - 1)
    BY <1>2, <1>4, <1>9, <2>1, AskedLess
  <2>4. m - 1 \in 0 .. n - 1
    BY <1>2, <2>1
  <2> QED
    BY <1>8, <1>13, <2>2, <2>3, <2>4
<1>15. CASE m = 0
  <2>1. Len(p \o cn2.down) = 0
    BY <1>4, <1>11, <1>15 DEF Arrived
  <2>2. Len(p) = 0 /\ Len(cn2.down) = 0
    <3>1. Len(p \o cn2.down) = Len(p) + Len(cn2.down) /\ Len(p) \in Nat /\ Len(cn2.down) \in Nat
      <4>1. PICK d \in Seq(Replies) : d = cn2.down
        BY <1>5
      <4>2. Len(p \o d) = Len(p) + Len(d) /\ Len(p) \in Nat /\ Len(d) \in Nat
        BY TokensAdd
      <4> QED
        BY <4>1, <4>2
    <3> QED
      BY <2>1, <3>1
  <2>3. cn.down = <<>>
    <3>1. PICK q \in Seq(Replies), d \in Seq(Replies) :
            q = s.part[e] /\ d = cn.down /\ Stream(s, cn.down) = q \o d
      BY <1>2, <1>3, <1>5, StreamAdds DEF Stream
    <3>2. Len(q \o d) = Len(q) + Len(d) /\ Len(q) \in Nat /\ Len(d) \in Nat
      BY TokensAdd
    <3>3. Len(d) = 0
      <4>1. p \o cn2.down = q \o d
        BY <3>1
      <4>2. Len(q) + Len(d) = 0
        BY <2>1, <3>2, <4>1
      <4> QED
        BY <3>2, <4>2
    <3> QED
      BY <3>1, <3>3, EmptySeq
  <2>4. ~live
    BY <2>3
  <2>5. end2[0] = 0 /\ 0 \in 0 .. n - 1
    BY <1>2, <1>11 DEF Ends
  <2>6. Arrived(Tail(a), k, cn2.down, N2, end2, 0)
    BY <2>2, <2>5 DEF Arrived
  <2>7. Answers(s2, k, cn2, live, calls)
    BY <1>13, <2>4, <2>5, <2>6
  <2>8. \A i \in 1 .. Len(p) : p[i] = Result(k, Head(s.ks[e]), i)
    BY <2>2
  <2> QED
    BY <1>8, <2>7, <2>8
<1> QED
  BY <1>14, <1>15

(* What a connection's client is in step with, and what keeps it so.       *)
LEMMA ClientFacts ==
  ASSUME ServerInv, NEW c \in Clients, ClientInStep(c), client[c].phase \notin {"new", "gone"}
  PROVE  LET k == client[c].conn
         IN  /\ client[c] \in ClientStates /\ k \in 1 .. Len(conns) /\ conns[k] \in Connections
             /\ conns[k].owner = c /\ conns[k].open
             /\ Live(k) \in BOOLEAN /\ Defined(k) \in SUBSET Eids /\ made \in Nat
             /\ InStep(client[c], k, conns[k], Live(k), Defined(k), made)
<1>1. TypeOK
  BY DEF ServerInv
<1>2. PICK k : k = client[c].conn
  OBVIOUS
<1>3. k \in 1 .. Len(conns) /\ conns[k].owner = c /\ conns[k].open
  BY <1>2, OwnConnection
<1>4. client[c] \in ClientStates
  BY <1>1, ClientIs
<1>5. conns[k] \in Connections
  BY <1>1, <1>3, ConnIs
<1>6. Live(k) \in BOOLEAN
  BY <1>1 DEF Live, TypeOK
<1>7. Defined(k) \in SUBSET Eids
  BY DEF Defined
<1>8. made \in Nat
  BY <1>1, BoundAssumption DEF TypeOK
<1>9. InStep(client[c], k, conns[k], Live(k), Defined(k), made)
  BY <1>2 DEF ClientInStep
<1> QED
  BY <1>2, <1>3, <1>4, <1>5, <1>6, <1>7, <1>8, <1>9

(* ClientInStep after a step, of a client whose phase says it has a        *)
(* connection.                                                             *)
LEMMA ClientInStepIs ==
  ASSUME NEW c \in Clients, NEW s, client'[c] = s, s.phase = "new" => s = NewClient,
         s.phase \notin {"new", "gone"} =>
           InStep(s, s.conn, conns'[s.conn], alive' /\ conns'[s.conn].server # "closed",
                  {e \in Eids : \A fd \in Fds : connAt'[fd] = s.conn => cnetFns'[fd][e] = s.conn}, made')
  PROVE  ClientInStep(c)'
BY DEF ClientInStep, Live, Defined

(* Connection k, and what is stored for it, stay in step with its client.  *)
StaysInStep(k) ==
  /\ conns'[k].down = conns[k].down
  /\ conns'[k].server = "queued" => conns[k].server = "queued"
  /\ alive' /\ conns'[k].server # "closed" =>
       alive /\ conns[k].server # "closed" /\ Rest(conns'[k]) = Rest(conns[k])
  /\ conns[k].server # "queued" =>
       \A fd \in Fds : connAt'[fd] = k =>
         connAt[fd] = k /\ \A e \in Eids : cnetFns[fd][e] = k => cnetFns'[fd][e] = k

(* A client that takes no step itself stays in step.                       *)
LEMMA BystanderInStep ==
  ASSUME ServerInv, ServerInv', NEW c \in Clients, ClientInStep(c), client'[c] = client[c],
         made <= made', client[c].phase \notin {"new", "gone"} => StaysInStep(client[c].conn)
  PROVE  ClientInStep(c)'
<1>1. PICK s, k : s = client[c] /\ k = s.conn
  OBVIOUS
<1>2. CASE s.phase \in {"new", "gone"}
  <2>1. s.phase = "new" => s = NewClient
    BY <1>1 DEF ClientInStep
  <2> QED
    BY <1>1, <1>2, <2>1, ClientInStepIs
<1>3. CASE s.phase \notin {"new", "gone"}
  <2>1. /\ s \in ClientStates /\ conns[k] \in Connections
        /\ Live(k) \in BOOLEAN /\ Defined(k) \in SUBSET Eids /\ made \in Nat
        /\ InStep(s, k, conns[k], Live(k), Defined(k), made)
    BY <1>1, <1>3, ClientFacts
  <2>2. TypeOK /\ TypeOK'
    BY DEF ServerInv
  <2>3. conns'[k] \in Connections /\ made' \in Nat /\ alive' \in BOOLEAN
    <3>1. /\ conns' \in Seq(Connections) /\ made' \in 0 .. MaxCalls /\ alive' \in BOOLEAN
          /\ client'[c].conn <= Len(conns')
      BY <2>2 DEF TypeOK
    <3>2. k \in 1 .. Len(conns')
      <4>1. k \in 1 .. Len(conns)
        BY <1>1, <1>3, OwnConnection
      <4>2. k <= Len(conns')
        BY <1>1, <3>1
      <4>3. Len(conns') \in Nat
        BY <3>1, LenProperties
      <4> QED
        BY <4>1, <4>2, <4>3
    <3>3. conns'[k] \in Connections
      BY <3>1, <3>2, ElementOfSeq
    <3> QED
      BY <3>1, <3>3, BoundAssumption
  <2>4. StaysInStep(k)
    BY <1>1, <1>3
  <2>5. PICK L \in BOOLEAN : L = (alive' /\ conns'[k].server # "closed")
    BY <2>3
  <2>6. PICK D \in SUBSET Eids : D = {e \in Eids : \A fd \in Fds : connAt'[fd] = k => cnetFns'[fd][e] = k}
    OBVIOUS
  <2>7. conns[k].server # "queued" => Defined(k) \subseteq D
    BY <2>4, <2>6 DEF StaysInStep, Defined
  <2>8. (L => Live(k)) /\ (L => Rest(conns'[k]) = Rest(conns[k]))
    BY <2>4, <2>5 DEF StaysInStep, Live
  <2>9. conns'[k].down = conns[k].down /\ (conns'[k].server = "queued" => conns[k].server = "queued")
    BY <2>4 DEF StaysInStep
  <2>10. InStep(s, k, conns'[k], L, D, made')
    BY <2>1, <2>3, <2>7, <2>8, <2>9, InStepKept
  <2> QED
    BY <1>1, <1>3, <2>5, <2>6, <2>10, ClientInStepIs
<1> QED
  BY <1>2, <1>3

(* The steps of one client leave the others in step.                       *)
LEMMA OthersInStep ==
  ASSUME ServerInv, ServerInv', ClientsInStep, NEW c \in Clients, UNCHANGED serverVars,
         stale \subseteq stale', made <= made', \A d \in Clients \ {c} : client'[d] = client[d],
         \A k \in 1 .. Len(conns) : conns[k].owner # c => conns'[k] = conns[k],
         c \notin stale' => ClientInStep(c)'
  PROVE  ClientsInStep'
<1>1. ASSUME NEW d \in Clients \ stale', d # c
      PROVE  ClientInStep(d)'
  <2>1. ClientInStep(d) /\ client'[d] = client[d] /\ d \in Clients
    BY <1>1 DEF ClientsInStep
  <2>2. ASSUME client[d].phase \notin {"new", "gone"}
        PROVE  StaysInStep(client[d].conn)
    <3>1. PICK k \in 1 .. Len(conns) : k = client[d].conn /\ conns[k].owner = d
      BY <2>1, <2>2, OwnConnection
    <3>2. conns'[k] = conns[k]
      BY <1>1, <3>1
    <3>3. StaysInStep(k)
      BY <3>2 DEF StaysInStep, serverVars
    <3> QED
      BY <3>1, <3>3
  <2> QED
    BY <2>1, <2>2, BystanderInStep
<1> QED
  BY <1>1 DEF ClientsInStep

-----------------------------------------------------------------------------
(* The server's steps.                                                     *)

(* The server takes a step: its clients stay in step with what is behind   *)
(* their connections.                                                      *)
LEMMA ServerStepInStep ==
  ASSUME ServerInv, ServerInv', ClientsInStep, UNCHANGED <<client, made, stale>>,
         \A c \in Clients : client[c].phase \notin {"new", "gone"} /\ ClientInStep(c) =>
           StaysInStep(client[c].conn) \/ ClientInStep(c)'
  PROVE  ClientsInStep'
<1>1. ASSUME NEW c \in Clients \ stale'
      PROVE  ClientInStep(c)'
  <2>1. ClientInStep(c) /\ c \in Clients /\ client'[c] = client[c]
    BY <1>1 DEF ClientsInStep
  <2>2. made <= made'
    BY BoundAssumption DEF ServerInv, TypeOK
  <2>3. CASE ClientInStep(c)'
    BY <2>3
  <2>4. CASE client[c].phase \notin {"new", "gone"} => StaysInStep(client[c].conn)
    BY <2>1, <2>2, <2>4, BystanderInStep
  <2> QED
    BY <2>1, <2>3, <2>4
<1> QED
  BY <1>1 DEF ClientsInStep

(* No connection is concerned. *)
LEMMA QuietInStep ==
  ASSUME ServerInv, ServerInv', ClientsInStep,
         UNCHANGED <<alive, conns, connAt, cnetFns, client, made, stale>>
  PROVE  ClientsInStep'
<1>1. \A k : StaysInStep(k)
  BY DEF StaysInStep
<1> QED
  BY <1>1, ServerStepInStep

(* accept(): the connection was queued, and the version is read, or it is  *)
(* closed.                                                                 *)
LEMMA AcceptInStep ==
  ASSUME ServerInv, ServerInv', ClientsInStep, Accept
  PROVE  ClientsInStep'
<1> DEFINE k == Head(backlog)
           fd == CHOOSE f \in Fds : connAt[f] = 0 /\ \A g \in Fds : connAt[g] = 0 => f <= g
           taken == conns[k].up # <<>> /\ Head(conns[k].up) = <<"version", Good>>
<1>1. /\ TypeOK /\ HandlersInv /\ ConnectionPlaces
      /\ UNCHANGED <<alive, cnetFns, client, made, stale>>
      /\ batch # <<>> /\ Head(batch) = Listener
  BY DEF ServerInv, Accept
<1>2. CASE Full
  <2>1. UNCHANGED <<conns, connAt>>
    BY <1>1, <1>2 DEF Accept
  <2> QED
    BY <1>1, <2>1, QuietInStep
<1>3. CASE ~Full
  <2>1. fd \in Fds /\ connAt[fd] = 0
    BY <1>1, <1>3, FreeDescriptor
  <2>2. backlog # <<>>
    <3>1. Listener \in Range(batch)
      BY <1>1, TailFacts DEF TypeOK
    <3> QED
      BY <1>1, <3>1 DEF HandlersInv
  <2>3. k \in 1 .. Len(conns) /\ k \in Range(backlog)
    BY <1>1, <2>2, TailFacts DEF TypeOK
  <2>4. /\ connAt' = IF taken THEN [connAt EXCEPT ![fd] = k] ELSE connAt
        /\ conns' = IF taken THEN [conns EXCEPT ![k].up = Tail(@), ![k].server = "served"]
                    ELSE [conns EXCEPT ![k].server = "closed"]
    BY <1>1, <1>3 DEF Accept
  <2> HIDE DEF fd, k
  <2>5. conns[k].server = "queued" /\ conns[k] \in Connections
    BY <1>1, <2>3, ConnIs DEF ConnectionPlaces
  <2> HIDE DEF taken
  <2>6. /\ conns'[k].down = conns[k].down
        /\ taken => conns'[k].server = "served" /\ conns'[k].up = Tail(conns[k].up)
        /\ ~taken => conns'[k].server = "closed"
        /\ \A i \in 1 .. Len(conns) : i # k => conns'[i] = conns[i]
    <3>1. conns \in Seq(Connections) /\ DOMAIN conns = 1 .. Len(conns)
      BY <1>1, LenProperties DEF TypeOK
    <3>2. CASE taken
      <4>1. conns' = [conns EXCEPT ![k] = [conns[k] EXCEPT !.up = Tail(conns[k].up), !.server = "served"]]
        BY <2>3, <2>4, <2>5, <3>1, <3>2
      <4> QED
        BY <2>3, <2>5, <3>1, <3>2, <4>1 DEF Connections
    <3>3. CASE ~taken
      <4>1. conns' = [conns EXCEPT ![k] = [conns[k] EXCEPT !.server = "closed"]]
        BY <2>3, <2>4, <2>5, <3>1, <3>3
      <4> QED
        BY <2>3, <2>5, <3>1, <3>3, <4>1 DEF Connections
    <3> QED
      BY <3>2, <3>3
  <2>7. \A f \in Fds, i \in 1 .. Len(conns) : i # k /\ connAt'[f] = i => connAt[f] = i
    BY <1>1, <2>1, <2>4 DEF TypeOK
  <2>8. ASSUME NEW i \in 1 .. Len(conns)
        PROVE  StaysInStep(i)
    <3>1. CASE i = k
      <4>1. taken => Rest(conns'[k]) = Rest(conns[k])
        BY <2>5, <2>6 DEF Rest
      <4> QED
        BY <1>1, <2>5, <2>6, <3>1, <4>1 DEF StaysInStep
    <3>2. CASE i # k
      BY <1>1, <2>6, <2>7, <3>2 DEF StaysInStep
    <3> QED
      BY <3>1, <3>2
  <2> QED
    BY <1>1, <2>8, OwnConnection, ServerStepInStep
<1> QED
  BY <1>2, <1>3

(* A connection is dropped: nothing more is asked on it. *)
LEMMA DisconnectInStep ==
  ASSUME ServerInv, ServerInv', ClientsInStep, batch # <<>>, Head(batch) # Listener,
         Disconnect(Head(batch)[1]), UNCHANGED <<client, made, stale>>
  PROVE  ClientsInStep'
<1>1. TypeOK /\ ConnectionPlaces
  BY DEF ServerInv
<1>2. PICK fd \in Fds, k \in 1 .. Len(conns) :
         fd = Head(batch)[1] /\ k = connAt[fd] /\ conns[k].server = "served" /\ fd \in Served
  BY EvaluateAt
<1>3. /\ connAt' = [connAt EXCEPT ![fd] = 0] /\ UNCHANGED <<alive, cnetFns>>
      /\ conns' = [conns EXCEPT ![k].server = "closed"]
  BY <1>2 DEF Disconnect
<1>4. /\ conns'[k].down = conns[k].down /\ conns'[k].server = "closed"
      /\ \A i \in 1 .. Len(conns) : i # k => conns'[i] = conns[i]
  <2>1. conns \in Seq(Connections) /\ DOMAIN conns = 1 .. Len(conns) /\ conns[k] \in Connections
    BY <1>1, LenProperties, ConnIs DEF TypeOK
  <2>2. conns' = [conns EXCEPT ![k] = [conns[k] EXCEPT !.server = "closed"]]
    BY <1>3, <2>1
  <2> QED
    BY <2>1, <2>2 DEF Connections
<1>5. \A f \in Fds, i \in 1 .. Len(conns) : connAt'[f] = i => connAt[f] = i
  BY <1>1, <1>2, <1>3 DEF TypeOK
<1>6. \A i \in 1 .. Len(conns) : StaysInStep(i)
  <2>1. StaysInStep(k)
    BY <1>3, <1>4, <1>5 DEF StaysInStep
  <2>2. \A i \in 1 .. Len(conns) : i # k => StaysInStep(i)
    BY <1>3, <1>4, <1>5 DEF StaysInStep
  <2> QED
    BY <2>1, <2>2
<1> QED
  BY <1>6, OwnConnection, ServerStepInStep

(* A definition is answered: it was the only one under way.                *)
LEMMA DefinitionAnswered ==
  ASSUME NEW s \in ClientStates, s.phase \notin {"new", "gone"}, NEW k,
         NEW cn \in Connections, NEW cn2 \in Connections, NEW D \in SUBSET Eids,
         NEW calls \in Nat, InStep(s, k, cn, TRUE, D, calls),
         cn.server = "served", cn.up # <<>>, cn.up[1][1] = "define",
         NEW ok \in BOOLEAN, NEW D2 \in SUBSET Eids, D \subseteq D2, ok => cn.up[1][2] \in D2,
         cn2.server = "served", cn2.up = SubSeq(cn.up, 3, Len(cn.up)),
         cn2.down = cn.down \o <<<<IF ok THEN "ok" ELSE "fail", cn.up[1][2]>>>>
  PROVE  InStep(s, k, cn2, TRUE, D2, calls)
<1>1. cn.up \in Seq(Requests) /\ cn.down \in Seq(Replies)
  BY DEF Connections
<1>2. s.phase # "ready"
  <2> SUFFICES ASSUME s.phase = "ready" PROVE FALSE
    OBVIOUS
  <2>1. PICK N \in [1 .. Len(s.asyncReaders) -> 1 .. calls],
             end \in [0 .. Len(s.asyncReaders) -> Nat], m \in 0 .. Len(s.asyncReaders) :
               Matched(s, k, cn, TRUE, N, end, m)
    BY DEF InStep, Answers
  <2>2. PICK a \in Seq(Eids), up \in Seq(Requests) : a = s.asyncReaders /\ up = cn.up
    BY <1>1 DEF ClientStates
  <2>3. Asked(a, up, N, m) /\ m \in 0 .. Len(a) /\ Len(a) \in Nat
    BY <2>1, <2>2, LenProperties DEF Matched
  <2>4. m < Len(a)
    <3>1. Len(up) # 0 /\ Len(up) = 2 * (Len(a) - m)
      BY <2>2, <2>3, EmptySeq DEF Asked
    <3>2. m # Len(a)
      <4>1. \A n \in Nat : 2 * (n - n) = 0
        OBVIOUS
      <4> QED
        BY <2>3, <3>1, <4>1
    <3> QED
      BY <2>3, <3>2
  <2>5. up[1] = <<"invoke", a[m + 1]>>
    BY <2>3, <2>4, AskedFewer
  <2> QED
    BY <2>2, <2>5
<1>3. CASE s.phase = "failed"
  BY <1>3 DEF InStep
<1>4. CASE s.phase \in {"define", "waiting"}
  <2>1. Defines(s, cn, TRUE, D) /\ Rest(cn) = cn.up
    BY <1>4 DEF InStep, Rest
  <2>2. s.phase = "waiting" /\ cn.down = <<>> /\ cn.up = <<<<"define", s.def>>, <<"body", 0>>>>
    BY <1>4, <2>1 DEF Defines
  <2>3. cn.up[1] = <<"define", s.def>> /\ Len(cn.up) = 2
    BY <2>2
  <2>4. cn2.up = <<>>
    <3>1. cn2.up = SubSeq(cn.up, 3, 2)
      BY <2>3
    <3>2. PICK up \in Seq(Requests) : up = cn.up
      BY <1>1
    <3>3. SubSeq(up, 3, 2) = <<>>
      OBVIOUS
    <3> QED
      BY <3>1, <3>2, <3>3
  <2>5. PICK r : r = <<IF ok THEN "ok" ELSE "fail", s.def>>
    OBVIOUS
  <2>6. cn2.down = <<r>>
    <3>1. r \in Replies
      BY <2>5 DEF Replies, ClientStates
    <3>2. <<>> \o <<r>> = <<r>>
      BY <3>1
    <3> QED
      BY <2>2, <2>3, <2>5, <3>2
  <2>7. Rest(cn2) = <<>>
    BY <2>4 DEF Rest
  <2>8. cn2.down # <<>>
    BY <2>6
  <2>9. \A e \in Eids : e < s.def => e \in D2
    BY <2>1 DEF Defines
  <2>10. \/ cn2.down = <<<<"ok", s.def>>>> /\ s.def \in D2
         \/ cn2.down = <<<<"fail", s.def>>>>
    <3>1. CASE ok
      <4>1. cn2.down = <<<<"ok", s.def>>>>
        BY <2>5, <2>6, <3>1
      <4>2. cn.up[1][2] = s.def
        BY <2>3
      <4> QED
        BY <3>1, <4>1, <4>2
    <3>2. CASE ~ok
      BY <2>5, <2>6, <3>2
    <3> QED
      BY <3>1, <3>2
  <2>11. Defines(s, cn2, TRUE, D2)
    BY <2>1, <2>2, <2>7, <2>8, <2>9, <2>10 DEF Defines
  <2> QED
    BY <2>2, <2>11 DEF InStep
<1> QED
  BY <1>2, <1>3, <1>4 DEF ClientStates

(* A call is answered, by the function that is stored for this client.     *)
LEMMA InvocationAnswered ==
  ASSUME NEW s \in ClientStates, s.phase \notin {"new", "gone"}, NEW k,
         NEW cn \in Connections, NEW cn2 \in Connections, NEW D \in SUBSET Eids,
         NEW calls \in Nat, InStep(s, k, cn, TRUE, D, calls),
         cn.server = "served", cn.up # <<>>, cn.up[1][1] = "invoke",
         NEW D2 \in SUBSET Eids, D \subseteq D2,
         NEW r \in Seq(Replies), Len(r) = Parts[cn.up[1][2]],
         cn.up[1][2] \in D => \A i \in 1 .. Parts[cn.up[1][2]] :
           r[i] = Result(k, IF Len(cn.up) > 1 THEN cn.up[2][2] ELSE 0, i),
         cn2.server = "served", cn2.up = SubSeq(cn.up, 3, Len(cn.up)), cn2.down = cn.down \o r
  PROVE  InStep(s, k, cn2, TRUE, D2, calls)
<1>1. cn.up \in Seq(Requests) /\ cn.down \in Seq(Replies)
  BY DEF Connections
<1>2. s.phase \notin {"define", "waiting"}
  <2> SUFFICES ASSUME s.phase \in {"define", "waiting"} PROVE FALSE
    OBVIOUS
  <2>1. Defines(s, cn, TRUE, D) /\ Rest(cn) = cn.up
    BY DEF InStep, Rest
  <2>2. cn.up = <<<<"define", s.def>>, <<"body", 0>>>>
    BY <2>1 DEF Defines
  <2> QED
    BY <2>2
<1>3. CASE s.phase = "failed"
  BY <1>3 DEF InStep
<1>4. CASE s.phase = "ready"
  <2>1. PICK N \in [1 .. Len(s.asyncReaders) -> 1 .. calls],
             end \in [0 .. Len(s.asyncReaders) -> Nat], m \in 0 .. Len(s.asyncReaders) :
               Matched(s, k, cn, TRUE, N, end, m)
    BY <1>4 DEF InStep, Answers
  <2>2. PICK a \in Seq(Eids), up \in Seq(Requests) : a = s.asyncReaders /\ up = cn.up
    BY <1>1 DEF ClientStates
  <2>3. Asked(a, up, N, m) /\ m \in 0 .. Len(a) /\ Len(a) \in Nat
    BY <2>1, <2>2, LenProperties DEF Matched
  <2>4. m < Len(a)
    <3>1. Len(up) # 0 /\ Len(up) = 2 * (Len(a) - m)
      BY <2>2, <2>3, EmptySeq DEF Asked
    <3>2. m # Len(a)
      <4>1. \A n \in Nat : 2 * (n - n) = 0
        OBVIOUS
      <4> QED
        BY <2>3, <3>1, <4>1
    <3> QED
      BY <2>3, <3>2
  <2>5. up[1] = <<"invoke", a[m + 1]>> /\ up[2] = <<"body", N[m + 1]>> /\ Len(up) > 1
    BY <2>3, <2>4, AskedFewer
  <2>6. a[m + 1] \in Eids
    BY <2>3, <2>4, ElementOfSeq
  <2>7. cn.up[1][2] = a[m + 1] /\ (IF Len(cn.up) > 1 THEN cn.up[2][2] ELSE 0) = N[m + 1] /\ D = Eids
    BY <1>4, <2>2, <2>5 DEF InStep
  <2>8. Len(r) = Parts[a[m + 1]] /\ \A i \in 1 .. Parts[a[m + 1]] : r[i] = Result(k, N[m + 1], i)
    BY <2>6, <2>7
  <2>9. Answers(s, k, cn2, TRUE, calls)
    BY <2>1, <2>2, <2>4, <2>8, CallAnswered, ZenonT(30)
  <2> QED
    BY <1>4, <2>7, <2>9 DEF InStep
<1> QED
  BY <1>2, <1>3, <1>4 DEF ClientStates

(* The client behind connection k, if the server's answer leaves the        *)
(* requests left and writes toks, is in step with it.                      *)
AnswerInStep(k, left, toks, D, D2) ==
  \A s \in ClientStates, cn2 \in Connections :
    /\ s.phase \notin {"new", "gone"} /\ InStep(s, k, conns[k], TRUE, D, made)
    /\ cn2.server = "served" /\ cn2.up = left /\ cn2.down = conns[k].down \o toks
    => InStep(s, k, cn2, TRUE, D2, made)

(* A request is answered: the connection's own client, if it is there to   *)
(* see it, is in step with the answer, and others are not concerned.       *)
LEMMA ReplyInStep ==
  ASSUME ServerInv, ServerInv', ClientsInStep, alive, batch # <<>>, Head(batch) # Listener,
         NEW fd, fd = Head(batch)[1], NEW k, k = connAt[fd], NEW left, NEW toks \in Seq(Replies),
         Reply(fd, left, toks), UNCHANGED <<client, made, stale>>,
         \A f \in Fds : f # fd => cnetFns'[f] = cnetFns[f],
         NEW D \in SUBSET Eids, D = {e \in Eids : cnetFns[fd][e] = k},
         NEW D2 \in SUBSET Eids, D2 = {e \in Eids : cnetFns'[fd][e] = k},
         AnswerInStep(k, left, toks, D, D2)
  PROVE  ClientsInStep'
<1>1. TypeOK /\ TypeOK' /\ ConnectionPlaces
  BY DEF ServerInv
<1>2. fd \in Fds /\ fd \in Served /\ k \in 1 .. Len(conns) /\ conns[k].server = "served"
  BY EvaluateAt
<1>3. /\ UNCHANGED connAt /\ alive' \in Survives(k)
      /\ conns' = [conns EXCEPT ![k].up = left,
                                ![k].down = IF conns[k].open THEN @ \o toks ELSE @]
  BY DEF Reply
<1>4. conns \in Seq(Connections) /\ DOMAIN conns = 1 .. Len(conns) /\ conns[k] \in Connections
  BY <1>1, <1>2, LenProperties, ConnIs DEF TypeOK
<1>5. /\ conns'[k].server = "served" /\ conns'[k].up = left
      /\ conns[k].open => conns'[k].down = conns[k].down \o toks
      /\ \A i \in 1 .. Len(conns) : i # k => conns'[i] = conns[i]
  <2>1. PICK down : down = IF conns[k].open THEN conns[k].down \o toks ELSE conns[k].down
    OBVIOUS
  <2>2. conns' = [conns EXCEPT ![k] = [conns[k] EXCEPT !.up = left, !.down = down]]
    BY <1>2, <1>3, <1>4, <2>1
  <2> QED
    BY <1>2, <1>4, <2>1, <2>2 DEF Connections
<1>6. \A f \in Fds : connAt[f] = k <=> f = fd
  <2>1. k # 0
    BY <1>2
  <2> QED
    BY <1>1, <1>2, <2>1 DEF ConnectionPlaces, Served
<1>7. ASSUME NEW i \in 1 .. Len(conns), i # k
      PROVE  StaysInStep(i)
  BY <1>2, <1>3, <1>5, <1>7 DEF StaysInStep
<1>8. ASSUME NEW c \in Clients, client[c].phase \notin {"new", "gone"}, ClientInStep(c), client[c].conn = k
      PROVE  ClientInStep(c)'
  <2>1. /\ client[c] \in ClientStates /\ conns[k].open
        /\ InStep(client[c], k, conns[k], Live(k), Defined(k), made)
    BY <1>8, ClientFacts
  <2>2. Live(k) = TRUE
    BY <1>1, <1>2 DEF Live, TypeOK
  <2>3. Defined(k) = D
    BY <1>2, <1>6 DEF Defined
  <2>4. {e \in Eids : \A f \in Fds : connAt'[f] = k => cnetFns'[f][e] = k} = D2
    BY <1>2, <1>3, <1>6
  <2>5. (alive' /\ conns'[k].server # "closed") = TRUE
    BY <1>3, <1>5, <2>1 DEF Survives
  <2>6. conns'[k] \in Connections
    <3>1. conns' \in Seq(Connections) /\ k \in 1 .. Len(conns')
      <4>1. conns' \in Seq(Connections) /\ client'[c].conn <= Len(conns') /\ client'[c] = client[c]
        BY <1>1 DEF TypeOK
      <4>2. Len(conns') \in Nat
        BY <4>1, LenProperties
      <4> QED
        BY <1>2, <1>8, <4>1, <4>2
    <3> QED
      BY <1>2, <3>1, ElementOfSeq
  <2>7. PICK s \in ClientStates : s = client[c] /\ s.phase \notin {"new", "gone"} /\ s.conn = k
    BY <1>8, <2>1
  <2>8. InStep(s, k, conns'[k], TRUE, D2, made)
    BY <1>5, <2>1, <2>2, <2>3, <2>6, <2>7 DEF AnswerInStep
  <2>9. PICK L \in BOOLEAN : L = (alive' /\ conns'[k].server # "closed")
    BY <2>5
  <2>10. PICK E \in SUBSET Eids : E = {e \in Eids : \A f \in Fds : connAt'[f] = k => cnetFns'[f][e] = k}
    OBVIOUS
  <2>11. InStep(s, k, conns'[k], L, E, made') /\ client'[c] = s
    <3>1. L = TRUE /\ E = D2 /\ made' = made /\ client'[c] = s
      BY <2>4, <2>5, <2>7, <2>9, <2>10
    <3> QED
      BY <2>8, <3>1
  <2> QED
    BY <2>7, <2>9, <2>10, <2>11, ClientInStepIs, ZenonT(60)
<1> QED
  BY <1>7, <1>8, OwnConnection, ServerStepInStep

(* evaluateNetREPLRequest(). *)
LEMMA EvaluateInStep ==
  ASSUME ServerInv, ServerInv', ClientsInStep, alive, Evaluate
  PROVE  ClientsInStep'
<1> DEFINE fd == Head(batch)[1]
           k == connAt[fd]
           up == conns[k].up
           e == up[1][2]
           left == SubSeq(up, 3, Len(up))
           arg == IF Len(up) > 1 THEN up[2][2] ELSE 0
<1>1. /\ batch # <<>> /\ Head(batch) # Listener /\ UNCHANGED <<client, made, stale>>
  BY DEF Evaluate
<1>2. /\ fd \in Fds /\ k \in 1 .. Len(conns) /\ Whole(up, FALSE, conns[k].open)
      /\ up \in Seq(Requests) /\ conns[k].open \in BOOLEAN /\ TypeOK /\ conns[k] \in Connections
      /\ conns[k].server = "served"
  BY <1>1, EvaluateAt, ConnIs DEF ServerInv
<1>3. up # <<>> => e \in Eids /\ arg \in 0 .. MaxCalls
  BY <1>2, RequestBegins
<1>4. cnetFns \in [Fds -> [Eids -> 0 .. MaxConns]] /\ made \in Nat
  BY <1>2, BoundAssumption DEF TypeOK
<1>5. \/ Disconnect(fd)
      \/ /\ up # <<>> /\ up[1][1] = "define"
         /\ \E ok \in BOOLEAN : /\ cnetFns' = IF ok THEN prepare(fd, e) ELSE cnetFns
                                /\ Reply(fd, left, <<<<IF ok THEN "ok" ELSE "fail", e>>>>)
      \/ /\ up # <<>> /\ up[1][1] = "invoke" /\ UNCHANGED cnetFns
         /\ Reply(fd, left, [i \in 1 .. Parts[e] |-> <<"result", cnetFns[fd][e], arg, i>>])
  BY DEF Evaluate
<1>10. fd = Head(batch)[1] /\ k = connAt[fd]
  OBVIOUS
<1> HIDE DEF fd, k, e, left, arg
<1>6. CASE Disconnect(fd)
  BY <1>1, <1>6, <1>10, DisconnectInStep
<1>7. PICK D \in SUBSET Eids, D2 \in SUBSET Eids :
        /\ D = {f \in Eids : cnetFns[fd][f] = k} /\ D2 = {f \in Eids : cnetFns'[fd][f] = k}
  OBVIOUS
<1>8. ASSUME up # <<>>, up[1][1] = "define",
             NEW ok \in BOOLEAN, cnetFns' = IF ok THEN prepare(fd, e) ELSE cnetFns,
             Reply(fd, left, <<<<IF ok THEN "ok" ELSE "fail", e>>>>)
      PROVE  ClientsInStep'
  <2>1. PICK toks : toks = <<<<IF ok THEN "ok" ELSE "fail", e>>>>
    OBVIOUS
  <2>2. toks \in Seq(Replies)
    <3>1. <<IF ok THEN "ok" ELSE "fail", e>> \in Replies
      BY <1>3, <1>8 DEF Replies
    <3> QED
      BY <2>1, <3>1
  <2>3. /\ \A f \in Fds : f # fd => cnetFns'[f] = cnetFns[f]
        /\ D \subseteq D2 /\ (ok => e \in D2)
    <3>1. CASE ok
      <4>1. cnetFns' = [cnetFns EXCEPT ![fd][e] = k]
        BY <1>8, <1>10, <3>1 DEF prepare
      <4> QED
        BY <1>2, <1>3, <1>4, <1>7, <1>8, <4>1
    <3>2. CASE ~ok
      BY <1>7, <1>8, <3>2
    <3> QED
      BY <3>1, <3>2
  <2>4. ASSUME NEW s \in ClientStates, NEW cn2 \in Connections,
               s.phase \notin {"new", "gone"}, InStep(s, k, conns[k], TRUE, D, made),
               cn2.server = "served", cn2.up = left, cn2.down = conns[k].down \o toks
        PROVE  InStep(s, k, cn2, TRUE, D2, made)
    <3>1. PICK cn \in Connections : cn = conns[k]
      BY <1>2
    <3>2. /\ cn.up # <<>> /\ cn.up[1][1] = "define" /\ cn.server = "served" /\ cn.up[1][2] = e
          /\ cn2.up = SubSeq(cn.up, 3, Len(cn.up)) /\ InStep(s, k, cn, TRUE, D, made)
      BY <1>2, <1>8, <2>4, <3>1 DEF left, e
    <3>3. cn2.down = cn.down \o <<<<IF ok THEN "ok" ELSE "fail", cn.up[1][2]>>>>
      BY <2>1, <2>4, <3>1, <3>2
    <3>4. ok => cn.up[1][2] \in D2
      BY <2>3, <3>2
    <3> QED
      BY <1>4, <2>3, <2>4, <3>2, <3>3, <3>4, DefinitionAnswered
  <2>5. Reply(fd, left, toks)
    BY <1>8, <2>1
  <2>6. AnswerInStep(k, left, toks, D, D2)
    BY <2>4 DEF AnswerInStep
  <2> QED
    BY <1>1, <1>7, <1>10, <2>2, <2>3, <2>5, <2>6, ReplyInStep
<1>9. ASSUME up # <<>>, up[1][1] = "invoke", UNCHANGED cnetFns,
             Reply(fd, left, [i \in 1 .. Parts[e] |-> <<"result", cnetFns[fd][e], arg, i>>])
      PROVE  ClientsInStep'
  <2>1. PICK toks : toks = [i \in 1 .. Parts[e] |-> <<"result", cnetFns[fd][e], arg, i>>]
    OBVIOUS
  <2>2. /\ toks \in Seq(Replies) /\ Len(toks) = Parts[e]
        /\ e \in D => \A i \in 1 .. Parts[e] : toks[i] = Result(k, arg, i)
    <3>1. Parts[e] \in Nat
      BY <1>3, <1>9, PartAssumption
    <3>2. cnetFns[fd][e] \in 0 .. MaxConns
      BY <1>2, <1>3, <1>4, <1>9
    <3>3. \A i \in 1 .. Parts[e] : <<"result", cnetFns[fd][e], arg, i>> \in Replies
      BY <1>3, <1>9, <3>1, <3>2 DEF Replies
    <3>4. toks \in [1 .. Parts[e] -> Replies]
      BY <2>1, <3>3
    <3>5. toks \in Seq(Replies) /\ Len(toks) = Parts[e]
      BY <3>1, <3>4, SeqDef, LenProperties
    <3>6. e \in D => \A i \in 1 .. Parts[e] : toks[i] = Result(k, arg, i)
      BY <1>7, <2>1 DEF Result
    <3> QED
      BY <3>5, <3>6
  <2>3. D2 = D /\ \A f \in Fds : f # fd => cnetFns'[f] = cnetFns[f]
    BY <1>7, <1>9
  <2>4. ASSUME NEW s \in ClientStates, NEW cn2 \in Connections,
               s.phase \notin {"new", "gone"}, InStep(s, k, conns[k], TRUE, D, made),
               cn2.server = "served", cn2.up = left, cn2.down = conns[k].down \o toks
        PROVE  InStep(s, k, cn2, TRUE, D2, made)
    <3>1. PICK cn \in Connections : cn = conns[k]
      BY <1>2
    <3>2. /\ cn.up # <<>> /\ cn.up[1][1] = "invoke" /\ cn.server = "served" /\ cn.up[1][2] = e
          /\ cn2.up = SubSeq(cn.up, 3, Len(cn.up)) /\ InStep(s, k, cn, TRUE, D, made)
          /\ (IF Len(cn.up) > 1 THEN cn.up[2][2] ELSE 0) = arg
      BY <1>2, <1>9, <2>4, <3>1 DEF left, e, arg
    <3>3. cn2.down = cn.down \o toks
      BY <2>4, <3>1
    <3>4. Len(toks) = Parts[cn.up[1][2]]
      BY <2>2, <3>2
    <3>5. cn.up[1][2] \in D => \A i \in 1 .. Parts[cn.up[1][2]] :
            toks[i] = Result(k, IF Len(cn.up) > 1 THEN cn.up[2][2] ELSE 0, i)
      BY <2>2, <3>2
    <3> QED
      BY <1>4, <2>2, <2>3, <2>4, <3>2, <3>3, <3>4, <3>5, InvocationAnswered
  <2>5. Reply(fd, left, toks)
    BY <1>9, <2>1
  <2>6. AnswerInStep(k, left, toks, D, D2)
    BY <2>4 DEF AnswerInStep
  <2> QED
    BY <1>1, <1>7, <1>10, <2>2, <2>3, <2>5, <2>6, ReplyInStep
<1> QED
  BY <1>5, <1>6, <1>8, <1>9

-----------------------------------------------------------------------------
(* The clients' steps.                                                     *)

(* A client takes a step: it is in step with its connection as it leaves   *)
(* it, and the other clients are not concerned.                            *)
LEMMA OwnStepInStep ==
  ASSUME ServerInv, ServerInv', ClientsInStep, NEW c \in Clients, UNCHANGED serverVars,
         stale \subseteq stale', made' \in Nat, made <= made',
         NEW s \in ClientStates, client' = [client EXCEPT ![c] = s], s.phase # "new",
         \A i \in 1 .. Len(conns) : conns[i].owner # c => conns'[i] = conns[i],
         NEW live \in BOOLEAN, live = (alive /\ conns'[s.conn].server # "closed"),
         s.phase # "gone" /\ c \notin stale' =>
           InStep(s, s.conn, conns'[s.conn], live, Defined(s.conn), made')
  PROVE  ClientsInStep'
<1>1. client'[c] = s /\ \A d \in Clients \ {c} : client'[d] = client[d]
  BY ClientIs DEF ServerInv
<1>2. UNCHANGED <<alive, connAt, cnetFns>>
  BY DEF serverVars
<1>3. ASSUME c \notin stale'
      PROVE  ClientInStep(c)'
  <2>0. PICK k : k = s.conn
    OBVIOUS
  <2>1. PICK D \in SUBSET Eids : k = s.conn /\ D = Defined(k)
    BY <2>0 DEF Defined
  <2>2. D = {e \in Eids : \A fd \in Fds : connAt'[fd] = k => cnetFns'[fd][e] = k}
    BY <1>2, <2>1 DEF Defined
  <2>3. live = (alive' /\ conns'[k].server # "closed")
    BY <1>2, <2>1
  <2>4. s.phase \notin {"new", "gone"} => InStep(s, k, conns'[k], live, D, made')
    BY <1>3, <2>1
  <2> QED
    BY <1>1, <2>1, <2>2, <2>3, <2>4, ClientInStepIs
<1> QED
  BY <1>1, <1>3, OthersInStep

(* The client has failed: it keeps its callbacks and what it has read.     *)
LEMMA FailedInStep ==
  ASSUME NEW s \in ClientStates, s.phase \notin {"new", "gone"}, NEW k, NEW cn, NEW live,
         NEW D, NEW calls \in Nat, InStep(s, k, cn, live, D, calls)
  PROVE  \A e \in Eids : s.part[e] # <<>> => s.ks[e] # <<>>
<1>1. CASE s.phase \in {"define", "waiting"}
  BY <1>1 DEF InStep, Defines, Idle
<1>2. CASE s.phase = "failed"
  BY <1>2 DEF InStep
<1>3. CASE s.phase = "ready"
  <2>1. PICK N \in [1 .. Len(s.asyncReaders) -> 1 .. calls],
             end \in [0 .. Len(s.asyncReaders) -> Nat], m \in 0 .. Len(s.asyncReaders) :
               Matched(s, k, cn, live, N, end, m)
    BY <1>3 DEF InStep, Answers
  <2>2. PICK a \in Seq(Eids), ks \in [Eids -> Seq(1 .. MaxCalls)] : a = s.asyncReaders /\ ks = s.ks
    BY DEF ClientStates
  <2>3. Waiting(a, ks, N) /\ N \in [1 .. Len(a) -> Nat]
    BY <2>1, <2>2 DEF Matched
  <2>4. a # <<>> => ks[Head(a)] # <<>>
    BY <2>3, OldestCall
  <2>5. PartRead(s)
    BY <2>1 DEF Matched
  <2> QED
    BY <2>2, <2>4, <2>5 DEF PartRead
<1> QED
  BY <1>1, <1>2, <1>3 DEF ClientStates

(* That is all that is asked of a client that has failed. *)
LEMMA HasFailed ==
  ASSUME NEW s, s.phase = "failed", \A e \in Eids : s.part[e] # <<>> => s.ks[e] # <<>>
  PROVE  \A k, cn, live, D, calls : InStep(s, k, cn, live, D, calls)
BY DEF InStep

(* A new connection, on which only the version is sent.                    *)
LEMMA FreshInStep ==
  ASSUME NEW s \in ClientStates, s.phase = "define", Idle(s), s.def = 1,
         NEW cn \in Connections, NEW v, cn.up = Version(v), cn.down = <<>>, cn.server = "queued",
         NEW k, NEW live, NEW D, NEW calls
  PROVE  InStep(s, k, cn, live, D, calls)
<1>1. Tail(Version(v)) = <<>>
  BY DEF Version
<1>2. \A e \in Eids : ~(e < 1)
  BY EidAssumption
<1>3. Rest(cn) = <<>>
  BY <1>1 DEF Rest
<1> QED
  BY <1>2, <1>3 DEF InStep, Defines

(* What follows a request that the server reads.                           *)
LEMMA RequestsFollow ==
  ASSUME NEW up \in Seq(Requests), up # <<>>, NEW t \in Seq(Requests)
  PROVE  Tail(up \o t) = Tail(up) \o t
<1>1. PICK n \in Nat \ {0}, l \in Nat : n = Len(up) /\ l = Len(t)
  BY TailFacts, LenProperties
<1>2. /\ up \o t \in Seq(Requests) /\ Len(up \o t) = n + l
      /\ \A i \in 1 .. n + l : (up \o t)[i] = IF i <= n THEN up[i] ELSE t[i - n]
  BY <1>1, ConcatProperties
<1>3. up \o t # <<>>
  BY <1>1, <1>2, EmptySeq
<1>4. /\ Tail(up \o t) \in Seq(Requests) /\ Len(Tail(up \o t)) = n + l - 1
      /\ \A i \in 1 .. n + l - 1 : Tail(up \o t)[i] = (up \o t)[i + 1]
  BY <1>2, <1>3, TailFacts
<1>5. /\ Tail(up) \in Seq(Requests) /\ Len(Tail(up)) = n - 1
      /\ \A i \in 1 .. n - 1 : Tail(up)[i] = up[i + 1]
  BY <1>1, TailFacts
<1>6. /\ Tail(up) \o t \in Seq(Requests) /\ Len(Tail(up) \o t) = (n - 1) + l
      /\ \A i \in 1 .. (n - 1) + l : (Tail(up) \o t)[i] = IF i <= n - 1 THEN Tail(up)[i] ELSE t[i - (n - 1)]
  BY <1>1, <1>5, ConcatProperties
<1>7. ASSUME NEW i \in 1 .. n + l - 1
      PROVE  Tail(up \o t)[i] = (Tail(up) \o t)[i]
  <2>1. i \in 1 .. (n - 1) + l /\ i + 1 \in 1 .. n + l /\ (i + 1) - n = i - (n - 1)
    OBVIOUS
  <2>2. CASE i <= n - 1
    <3>1. i + 1 <= n /\ i \in 1 .. n - 1
      BY <2>2
    <3> QED
      BY <1>2, <1>4, <1>5, <1>6, <2>1, <2>2, <3>1
  <2>3. CASE ~(i <= n - 1)
    <3>1. ~(i + 1 <= n)
      BY <2>3
    <3> QED
      BY <1>2, <1>4, <1>6, <2>1, <2>3, <3>1
  <2> QED
    BY <2>2, <2>3
<1>8. (n - 1) + l = n + l - 1
  OBVIOUS
<1> QED
  BY <1>4, <1>6, <1>7, <1>8, SeqEqual

(* A definition is sent. *)
LEMMA DefinitionSent ==
  ASSUME NEW s \in ClientStates, s.phase = "define", NEW k, NEW cn \in Connections,
         NEW cn2 \in Connections, NEW D, NEW calls \in Nat, InStep(s, k, cn, TRUE, D, calls),
         cn.server = "queued" => cn.up # <<>>, cn2.server = cn.server, cn2.down = cn.down,
         cn2.up = cn.up \o <<<<"define", s.def>>, <<"body", 0>>>>,
         NEW s2 \in ClientStates, s2.phase = "waiting", s2.def = s.def,
         s2.asyncReaders = s.asyncReaders, s2.ks = s.ks, s2.part = s.part
  PROVE  InStep(s2, k, cn2, TRUE, D, calls)
<1>1. Defines(s, cn, TRUE, D)
  BY DEF InStep
<1>2. cn.down = <<>> /\ Rest(cn) = <<>>
  BY <1>1 DEF Defines
<1>3. PICK up \in Seq(Requests), r \in Requests, b \in Requests :
         up = cn.up /\ r = <<"define", s.def>> /\ b = <<"body", 0>>
  <2>1. cn.up \in Seq(Requests)
    BY DEF Connections
  <2>2. <<"define", s.def>> \in Requests /\ <<"body", 0>> \in Requests
    <3>1. s.def \in Eids /\ 0 \in 0 .. MaxCalls
      BY BoundAssumption DEF ClientStates
    <3>2. <<"define", s.def>> \in {"define", "invoke"} \X Eids
      BY <3>1
    <3>3. <<"body", 0>> \in {"body"} \X (0 .. MaxCalls)
      BY <3>1
    <3> QED
      BY <3>2, <3>3 DEF Requests
  <2> QED
    BY <2>1, <2>2
<1>4. Rest(cn2) = <<r, b>>
  <2>1. CASE cn.server = "queued"
    <3>1. up # <<>> /\ Tail(up) = <<>>
      BY <1>2, <1>3, <2>1 DEF Rest
    <3>2. Tail(up \o <<r, b>>) = <<r, b>>
      <4>0. <<r, b>> \in Seq(Requests)
        OBVIOUS
      <4>1. PICK t \in Seq(Requests) : t = <<r, b>>
        BY <4>0
      <4>2. Tail(up \o t) = Tail(up) \o t
        BY <3>1, RequestsFollow
      <4>3. <<>> \o t = t
        BY ConcatEmptySeq
      <4> QED
        BY <3>1, <4>1, <4>2, <4>3
    <3> QED
      BY <1>3, <2>1, <3>2 DEF Rest
  <2>2. CASE cn.server # "queued"
    <3>1. up = <<>>
      BY <1>2, <1>3, <2>2 DEF Rest
    <3>2. <<>> \o <<r, b>> = <<r, b>>
      OBVIOUS
    <3> QED
      BY <1>3, <2>2, <3>1, <3>2 DEF Rest
  <2> QED
    BY <2>1, <2>2
<1>5. Defines(s2, cn2, TRUE, D)
  BY <1>1, <1>2, <1>3, <1>4 DEF Defines, Idle
<1> QED
  BY <1>5 DEF InStep

(* The answer to a definition is read: the next is sent, or all are there. *)
LEMMA DefinitionRead ==
  ASSUME NEW s \in ClientStates, s.phase = "waiting", NEW k, NEW cn \in Connections,
         NEW cn2 \in Connections, NEW live \in BOOLEAN, NEW D \in SUBSET Eids, NEW calls \in Nat,
         InStep(s, k, cn, live, D, calls), cn.down # <<>>, Head(cn.down)[1] = "ok",
         cn2.server = cn.server, cn2.up = cn.up, cn2.down = Tail(cn.down),
         NEW s2 \in ClientStates, s2.asyncReaders = s.asyncReaders, s2.ks = s.ks, s2.part = s.part,
         s2.phase = IF Last(s.def) THEN "ready" ELSE "define",
         ~Last(s.def) => s2.def = s.def + 1
  PROVE  InStep(s2, k, cn2, live, D, calls)
<1>1. Defines(s, cn, live, D)
  BY DEF InStep
<1>2. cn.server # "queued" /\ (live => cn.up = <<>>) /\ Idle(s)
  BY <1>1 DEF Defines, Rest
<1>3. cn.down = <<<<"ok", s.def>>>> /\ s.def \in D
  BY <1>1 DEF Defines
<1>4. cn2.down = <<>>
  BY <1>3
<1>5. Idle(s2)
  BY <1>2 DEF Idle
<1>6. \A e \in Eids : e <= s.def => e \in D
  <2>1. s.def \in Int /\ \A e \in Eids : e \in Int
    BY EidAssumption DEF ClientStates
  <2>2. \A e \in Eids : e <= s.def => e < s.def \/ e = s.def
    BY <2>1
  <2> QED
    BY <1>1, <1>3, <2>2 DEF Defines
<1>7. CASE Last(s.def)
  <2>1. D = Eids
    BY <1>6, <1>7 DEF Last
  <2>2. Answers(s2, k, cn2, live, calls)
    <3>1. s2.asyncReaders = <<>> /\ Len(s2.asyncReaders) = 0
      BY <1>5 DEF Idle
    <3>2. PICK N \in [1 .. 0 -> 1 .. calls], end \in [0 .. 0 -> Nat] : end[0] = 0
      <4>1. [j \in 1 .. 0 |-> j] \in [1 .. 0 -> 1 .. calls]
        OBVIOUS
      <4>2. [j \in 0 .. 0 |-> 0] \in [0 .. 0 -> Nat] /\ [j \in 0 .. 0 |-> 0][0] = 0
        OBVIOUS
      <4> QED
        BY <4>1, <4>2
    <3>3. Waiting(<<>>, s2.ks, N)
      <4>1. Readers(<<>>, 0) = {} /\ \A e \in Eids : Readers(<<>>, e) = {}
        BY DEF Readers
      <4>2. Range(<<>>) = {} /\ Increasing(<<>>)
        BY DEF Range, Increasing
      <4>3. Increasing(N)
        BY DEF Increasing
      <4> QED
        BY <1>5, <4>1, <4>2, <4>3 DEF Idle, Waiting
    <3>4. PartRead(s2)
      BY <1>5 DEF Idle, PartRead
    <3>5. Ends(<<>>, end)
      BY <3>2 DEF Ends
    <3>6. Arrived(<<>>, k, <<>>, N, end, 0)
      BY <3>2 DEF Arrived
    <3>7. live => Asked(<<>>, cn2.up, N, 0)
      BY <1>2 DEF Asked
    <3>8. Stream(s2, cn2.down) = <<>>
      BY <1>4, <3>1 DEF Stream
    <3>9. Matched(s2, k, cn2, live, N, end, 0)
      BY <3>1, <3>3, <3>4, <3>5, <3>6, <3>7, <3>8 DEF Matched
    <3>10. PICK n : n = Len(s2.asyncReaders) /\ n = 0
      BY <3>1
    <3>11. N \in [1 .. n -> 1 .. calls] /\ end \in [0 .. n -> Nat] /\ 0 \in 0 .. n
      BY <3>10
    <3> QED
      BY <3>9, <3>10, <3>11 DEF Answers
  <2> QED
    BY <1>2, <1>7, <2>1, <2>2 DEF InStep
<1>8. CASE ~Last(s.def)
  <2>1. \A e \in Eids : e < s2.def => e \in D
    <3>1. \A e \in Eids : e < s.def + 1 => e <= s.def
      <4>1. s.def \in Int /\ \A e \in Eids : e \in Int
        BY EidAssumption DEF ClientStates
      <4> QED
        BY <4>1
    <3> QED
      BY <1>6, <1>8, <3>1
  <2>2. Defines(s2, cn2, live, D)
    BY <1>2, <1>4, <1>5, <1>8, <2>1 DEF Defines, Rest
  <2> QED
    BY <1>8, <2>2 DEF InStep
<1> QED
  BY <1>7, <1>8

(* A client ends, or finds that the server has ended.                      *)
LEMMA FailsInStep ==
  ASSUME ServerInv, ServerInv', ClientsInStep, NEW c \in Clients,
         NEW phase \in {"failed", "gone"}, client' = [client EXCEPT ![c].phase = phase],
         phase = "failed" => client[c].phase \notin {"new", "gone"},
         UNCHANGED <<serverVars, stale, made>>,
         \A i \in 1 .. Len(conns) : conns[i].owner # c => conns'[i] = conns[i]
  PROVE  ClientsInStep'
<1>1. TypeOK
  BY DEF ServerInv
<1>2. PICK s \in ClientStates :
           /\ client' = [client EXCEPT ![c] = s] /\ s.phase = phase
           /\ s.ks = client[c].ks /\ s.part = client[c].part
  <2>1. PICK s : s = [client[c] EXCEPT !.phase = phase]
    OBVIOUS
  <2>2. client' = [client EXCEPT ![c] = s]
    BY <1>1, <2>1, ClientIs
  <2>3. /\ s \in ClientStates /\ s.phase = phase
        /\ s.ks = client[c].ks /\ s.part = client[c].part
    BY <1>1, <2>1, ClientIs DEF ClientStates
  <2> QED
    BY <2>2, <2>3
<1>3. made' \in Nat /\ made <= made'
  BY <1>1, BoundAssumption DEF TypeOK
<1>4. PICK live \in BOOLEAN : live = (alive /\ conns'[s.conn].server # "closed")
  BY <1>1 DEF TypeOK
<1>5. ASSUME s.phase # "gone", c \notin stale'
      PROVE  InStep(s, s.conn, conns'[s.conn], live, Defined(s.conn), made')
  <2>1. ClientInStep(c) /\ client[c].phase \notin {"new", "gone"}
    BY <1>2, <1>5 DEF ClientsInStep
  <2>2. /\ client[c] \in ClientStates /\ made \in Nat
        /\ InStep(client[c], client[c].conn, conns[client[c].conn], Live(client[c].conn),
                  Defined(client[c].conn), made)
    BY <2>1, ClientFacts
  <2>3. \A e \in Eids : s.part[e] # <<>> => s.ks[e] # <<>>
    BY <1>2, <2>1, <2>2, FailedInStep
  <2>4. s.phase = "failed"
    BY <1>2, <1>5
  <2> QED
    BY <2>3, <2>4, HasFailed
<1> QED
  BY <1>2, <1>3, <1>4, <1>5, OwnStepInStep

(* makeConnection(). *)
LEMMA ConnectInStep ==
  ASSUME ServerInv, ServerInv', ClientsInStep, NEW c \in Clients, Connect(c)
  PROVE  ClientsInStep'
<1>1. TypeOK /\ conns \in Seq(Connections) /\ Len(conns) \in Nat
  BY LenProperties DEF ServerInv, TypeOK
<1>2. client[c].phase = "new" /\ UNCHANGED <<serverVars, made, stale>> /\ Len(conns) < MaxConns
  BY DEF Connect
<1>3. ASSUME NEW v \in Versions, conns' = Append(conns, NewConn(c, Version(v), TRUE)),
             client' = [client EXCEPT ![c].phase = "define", ![c].conn = Len(conns) + 1]
      PROVE  ClientsInStep'
  <2>1. PICK k : k = Len(conns) + 1
    OBVIOUS
  <2>2. PICK cn \in Connections : /\ cn = NewConn(c, Version(v), TRUE) /\ cn.server = "queued"
                                  /\ cn.up = Version(v) /\ cn.down = <<>>
    BY VersionWhole, NewConnIs, ZenonT(60)
  <2>3. conns'[k] = cn /\ \A i \in 1 .. Len(conns) : conns'[i] = conns[i]
    <3>1. conns' = Append(conns, cn)
      BY <1>3, <2>2
    <3> QED
      BY <1>1, <2>1, <3>1, AppendFacts
  <2>4. PICK s : s = [client[c] EXCEPT !.phase = "define", !.conn = k]
    OBVIOUS
  <2>5. client' = [client EXCEPT ![c] = s]
    BY <1>1, <1>3, <2>1, <2>4, ClientIs
  <2>6. /\ s \in ClientStates /\ s.phase = "define" /\ s.conn = k /\ s.def = client[c].def
        /\ s.asyncReaders = client[c].asyncReaders /\ s.ks = client[c].ks /\ s.part = client[c].part
    <3>1. k \in 0 .. MaxConns
      BY <1>1, <1>2, <2>1, BoundAssumption
    <3> QED
      BY <1>1, <2>4, <3>1, ClientIs DEF ClientStates
  <2>7. made' \in Nat /\ made <= made'
    BY <1>1, <1>2, BoundAssumption DEF TypeOK
  <2>8. PICK live \in BOOLEAN : live = (alive /\ conns'[s.conn].server # "closed")
    BY <1>1 DEF TypeOK
  <2>9. ASSUME c \notin stale'
        PROVE  InStep(s, s.conn, conns'[s.conn], live, Defined(s.conn), made')
    <3>1. client[c] = NewClient
      BY <1>2, <2>9 DEF ClientsInStep, ClientInStep
    <3>2. s.def = 1 /\ Idle(s)
      BY <2>6, <3>1 DEF NewClient, Idle
    <3>3. conns'[s.conn] = cn
      BY <2>3, <2>6
    <3> QED
      BY <2>2, <2>6, <3>2, <3>3, FreshInStep
  <2> QED
    BY <1>2, <2>3, <2>5, <2>6, <2>7, <2>8, <2>9, OwnStepInStep
<1>4. ASSUME conns' = Append(conns, NewConn(c, <<>>, FALSE)),
             client' = [client EXCEPT ![c].phase = "gone"]
      PROVE  ClientsInStep'
  <2>1. PICK none \in Seq(Requests) : none = <<>>
    <3>1. <<>> \in Seq(Requests)
      OBVIOUS
    <3> QED
      BY <3>1
  <2>2. PICK cn \in Connections : cn = NewConn(c, <<>>, FALSE)
    BY <2>1, NewConnIs
  <2>3. \A i \in 1 .. Len(conns) : conns'[i] = conns[i]
    BY <1>1, <1>4, <2>2, AppendFacts
  <2> QED
    BY <1>2, <1>4, <2>3, FailsInStep
<1> QED
  BY <1>3, <1>4 DEF Connect

(* reconnect(): where no callback waits, nothing of the old connection is  *)
(* left that could be taken for a result of the new one.                   *)
LEMMA ReconnectInStep ==
  ASSUME ServerInv, ServerInv', ClientsInStep, NEW c \in Clients, Reconnect(c)
  PROVE  ClientsInStep'
<1>1. TypeOK /\ conns \in Seq(Connections) /\ DOMAIN conns = 1 .. Len(conns) /\ Len(conns) \in Nat
  BY LenProperties DEF ServerInv, TypeOK
<1>2. /\ client[c].phase \in {"ready", "failed"} /\ Len(conns) < MaxConns
      /\ UNCHANGED <<serverVars, made>>
      /\ conns' = Append([conns EXCEPT ![client[c].conn].open = FALSE], NewConn(c, Version(Good), TRUE))
      /\ client' = [client EXCEPT ![c].phase = "define", ![c].conn = Len(conns) + 1,
                                  ![c].def = 1, ![c].asyncReaders = <<>>]
      /\ stale' = IF \E e \in Eids : client[c].ks[e] # <<>> THEN stale \union {c} ELSE stale
  BY DEF Reconnect
<1>3. PICK j \in 1 .. Len(conns) : j = client[c].conn /\ conns[j].owner = c
  BY <1>2, OwnConnection
<1>4. PICK old \in Connections : old = [conns[j] EXCEPT !.open = FALSE]
  <2>1. PICK old : old = [conns[j] EXCEPT !.open = FALSE]
    OBVIOUS
  <2>2. old \in Connections
    BY <1>1, <2>1, ConnIs DEF Connections
  <2> QED
    BY <2>1, <2>2
<1>5. PICK cs : cs = [conns EXCEPT ![j] = old]
  OBVIOUS
<1>6. /\ cs \in Seq(Connections) /\ Len(cs) = Len(conns)
      /\ \A i \in 1 .. Len(conns) : i # j => cs[i] = conns[i]
  BY <1>1, <1>3, <1>5, ExceptSeq
<1>7. PICK cn \in Connections : /\ cn = NewConn(c, Version(Good), TRUE) /\ cn.server = "queued"
                                /\ cn.up = Version(Good) /\ cn.down = <<>>
  <2>1. PICK toks \in Seq(Requests) : toks = Version(Good)
    BY VersionWhole DEF Versions
  <2>2. PICK cn : cn = NewConn(c, toks, TRUE)
    OBVIOUS
  <2>3. cn \in Connections /\ cn.server = "queued" /\ cn.up = toks /\ cn.down = <<>>
    BY <2>2, NewConnIs
  <2>4. cn = NewConn(c, Version(Good), TRUE)
    BY <2>1, <2>2
  <2> QED
    BY <2>1, <2>3, <2>4
<1>8. PICK k : k = Len(conns) + 1
  OBVIOUS
<1>9. conns'[k] = cn /\ \A i \in 1 .. Len(conns) : i # j => conns'[i] = conns[i]
  <2>1. conns' = Append(cs, cn)
    BY <1>1, <1>2, <1>3, <1>4, <1>5, <1>7, ConnIs
  <2> QED
    BY <1>6, <1>8, <2>1, AppendFacts
<1>10. PICK s : s = [client[c] EXCEPT !.phase = "define", !.conn = k, !.def = 1, !.asyncReaders = <<>>]
  OBVIOUS
<1>11. client' = [client EXCEPT ![c] = s]
  BY <1>1, <1>2, <1>8, <1>10, ClientIs
<1>12. /\ s \in ClientStates /\ s.phase = "define" /\ s.conn = k /\ s.def = 1
       /\ s.asyncReaders = <<>> /\ s.ks = client[c].ks /\ s.part = client[c].part
  <2>1. k \in 0 .. MaxConns
    BY <1>1, <1>2, <1>8, BoundAssumption
  <2>2. 1 \in Eids /\ <<>> \in Seq(Eids)
    BY EidAssumption
  <2> QED
    BY <1>1, <1>10, <2>1, <2>2, ClientIs DEF ClientStates
<1>13. made' \in Nat /\ made <= made' /\ stale \subseteq stale'
  BY <1>1, <1>2, BoundAssumption DEF TypeOK
<1>14. PICK live \in BOOLEAN : live = (alive /\ conns'[s.conn].server # "closed")
  BY <1>1 DEF TypeOK
<1>15. ASSUME c \notin stale'
       PROVE  InStep(s, s.conn, conns'[s.conn], live, Defined(s.conn), made')
  <2>1. c \notin stale /\ \A e \in Eids : client[c].ks[e] = <<>>
    BY <1>2, <1>15
  <2>2. ClientInStep(c) /\ client[c].phase \notin {"new", "gone"}
    BY <1>2, <2>1 DEF ClientsInStep
  <2>3. /\ client[c] \in ClientStates /\ made \in Nat
        /\ InStep(client[c], client[c].conn, conns[client[c].conn], Live(client[c].conn),
                  Defined(client[c].conn), made)
    BY <2>2, ClientFacts
  <2>4. \A e \in Eids : client[c].part[e] # <<>> => client[c].ks[e] # <<>>
    BY <2>2, <2>3, FailedInStep
  <2>5. Idle(s)
    BY <1>12, <2>1, <2>4 DEF Idle
  <2>6. conns'[s.conn] = cn
    BY <1>9, <1>12
  <2> QED
    BY <1>7, <1>12, <2>5, <2>6, FreshInStep
<1>16. \A i \in 1 .. Len(conns) : conns[i].owner # c => conns'[i] = conns[i]
  BY <1>3, <1>9
<1>17. s.phase # "new"
  BY <1>12
<1>18. UNCHANGED serverVars
  BY <1>2
<1> QED
  BY <1>11, <1>12, <1>13, <1>14, <1>15, <1>16, <1>17, <1>18, OwnStepInStep

(* The client's process ends. *)
LEMMA ExitInStep ==
  ASSUME ServerInv, ServerInv', ClientsInStep, NEW c \in Clients, Exit(c)
  PROVE  ClientsInStep'
<1>1. client' = [client EXCEPT ![c].phase = "gone"] /\ UNCHANGED <<serverVars, stale, made>>
  BY DEF Exit
<1>2. DOMAIN conns = 1 .. Len(conns)
  BY LenProperties DEF ServerInv, TypeOK
<1>3. \A i \in 1 .. Len(conns) : conns[i].owner # c => conns'[i] = conns[i]
  BY <1>2 DEF Exit
<1> QED
  BY <1>1, <1>3, FailsInStep

(* A request: a definition in initSession(), a call after it. *)
LEMMA SendInStep ==
  ASSUME ServerInv, ServerInv', ClientsInStep, NEW c \in Clients, Send(c)
  PROVE  ClientsInStep'
<1> DEFINE s0 == client[c]
           define == s0.phase = "define"
<1>1. TypeOK /\ conns \in Seq(Connections) /\ DOMAIN conns = 1 .. Len(conns) /\ made \in 0 .. MaxCalls
  BY LenProperties DEF ServerInv, TypeOK
<1>2. /\ define \/ (s0.phase = "ready" /\ made < MaxCalls)
      /\ s0.phase \notin {"new", "gone"} /\ UNCHANGED <<serverVars, stale>>
  BY DEF Send
<1>3. PICK k \in 1 .. Len(conns) :
        /\ k = s0.conn /\ conns[k].owner = c
        /\ conns[k].server # "closed" => Whole(conns[k].up, conns[k].server = "queued", TRUE)
  BY <1>2, OwnConnection
<1>4. CASE PeerGone(c)
  <2>1. UNCHANGED <<conns, made>> /\ client' = [client EXCEPT ![c].phase = "failed"]
    BY <1>4 DEF Send
  <2> QED
    BY <1>2, <2>1, FailsInStep
<1>5. CASE ~PeerGone(c)
  <2>1. alive /\ conns[k].server # "closed" /\ conns[k] \in Connections
    BY <1>1, <1>3, <1>5, ConnIs DEF PeerGone, Up
  <2>2. PICK e \in IF define THEN {s0.def} ELSE Eids :
          /\ conns' = [conns EXCEPT ![k].up = @ \o (IF define THEN <<<<"define", e>>, <<"body", 0>>>>
                                                    ELSE <<<<"invoke", e>>, <<"body", made + 1>>>>)]
          /\ made' = IF define THEN made ELSE made + 1
          /\ client' = [client EXCEPT ![c] =
                          IF define THEN [s0 EXCEPT !.phase = "waiting"]
                          ELSE [s0 EXCEPT !.ks[e] = Append(@, made + 1),
                                          !.asyncReaders = Append(@, e)]]
    BY <1>3, <1>5 DEF Send
  <2>3. e \in Eids /\ conns[k].up \in Seq(Requests)
    BY <1>1, <1>3, <2>2, ClientIs, ConnIs
  <2>4. PICK toks : toks = IF define THEN <<<<"define", e>>, <<"body", 0>>>>
                           ELSE <<<<"invoke", e>>, <<"body", made + 1>>>>
    OBVIOUS
  <2>5. ~define => made + 1 \in 1 .. MaxCalls
    BY <1>1, <1>2, BoundAssumption
  <2>6. toks \in Seq(Requests)
    <3>1. CASE define
      <4>1. <<"define", e>> \in Requests /\ <<"body", 0>> \in Requests
        BY <2>3, BoundAssumption DEF Requests
      <4> QED
        BY <2>4, <3>1, <4>1
    <3>2. CASE ~define
      <4>1. <<"invoke", e>> \in Requests /\ <<"body", made + 1>> \in Requests
        BY <2>3, <2>5, <3>2 DEF Requests
      <4> QED
        BY <2>4, <3>2, <4>1
    <3> QED
      BY <3>1, <3>2
  <2>7. PICK up \in Seq(Requests) : up = conns[k].up \o toks
    BY <2>3, <2>6, ConcatProperties
  <2>8. PICK cn : cn = [conns[k] EXCEPT !.up = up]
    OBVIOUS
  <2>9. /\ cn \in Connections /\ cn.server = conns[k].server /\ cn.down = conns[k].down
        /\ cn.up = up
    BY <2>1, <2>7, <2>8 DEF Connections
  <2>10. conns'[k] = cn /\ \A i \in 1 .. Len(conns) : i # k => conns'[i] = conns[i]
    <3>1. conns' = [conns EXCEPT ![k] = cn]
      BY <1>1, <2>2, <2>4, <2>7, <2>8
    <3> QED
      BY <1>1, <3>1
  <2>11. \A i \in 1 .. Len(conns) : conns[i].owner # c => conns'[i] = conns[i]
    BY <1>3, <2>10
  <2>12. (alive /\ conns'[k].server # "closed") = TRUE /\ Live(k) = TRUE
    <3>1. alive \in BOOLEAN
      BY <1>1 DEF TypeOK
    <3> QED
      BY <2>1, <2>9, <2>10, <3>1 DEF Live
  <2>13. c \notin stale' => InStep(s0, k, conns[k], TRUE, Defined(k), made)
    <3>1. ASSUME c \notin stale' PROVE ClientInStep(c)
      BY <1>2, <3>1 DEF ClientsInStep
    <3> QED
      BY <1>2, <1>3, <2>12, <3>1, ClientFacts
  <2>14. s0 \in ClientStates /\ made \in Nat
    BY <1>1, ClientIs, BoundAssumption
  <2>15. CASE define
    <3>1. PICK s : s = [s0 EXCEPT !.phase = "waiting"]
      OBVIOUS
    <3>2. /\ s \in ClientStates /\ s.phase = "waiting" /\ s.conn = k /\ s.def = s0.def
          /\ s.asyncReaders = s0.asyncReaders /\ s.ks = s0.ks /\ s.part = s0.part
      BY <1>3, <2>14, <3>1 DEF ClientStates
    <3>3. client' = [client EXCEPT ![c] = s] /\ made' = made
      BY <2>2, <2>15, <3>1
    <3>4. cn.up = conns[k].up \o <<<<"define", s0.def>>, <<"body", 0>>>>
      BY <2>2, <2>4, <2>7, <2>9, <2>15
    <3>5. conns[k].server = "queued" => conns[k].up # <<>>
      BY <1>3 DEF Whole
    <3>6. c \notin stale' => InStep(s, k, cn, TRUE, Defined(k), made)
      BY <2>1, <2>9, <2>13, <2>14, <2>15, <3>2, <3>4, <3>5, DefinitionSent
    <3>7. s.phase # "new" /\ made' \in Nat /\ made <= made' /\ stale \subseteq stale'
      BY <1>2, <2>14, <3>2, <3>3
    <3>8. PICK live \in BOOLEAN : live = (alive /\ conns'[s.conn].server # "closed") /\ live = TRUE
      BY <2>12, <3>2
    <3>9. c \notin stale' => InStep(s, s.conn, conns'[s.conn], live, Defined(s.conn), made')
      BY <2>10, <3>2, <3>3, <3>6, <3>8
    <3> QED
      BY <1>2, <2>11, <3>2, <3>3, <3>7, <3>8, <3>9, OwnStepInStep
  <2>16. CASE ~define
    <3>0. s0.phase = "ready" /\ made + 1 \in 1 .. MaxCalls
      BY <1>2, <2>5, <2>16
    <3>1. PICK s : s = [s0 EXCEPT !.ks[e] = Append(s0.ks[e], made + 1),
                                  !.asyncReaders = Append(s0.asyncReaders, e)]
      OBVIOUS
    <3>2. /\ s \in ClientStates /\ s.phase = "ready" /\ s.conn = k /\ s.part = s0.part
          /\ s.asyncReaders = Append(s0.asyncReaders, e)
          /\ s.ks = [s0.ks EXCEPT ![e] = Append(@, made + 1)]
      <4>1. Append(s0.ks[e], made + 1) \in Seq(1 .. MaxCalls) /\ Append(s0.asyncReaders, e) \in Seq(Eids)
        BY <1>1, <2>3, <3>0, ClientIs, AppendFacts
      <4> QED
        BY <1>3, <2>3, <2>14, <3>0, <3>1, <4>1 DEF ClientStates
    <3>3. client' = [client EXCEPT ![c] = s] /\ made' = made + 1
      <4>1. [s0 EXCEPT !.ks[e] = Append(@, made + 1), !.asyncReaders = Append(@, e)] = s
        BY <2>3, <2>14, <3>1 DEF ClientStates
      <4> QED
        BY <2>2, <2>16, <4>1
    <3>4. cn.up = conns[k].up \o <<<<"invoke", e>>, <<"body", made + 1>>>>
      BY <2>4, <2>7, <2>9, <2>16
    <3>5. <<"invoke", e>> \in Requests /\ <<"body", made + 1>> \in Requests
      BY <2>3, <3>0 DEF Requests
    <3>6. ASSUME c \notin stale'
          PROVE  InStep(s, k, cn, TRUE, Defined(k), made + 1)
      <4>1. /\ conns[k].server # "queued" /\ Defined(k) = Eids
            /\ Answers(s0, k, conns[k], TRUE, made)
        BY <2>13, <3>0, <3>6 DEF InStep
      <4>2. Answers(s, k, cn, TRUE, made + 1)
        BY <2>1, <2>3, <2>9, <2>14, <3>2, <3>4, <3>5, <4>1, CallMade
      <4> QED
        BY <2>9, <3>2, <4>1, <4>2 DEF InStep
    <3>7. s.phase # "new" /\ made' \in Nat /\ made <= made' /\ stale \subseteq stale'
      BY <1>2, <2>14, <3>2, <3>3
    <3>8. PICK live \in BOOLEAN : live = (alive /\ conns'[s.conn].server # "closed") /\ live = TRUE
      BY <2>12, <3>2
    <3>9. c \notin stale' => InStep(s, s.conn, conns'[s.conn], live, Defined(s.conn), made')
      BY <2>10, <3>2, <3>3, <3>6, <3>8
    <3> QED
      BY <1>2, <2>11, <3>2, <3>3, <3>7, <3>8, <3>9, OwnStepInStep
  <2> QED
    BY <2>15, <2>16
<1> QED
  BY <1>4, <1>5

(* The answer to a definition is read. *)
LEMMA RecvReplyInStep ==
  ASSUME ServerInv, ServerInv', ClientsInStep, NEW c \in Clients, RecvReply(c)
  PROVE  ClientsInStep'
<1> DEFINE s0 == client[c]
           ok == Up(c).down # <<>> /\ Head(Up(c).down)[1] = "ok"
           last == Last(s0.def)
<1>1. TypeOK /\ TypeOK' /\ conns \in Seq(Connections) /\ DOMAIN conns = 1 .. Len(conns)
  BY LenProperties DEF ServerInv, TypeOK
<1>2. /\ s0.phase = "waiting" /\ s0.phase \notin {"new", "gone"}
      /\ client' = [client EXCEPT ![c].phase = IF ~ok THEN "failed" ELSE IF last THEN "ready" ELSE "define",
                                  ![c].def = IF ok /\ ~last THEN @ + 1 ELSE @]
      /\ conns' = IF Up(c).down # <<>> THEN [conns EXCEPT ![s0.conn].down = Tail(@)] ELSE conns
      /\ UNCHANGED <<serverVars, backlog, got, made, stale>>
  BY DEF RecvReply
<1>3. PICK k \in 1 .. Len(conns) : k = s0.conn /\ conns[k].owner = c
  BY <1>2, OwnConnection
<1>4. conns[k] \in Connections /\ conns[k].down \in Seq(Replies) /\ Up(c) = conns[k]
  BY <1>1, <1>3, ConnIs DEF Up
<1>5. /\ \A i \in 1 .. Len(conns) : conns[i].owner # c => conns'[i] = conns[i]
      /\ conns'[k].server = conns[k].server /\ conns'[k].up = conns[k].up
      /\ conns[k].down # <<>> => conns'[k].down = Tail(conns[k].down) /\ conns'[k] \in Connections
  <2>1. CASE conns[k].down = <<>>
    BY <1>2, <1>4, <2>1
  <2>2. CASE conns[k].down # <<>>
    <3>1. PICK down \in Seq(Replies) : down = Tail(conns[k].down)
      BY <1>4, <2>2, TailFacts
    <3>2. PICK cn : cn = [conns[k] EXCEPT !.down = down]
      OBVIOUS
    <3>3. cn \in Connections /\ cn.server = conns[k].server /\ cn.up = conns[k].up /\ cn.down = down
      BY <1>4, <3>1, <3>2 DEF Connections
    <3>4. conns' = [conns EXCEPT ![k] = cn]
      BY <1>1, <1>2, <1>3, <1>4, <2>2, <3>1, <3>2
    <3> QED
      BY <1>1, <1>3, <3>1, <3>3, <3>4
  <2> QED
    BY <2>1, <2>2
<1>6. made' \in Nat /\ made \in Nat /\ made' = made /\ made <= made'
  BY <1>1, <1>2, BoundAssumption DEF TypeOK
<1> HIDE DEF last
<1>7. CASE ~ok
  <2>1. client' = [client EXCEPT ![c].phase = "failed"]
    <3>1. [client[c] EXCEPT !.phase = "failed", !.def = client[c].def] = [client[c] EXCEPT !.phase = "failed"]
      BY <1>1, ClientIs DEF ClientStates
    <3> HIDE DEF ok
    <3>2. client' = [client EXCEPT ![c] = [client[c] EXCEPT !.phase = "failed", !.def = client[c].def]]
      BY <1>1, <1>2, <1>7, ClientIs
    <3> QED
      BY <3>1, <3>2
  <2> QED
    BY <1>2, <1>5, <1>6, <2>1, FailsInStep
<1>8. CASE ok
  <2>1. conns[k].down # <<>> /\ Head(conns[k].down)[1] = "ok"
    BY <1>4, <1>8
  <2> HIDE DEF ok
  <2>2. PICK phase : /\ phase = IF last THEN "ready" ELSE "define"
                     /\ phase \in {"new", "define", "waiting", "ready", "failed", "gone"}
    OBVIOUS
  <2>3. PICK def : def = IF last THEN s0.def ELSE s0.def + 1
    OBVIOUS
  <2>4. PICK s : s = [client[c] EXCEPT !.phase = phase, !.def = def]
    OBVIOUS
  <2>5. client' = [client EXCEPT ![c] = s]
    BY <1>1, <1>2, <1>8, <2>2, <2>3, <2>4, ClientIs
  <2>6. s \in ClientStates
    <3>1. client'[c] = s
      BY <1>1, <2>5, ClientIs
    <3>2. client' \in [Clients -> ClientStates]
      BY <1>1 DEF TypeOK
    <3> QED
      BY <3>1, <3>2
  <2>7. /\ s.phase = phase /\ s.def = def /\ s.conn = k
        /\ s.asyncReaders = s0.asyncReaders /\ s.ks = s0.ks /\ s.part = s0.part
    BY <1>1, <1>3, <2>4, ClientIs DEF ClientStates
  <2>8. s0 \in ClientStates
    BY <1>1, ClientIs
  <2>9. PICK live \in BOOLEAN, D \in SUBSET Eids : live = Live(k) /\ D = Defined(k)
    BY <1>1 DEF Live, TypeOK, Defined
  <2>10. live = (alive /\ conns'[s.conn].server # "closed")
    BY <1>5, <2>7, <2>9 DEF Live
  <2>11. ASSUME c \notin stale'
         PROVE  InStep(s, k, conns'[k], live, D, made')
    <3>1. ClientInStep(c)
      BY <1>2, <2>11 DEF ClientsInStep
    <3>2. InStep(s0, k, conns[k], live, D, made)
      BY <1>2, <1>3, <2>9, <3>1, ClientFacts
    <3>3. PICK cn \in Connections, cn2 \in Connections : cn = conns[k] /\ cn2 = conns'[k]
      BY <1>4, <1>5, <2>1
    <3>4. /\ cn.down # <<>> /\ Head(cn.down)[1] = "ok" /\ cn2.server = cn.server
          /\ cn2.up = cn.up /\ cn2.down = Tail(cn.down) /\ InStep(s0, k, cn, live, D, made)
      BY <1>5, <2>1, <3>2, <3>3
    <3>5. /\ s.phase = IF Last(s0.def) THEN "ready" ELSE "define"
          /\ ~Last(s0.def) => s.def = s0.def + 1
      BY <2>2, <2>3, <2>7 DEF last
    <3>6. InStep(s, k, cn2, live, D, made)
      BY <1>2, <1>6, <2>6, <2>7, <2>8, <3>4, <3>5, DefinitionRead
    <3> QED
      BY <1>6, <3>3, <3>6
  <2>12. c \notin stale' => InStep(s, s.conn, conns'[s.conn], live, Defined(s.conn), made')
    BY <2>7, <2>9, <2>11
  <2>13. s.phase # "new"
    BY <2>2, <2>7
  <2>14. UNCHANGED serverVars /\ stale \subseteq stale'
    BY <1>2
  <2>15. \A i \in 1 .. Len(conns) : conns[i].owner # c => conns'[i] = conns[i]
    BY <1>5
  <2> QED
    BY <1>6, <2>5, <2>6, <2>10, <2>12, <2>13, <2>14, <2>15, OwnStepInStep
<1> QED
  BY <1>7, <1>8

(* The token that step() reads next, with those of the result read so far. *)
LEMMA ResultPart ==
  ASSUME NEW s \in ClientStates, NEW k, NEW cn \in Connections, NEW live, NEW calls \in Nat,
         Answers(s, k, cn, live, calls), s.asyncReaders # <<>>,
         NEW e, e = Head(s.asyncReaders), Parts[e] > 0 => cn.down # <<>>
  PROVE  LET p == IF Parts[e] > 0 THEN Append(s.part[e], Head(cn.down)) ELSE <<>>
             d == IF Parts[e] > 0 THEN Tail(cn.down) ELSE cn.down
         IN  /\ p \in Seq(Replies) /\ d \in Seq(Replies) /\ p \o d = Stream(s, cn.down)
             /\ Len(p) <= Parts[e] /\ Len(p) \in Nat /\ Parts[e] \in Nat
<1>1. PICK N \in [1 .. Len(s.asyncReaders) -> 1 .. calls],
           end \in [0 .. Len(s.asyncReaders) -> Nat], m \in 0 .. Len(s.asyncReaders) :
             Matched(s, k, cn, live, N, end, m)
  BY DEF Answers
<1>2. PICK a \in Seq(Eids), q \in Seq(Replies), down \in Seq(Replies) :
         a = s.asyncReaders /\ e = Head(a) /\ a # <<>> /\ q = s.part[e] /\ down = cn.down
  BY TailFacts DEF ClientStates, Connections
<1>3. e \in Eids /\ Parts[e] \in Nat
  BY <1>2, TailFacts, PartAssumption
<1>4. Stream(s, cn.down) = q \o down /\ PartRead(s)
  BY <1>1, <1>2 DEF Stream, Matched
<1>5. q # <<>> => Len(q) < Parts[e]
  BY <1>2, <1>3, <1>4 DEF PartRead
<1>6. Len(q) \in Nat /\ (Len(q) = 0 <=> q = <<>>)
  BY EmptySeq, LenProperties
<1>7. CASE Parts[e] > 0
  <2>1. /\ Append(q, Head(down)) \in Seq(Replies) /\ Len(Append(q, Head(down))) = Len(q) + 1
        /\ Append(q, Head(down)) \o Tail(down) = q \o down /\ Tail(down) \in Seq(Replies)
    BY <1>2, <1>7, TokenMoves
  <2>2. Len(q) < Parts[e]
    BY <1>3, <1>5, <1>6, <1>7
  <2>3. Len(q) + 1 <= Parts[e] /\ Len(q) + 1 \in Nat
    BY <1>3, <1>6, <2>2
  <2> QED
    BY <1>2, <1>3, <1>4, <1>7, <2>1, <2>3
<1>8. CASE ~(Parts[e] > 0)
  <2>1. q = <<>> /\ Parts[e] = 0
    BY <1>3, <1>5, <1>6, <1>8
  <2>2. <<>> \in Seq(Replies) /\ Len(<<>>) = 0
    OBVIOUS
  <2>3. <<>> \o down = down
    BY ConcatEmptySeq
  <2> QED
    BY <1>2, <1>3, <1>4, <1>8, <2>1, <2>2, <2>3
<1> QED
  BY <1>7, <1>8

(* The callback that client c calls in this step is called with the result *)
(* of its own call.                                                        *)
CalledRight(c) ==
  got' # got =>
    \E k \in DOMAIN conns, g \in got' :
      conns[k].owner = c /\ got' = {g} /\ g.client = c /\ g.result = Expected(g, k)

(* One round of step() leaves the clients in step. *)
LEMMA StepInStep ==
  ASSUME ServerInv, ServerInv', ClientsInStep, NEW c \in Clients, Step(c)
  PROVE  ClientsInStep' /\ (c \notin stale => CalledRight(c))
<1> DEFINE s0 == client[c]
           e == Head(s0.asyncReaders)
           need == Parts[e] > 0
           part == IF need THEN Append(s0.part[e], Head(Up(c).down)) ELSE <<>>
<1>1. TypeOK /\ TypeOK' /\ conns \in Seq(Connections) /\ DOMAIN conns = 1 .. Len(conns)
  BY LenProperties DEF ServerInv, TypeOK
<1>2. /\ s0.phase = "ready" /\ s0.phase \notin {"new", "gone"} /\ s0.asyncReaders # <<>>
      /\ Up(c).down # <<>> \/ PeerGone(c)
      /\ UNCHANGED serverVars /\ made' = made /\ stale' = stale
  BY DEF Step
<1>3. \/ /\ need /\ Up(c).down = <<>>
         /\ client' = [client EXCEPT ![c].phase = "failed"] /\ UNCHANGED <<conns, got>>
      \/ /\ ~(need /\ Up(c).down = <<>>)
         /\ conns' = IF need THEN [conns EXCEPT ![s0.conn].down = Tail(@)] ELSE conns
         /\ \/ /\ Len(part) = Parts[e]
               /\ got' = {[client |-> c, call |-> Head(s0.ks[e]), eid |-> e, result |-> part]}
               /\ client' = [client EXCEPT ![c].part[e] = <<>>, ![c].ks[e] = Tail(@),
                                           ![c].asyncReaders = Tail(@)]
            \/ /\ Len(part) # Parts[e]
               /\ client' = [client EXCEPT ![c].part[e] = part] /\ UNCHANGED got
  BY DEF Step, accum
<1>4. PICK k \in 1 .. Len(conns) : k = s0.conn /\ conns[k].owner = c
  BY <1>2, OwnConnection
<1>5. conns[k] \in Connections /\ conns[k].down \in Seq(Replies) /\ Up(c) = conns[k] /\ s0 \in ClientStates
  BY <1>1, <1>4, ConnIs, ClientIs DEF Up
<1>6. made' \in Nat /\ made \in Nat /\ made <= made' /\ stale \subseteq stale'
  BY <1>1, <1>2, BoundAssumption DEF TypeOK
<1>7. e \in Eids /\ Tail(s0.asyncReaders) \in Seq(Eids)
  BY <1>2, <1>5, TailFacts DEF ClientStates
<1> HIDE DEF e
<1>8. PICK live \in BOOLEAN, D \in SUBSET Eids : live = Live(k) /\ D = Defined(k)
  BY <1>1 DEF Live, TypeOK, Defined
<1>9. c \notin stale => InStep(s0, k, conns[k], live, D, made)
  <2>1. ASSUME c \notin stale PROVE ClientInStep(c)
    BY <2>1 DEF ClientsInStep
  <2> QED
    BY <1>2, <1>4, <1>8, <2>1, ClientFacts
<1>10. c \notin stale => conns[k].server # "queued" /\ D = Eids /\ Answers(s0, k, conns[k], live, made)
  BY <1>2, <1>9 DEF InStep
<1>11. live => conns[k].down # <<>>
  BY <1>2, <1>5, <1>8 DEF PeerGone, Live
<1>12. CASE /\ need /\ Up(c).down = <<>>
            /\ client' = [client EXCEPT ![c].phase = "failed"] /\ UNCHANGED <<conns, got>>
  <2>1. ClientsInStep'
    BY <1>2, <1>6, <1>12, FailsInStep
  <2> QED
    BY <1>12, <2>1 DEF CalledRight
<1>13. CASE /\ ~(need /\ Up(c).down = <<>>)
            /\ conns' = IF need THEN [conns EXCEPT ![s0.conn].down = Tail(@)] ELSE conns
            /\ \/ /\ Len(part) = Parts[e]
                  /\ got' = {[client |-> c, call |-> Head(s0.ks[e]), eid |-> e, result |-> part]}
                  /\ client' = [client EXCEPT ![c].part[e] = <<>>, ![c].ks[e] = Tail(@),
                                              ![c].asyncReaders = Tail(@)]
               \/ /\ Len(part) # Parts[e]
                  /\ client' = [client EXCEPT ![c].part[e] = part] /\ UNCHANGED got
  <2>1. PICK p, d : /\ p = IF need THEN Append(s0.part[e], Head(conns[k].down)) ELSE <<>>
                    /\ d = IF need THEN Tail(conns[k].down) ELSE conns[k].down
    OBVIOUS
  <2>2. p = part
    BY <1>5, <2>1
  <2>3. p \in Seq(Replies) /\ d \in Seq(Replies)
    <3>1. need => Head(conns[k].down) \in Replies /\ Tail(conns[k].down) \in Seq(Replies)
      BY <1>5, <1>13, TailFacts
    <3>2. s0.part[e] \in Seq(Replies) /\ <<>> \in Seq(Replies)
      BY <1>5, <1>7 DEF ClientStates
    <3>3. need => Append(s0.part[e], Head(conns[k].down)) \in Seq(Replies)
      BY <3>1, <3>2, AppendProperties
    <3> QED
      BY <1>5, <2>1, <3>1, <3>2, <3>3
  <2>4. ASSUME c \notin stale
        PROVE  /\ p \o d = Stream(s0, conns[k].down) /\ Len(p) <= Parts[e]
               /\ Len(p) \in Nat /\ Parts[e] \in Nat
    <3>1. PICK cn \in Connections : cn = conns[k]
      BY <1>5
    <3>2. Answers(s0, k, cn, live, made) /\ (need => cn.down # <<>>)
      BY <1>5, <1>10, <1>13, <2>4, <3>1
    <3>3. /\ p = IF need THEN Append(s0.part[e], Head(cn.down)) ELSE <<>>
          /\ d = IF need THEN Tail(cn.down) ELSE cn.down
      BY <2>1, <3>1
    <3>4. p \o d = Stream(s0, cn.down) /\ Len(p) <= Parts[e] /\ Len(p) \in Nat /\ Parts[e] \in Nat
      BY <1>2, <1>5, <1>6, <3>2, <3>3, ResultPart DEF e
    <3> QED
      BY <3>1, <3>4
  <2>5. PICK cn \in Connections :
          /\ cn = [conns[k] EXCEPT !.down = d] /\ cn.down = d
          /\ cn.up = conns[k].up /\ cn.server = conns[k].server
    <3>1. PICK cn : cn = [conns[k] EXCEPT !.down = d]
      OBVIOUS
    <3>2. cn \in Connections /\ cn.down = d /\ cn.up = conns[k].up /\ cn.server = conns[k].server
      BY <1>5, <2>3, <3>1 DEF Connections
    <3> QED
      BY <3>1, <3>2
  <2>6. conns'[k] = cn /\ \A i \in 1 .. Len(conns) : i # k => conns'[i] = conns[i]
    <3>1. CASE need
      <4>1. conns' = [conns EXCEPT ![k] = cn]
        BY <1>1, <1>4, <1>13, <2>1, <2>5, <3>1
      <4> QED
        BY <1>1, <4>1
    <3>2. CASE ~need
      <4>1. conns' = conns
        BY <1>13, <3>2
      <4>2. cn = conns[k]
        BY <1>5, <2>1, <2>5, <3>2 DEF Connections
      <4> QED
        BY <4>1, <4>2
    <3> QED
      BY <3>1, <3>2
  <2>7. \A i \in 1 .. Len(conns) : conns[i].owner # c => conns'[i] = conns[i]
    BY <1>4, <2>6
  <2> HIDE DEF need, part
  <2>8. ASSUME NEW s \in ClientStates, client' = [client EXCEPT ![c] = s], s.phase = "ready", s.conn = k,
               c \notin stale => Answers(s, k, cn, live, made)
        PROVE  ClientsInStep'
    <3>1. live = (alive /\ conns'[s.conn].server # "closed")
      BY <1>8, <2>5, <2>6, <2>8 DEF Live
    <3>2. c \notin stale => InStep(s, k, cn, live, D, made)
      BY <1>10, <2>5, <2>8 DEF InStep
    <3>3. s.phase # "gone" /\ c \notin stale' =>
             InStep(s, s.conn, conns'[s.conn], live, Defined(s.conn), made')
      BY <1>2, <1>8, <2>6, <2>8, <3>2
    <3>4. s.phase # "new" /\ UNCHANGED serverVars
      BY <1>2, <2>8
    <3> QED
      BY <1>6, <2>7, <2>8, <3>1, <3>3, <3>4, OwnStepInStep
  <2>9. CASE Len(part) # Parts[e] /\ client' = [client EXCEPT ![c].part[e] = part] /\ UNCHANGED got
    <3>1. PICK s : s = [s0 EXCEPT !.part[e] = p]
      OBVIOUS
    <3>2. client' = [client EXCEPT ![c] = s]
      BY <1>1, <2>2, <2>9, <3>1, ClientIs
    <3>3. /\ s \in ClientStates /\ s.phase = "ready" /\ s.conn = k
          /\ s.asyncReaders = s0.asyncReaders /\ s.ks = s0.ks
          /\ \A f \in Eids : s.part[f] = IF f = e THEN p ELSE s0.part[f]
      BY <1>2, <1>4, <1>5, <1>7, <2>3, <3>1 DEF ClientStates
    <3>4. ASSUME c \notin stale
          PROVE  Answers(s, k, cn, live, made)
      <4>1. Len(p) < Parts[e] /\ p \o cn.down = Stream(s0, conns[k].down)
        BY <2>2, <2>4, <2>5, <2>9, <3>4
      <4>2. e = Head(s0.asyncReaders)
        BY DEF e
      <4>3. PICK cn0 \in Connections : cn0 = conns[k]
        BY <1>5
      <4>4. /\ Answers(s0, k, cn0, live, made) /\ cn.up = cn0.up
            /\ p \o cn.down = Stream(s0, cn0.down)
        BY <1>10, <2>5, <3>4, <4>1, <4>3
      <4>5. PICK t \in ClientStates : t = s0
        BY <1>5
      <4>6. /\ Answers(t, k, cn0, live, made) /\ t.asyncReaders # <<>> /\ e = Head(t.asyncReaders)
            /\ p \o cn.down = Stream(t, cn0.down)
            /\ s.asyncReaders = t.asyncReaders /\ s.ks = t.ks
            /\ \A f \in Eids : s.part[f] = IF f = e THEN p ELSE t.part[f]
        BY <1>2, <3>3, <4>2, <4>4, <4>5
      <4>7. s \in ClientStates /\ cn.up = cn0.up /\ made \in Nat /\ Len(p) < Parts[e]
        BY <1>6, <3>3, <4>1, <4>4
      <4>8. ReadsToken(t, k, cn0, live, made, p, e, s, cn)
        BY <4>6, <4>7 DEF ReadsToken
      <4> QED
        BY <4>7, <4>8, ResultTokenRead
    <3>5. ClientsInStep'
      BY <2>8, <3>2, <3>3, <3>4
    <3> QED
      BY <2>9, <3>5 DEF CalledRight
  <2>10. CASE /\ Len(part) = Parts[e]
              /\ got' = {[client |-> c, call |-> Head(s0.ks[e]), eid |-> e, result |-> part]}
              /\ client' = [client EXCEPT ![c].part[e] = <<>>, ![c].ks[e] = Tail(@),
                                          ![c].asyncReaders = Tail(@)]
    <3>1. PICK s : s = [s0 EXCEPT !.part[e] = <<>>, !.ks[e] = Tail(s0.ks[e]),
                                  !.asyncReaders = Tail(s0.asyncReaders)]
      OBVIOUS
    <3>2. client' = [client EXCEPT ![c] = s]
      <4>1. client \in [Clients -> ClientStates] /\ client[c] \in ClientStates
        BY <1>1, ClientIs
      <4> QED
        BY <2>10, <3>1, <4>1
    <3>3. s \in ClientStates
      <4>1. client'[c] = s /\ client' \in [Clients -> ClientStates]
        BY <1>1, <3>2, ClientIs DEF TypeOK
      <4> QED
        BY <4>1
    <3>4. /\ s.phase = "ready" /\ s.conn = k /\ s.asyncReaders = Tail(s0.asyncReaders)
          /\ \A f \in Eids : s.ks[f] = IF f = e THEN Tail(s0.ks[f]) ELSE s0.ks[f]
          /\ \A f \in Eids : s.part[f] = IF f = e THEN <<>> ELSE s0.part[f]
      BY <1>2, <1>4, <1>5, <1>7, <3>1 DEF ClientStates
    <3>5. ASSUME c \notin stale
          PROVE  /\ \A i \in 1 .. Parts[e] : p[i] = Result(k, Head(s0.ks[e]), i)
                 /\ Answers(s, k, cn, live, made) /\ Len(p) = Parts[e] /\ Parts[e] \in Nat
      <4>1. Len(p) = Parts[e] /\ Parts[e] \in Nat /\ p \o cn.down = Stream(s0, conns[k].down)
        BY <2>2, <2>4, <2>5, <2>10, <3>5
      <4>2. e = Head(s0.asyncReaders)
        BY DEF e
      <4>3. PICK cn0 \in Connections : cn0 = conns[k]
        BY <1>5
      <4>4. /\ Answers(s0, k, cn0, live, made) /\ cn.up = cn0.up
            /\ p \o cn.down = Stream(s0, cn0.down) /\ (live => cn0.down # <<>>)
        BY <1>10, <1>11, <2>5, <3>5, <4>1, <4>3
      <4>5. /\ \A i \in 1 .. Len(p) : p[i] = Result(k, Head(s0.ks[e]), i)
            /\ Answers(s, k, cn, live, made)
        <5>1. PICK t \in ClientStates : t = s0
          BY <1>5
        <5>2. /\ Answers(t, k, cn0, live, made) /\ t.asyncReaders # <<>> /\ e = Head(t.asyncReaders)
              /\ p \o cn.down = Stream(t, cn0.down) /\ s.asyncReaders = Tail(t.asyncReaders)
              /\ \A f \in Eids : s.ks[f] = IF f = e THEN Tail(t.ks[f]) ELSE t.ks[f]
              /\ \A f \in Eids : s.part[f] = IF f = e THEN <<>> ELSE t.part[f]
          BY <1>2, <3>4, <4>2, <4>4, <5>1
        <5>3. /\ s \in ClientStates /\ cn.up = cn0.up /\ made \in Nat /\ Len(p) = Parts[e]
              /\ p \in Seq(Replies) /\ (live => cn0.down # <<>>)
          BY <1>6, <2>3, <3>3, <4>1, <4>4
        <5>4. /\ \A i \in 1 .. Len(p) : p[i] = Result(k, Head(t.ks[e]), i)
              /\ Answers(s, k, cn, live, made)
          <6>1. ReadsResult(t, k, cn0, live, made, p, e, s, cn)
            BY <5>2, <5>3 DEF ReadsResult
          <6>2. p \in Seq(Replies) /\ s \in ClientStates /\ made \in Nat
            BY <5>3
          <6>3. \A i \in 1 .. Len(p) : p[i] = Result(k, Head(t.ks[e]), i)
            BY <6>1, <6>2, ResultRead
          <6>4. Answers(s, k, cn, live, made)
            BY <6>1, <6>2, ResultRead
          <6> QED
            BY <6>3, <6>4
        <5> QED
          BY <5>1, <5>4
      <4> QED
        BY <4>1, <4>5
    <3>6. ClientsInStep'
      BY <2>8, <3>2, <3>3, <3>4, <3>5
    <3>7. ASSUME c \notin stale
          PROVE  CalledRight(c)
      <4>1. PICK g : /\ g = [client |-> c, call |-> Head(s0.ks[e]), eid |-> e, result |-> p]
                     /\ got' = {g}
        BY <2>2, <2>10
      <4>2. g.client = c /\ g.eid = e /\ g.call = Head(s0.ks[e]) /\ g.result = p
        BY <4>1
      <4>3. p = [i \in 1 .. Parts[e] |-> Result(k, Head(s0.ks[e]), i)]
        <5>1. DOMAIN p = 1 .. Parts[e] /\ p = [i \in DOMAIN p |-> p[i]]
          BY <2>3, <3>5, <3>7, LenProperties
        <5> QED
          BY <3>5, <3>7, <5>1
      <4>4. g.result = Expected(g, k)
        BY <4>2, <4>3 DEF Expected
      <4>5. k \in DOMAIN conns
        BY <1>1
      <4> QED
        BY <1>4, <4>1, <4>2, <4>4, <4>5 DEF CalledRight
    <3> QED
      BY <3>6, <3>7
  <2> QED
    BY <1>13, <2>9, <2>10 DEF need, part
<1> QED
  BY <1>3, <1>12, <1>13

-----------------------------------------------------------------------------
(* The theorem.                                                            *)

(* No connection changes hands. *)
OwnersStay == \A i \in 1 .. Len(conns) : i \in 1 .. Len(conns') /\ conns'[i].owner = conns[i].owner

(* What is sent or read, and closing, changes one connection and leaves    *)
(* its owner.                                                              *)
LEMMA OneConnection ==
  ASSUME TypeOK, NEW j \in 1 .. Len(conns), NEW cn \in Connections,
         conns' = [conns EXCEPT ![j] = cn], cn.owner = conns[j].owner
  PROVE  OwnersStay
<1>1. conns \in Seq(Connections) /\ DOMAIN conns = 1 .. Len(conns) /\ Len(conns) \in Nat
  BY LenProperties DEF TypeOK
<1>2. /\ conns' \in Seq(Connections) /\ Len(conns') = Len(conns)
      /\ conns'[j] = cn /\ \A i \in 1 .. Len(conns) : i # j => conns'[i] = conns[i]
  BY <1>1, ExceptSeq
<1> QED
  BY <1>2 DEF OwnersStay

(* A step that changes no connection changes no owner. *)
LEMMA NoConnection ==
  ASSUME UNCHANGED conns
  PROVE  OwnersStay
BY DEF OwnersStay

(* The server's handlers. *)
LEMMA ServerOwners ==
  ASSUME ServerInv, Loop
  PROVE  OwnersStay
<1>1. TypeOK /\ HandlersInv /\ conns \in Seq(Connections)
  BY DEF ServerInv, TypeOK
<1>2. CASE UNCHANGED conns
  BY <1>2, NoConnection
<1>3. CASE Accept
  <2>1. CASE Full
    BY <1>3, <2>1, NoConnection DEF Accept
  <2>2. CASE ~Full
    <3>1. PICK k : k = Head(backlog)
      OBVIOUS
    <3>2. k \in 1 .. Len(conns)
      <4>1. batch # <<>> /\ Head(batch) = Listener
        BY <1>3 DEF Accept
      <4>2. Listener \in Range(batch)
        BY <1>1, <4>1, TailFacts DEF TypeOK
      <4>3. backlog # <<>>
        BY <1>1, <4>2 DEF HandlersInv
      <4> QED
        BY <1>1, <3>1, <4>3, TailFacts DEF TypeOK
    <3>3. \/ conns' = [conns EXCEPT ![k].up = Tail(@), ![k].server = "served"] /\ conns[k].up # <<>>
          \/ conns' = [conns EXCEPT ![k].server = "closed"]
      BY <1>3, <2>2, <3>1 DEF Accept
    <3>4. conns[k] \in Connections /\ DOMAIN conns = 1 .. Len(conns)
      BY <1>1, <3>2, ConnIs, LenProperties
    <3>5. CASE conns' = [conns EXCEPT ![k].up = Tail(@), ![k].server = "served"] /\ conns[k].up # <<>>
      <4>1. PICK cn : cn = [conns[k] EXCEPT !.up = Tail(conns[k].up), !.server = "served"]
        OBVIOUS
      <4>2. conns' = [conns EXCEPT ![k] = cn]
        BY <3>2, <3>4, <3>5, <4>1
      <4>3. Tail(conns[k].up) \in Seq(Requests)
        BY <3>4, <3>5, TailFacts DEF Connections
      <4>4. cn \in Connections /\ cn.owner = conns[k].owner
        BY <3>4, <4>1, <4>3 DEF Connections
      <4> QED
        BY <1>1, <3>2, <4>2, <4>4, OneConnection
    <3>6. CASE conns' = [conns EXCEPT ![k].server = "closed"]
      <4>1. PICK cn : cn = [conns[k] EXCEPT !.server = "closed"]
        OBVIOUS
      <4>2. conns' = [conns EXCEPT ![k] = cn]
        BY <3>2, <3>4, <3>6, <4>1
      <4>3. cn \in Connections /\ cn.owner = conns[k].owner
        BY <3>4, <4>1 DEF Connections
      <4> QED
        BY <1>1, <3>2, <4>2, <4>3, OneConnection
    <3> QED
      BY <3>3, <3>5, <3>6
  <2> QED
    BY <2>1, <2>2
<1>4. CASE Evaluate
  <2>1. ServerInv'
    BY <1>4, EvaluateInv
  <2>2. conns' \in Seq(Connections)
    BY <2>1 DEF ServerInv, TypeOK
  <2>3. PICK k \in 1 .. Len(conns) : k = connAt[Head(batch)[1]]
    BY <1>4, EvaluateAt DEF Evaluate
  <2>4. \/ conns' = [conns EXCEPT ![k].server = "closed"]
        \/ \E left, down : conns' = [conns EXCEPT ![k].up = left, ![k].down = down]
    <3>1. \/ Disconnect(Head(batch)[1])
          \/ \E left, toks : Reply(Head(batch)[1], left, toks)
      BY <1>4 DEF Evaluate
    <3>2. CASE Disconnect(Head(batch)[1])
      BY <2>3, <3>2 DEF Disconnect
    <3>3. ASSUME NEW left, NEW toks, Reply(Head(batch)[1], left, toks)
          PROVE  \E up, down : conns' = [conns EXCEPT ![k].up = up, ![k].down = down]
      <4>1. conns' = [conns EXCEPT ![k].up = left,
                                   ![k].down = IF conns[k].open THEN @ \o toks ELSE @]
        BY <2>3, <3>3 DEF Reply
      <4>2. PICK down : down = IF conns[k].open THEN conns[k].down \o toks ELSE conns[k].down
        OBVIOUS
      <4>3. DOMAIN conns = 1 .. Len(conns) /\ conns[k] \in Connections
        BY <1>1, <2>3, ConnIs, LenProperties
      <4>4. conns' = [conns EXCEPT ![k].up = left, ![k].down = down]
        BY <2>3, <4>1, <4>2, <4>3 DEF Connections
      <4> QED
        BY <4>4
    <3> QED
      BY <3>1, <3>2, <3>3
  <2>5. conns[k] \in Connections /\ DOMAIN conns = 1 .. Len(conns) /\ Len(conns) \in Nat
    BY <1>1, <2>3, ConnIs, LenProperties
  <2>6. PICK cn : conns' = [conns EXCEPT ![k] = cn] /\ cn.owner = conns[k].owner
    <3>1. CASE conns' = [conns EXCEPT ![k].server = "closed"]
      <4>1. PICK cn : cn = [conns[k] EXCEPT !.server = "closed"]
        OBVIOUS
      <4>2. conns' = [conns EXCEPT ![k] = cn]
        BY <2>3, <2>5, <3>1, <4>1
      <4>3. cn.owner = conns[k].owner
        BY <2>5, <4>1 DEF Connections
      <4> QED
        BY <4>2, <4>3
    <3>2. ASSUME NEW left, NEW down, conns' = [conns EXCEPT ![k].up = left, ![k].down = down]
          PROVE  \E cn : conns' = [conns EXCEPT ![k] = cn] /\ cn.owner = conns[k].owner
      <4>1. PICK cn : cn = [conns[k] EXCEPT !.up = left, !.down = down]
        OBVIOUS
      <4>2. conns' = [conns EXCEPT ![k] = cn]
        BY <2>3, <2>5, <3>2, <4>1
      <4>3. cn.owner = conns[k].owner
        BY <2>5, <4>1 DEF Connections
      <4> QED
        BY <4>2, <4>3
    <3> QED
      BY <2>4, <3>1, <3>2
  <2>7. DOMAIN conns' = 1 .. Len(conns) /\ conns'[k] = cn
    BY <2>3, <2>5, <2>6
  <2>8. Len(conns') = Len(conns)
    BY <2>2, <2>5, <2>7, LenProperties
  <2>9. cn \in Connections
    BY <2>2, <2>3, <2>7, <2>8, ElementOfSeq
  <2> QED
    BY <1>1, <2>3, <2>6, <2>9, OneConnection
<1> QED
  BY <1>2, <1>3, <1>4 DEF Loop

(* Sequences with one domain are of one length. *)
LEMMA SameLength ==
  ASSUME NEW m \in Nat, NEW n \in Nat, 1..m = 1..n
  PROVE  m = n
<1>1. (m \in 1..n \/ m = 0) /\ (n \in 1..m \/ n = 0)
  OBVIOUS
<1> QED
  BY <1>1

(* The clients. *)
LEMMA ClientOwners ==
  ASSUME ServerInv, ServerInv', NEW c \in Clients,
         Connect(c) \/ ClientStep(c) \/ Reconnect(c) \/ Exit(c)
  PROVE  OwnersStay
<1>1. /\ TypeOK /\ conns \in Seq(Connections) /\ DOMAIN conns = 1 .. Len(conns) /\ Len(conns) \in Nat
      /\ conns' \in Seq(Connections) /\ DOMAIN conns' = 1 .. Len(conns') /\ Len(conns') \in Nat
  BY LenProperties DEF ServerInv, TypeOK
<1>2. \A i \in 1 .. Len(conns) : conns[i] \in Connections
  BY <1>1, ElementOfSeq
<1>3. ASSUME NEW cs, NEW cn, conns' = Append(cs, cn), DOMAIN cs = 1 .. Len(conns), Len(cs) = Len(conns),
             \A i \in 1 .. Len(conns) : cs[i] \in Connections /\ cs[i].owner = conns[i].owner
      PROVE  OwnersStay
  <2>1. Len(conns') = Len(conns) + 1 /\ \A i \in 1 .. Len(conns) : conns'[i] = cs[i]
    BY <1>1, <1>3
  <2> QED
    BY <1>1, <1>3, <2>1 DEF OwnersStay
<1>4. ASSUME NEW j, NEW cn, conns' = [conns EXCEPT ![j] = cn],
             j \in 1 .. Len(conns) => cn.owner = conns[j].owner
      PROVE  OwnersStay
  <2>1. DOMAIN conns' = DOMAIN conns /\ \A i \in 1 .. Len(conns) : conns'[i] = IF i = j THEN cn ELSE conns[i]
    BY <1>1, <1>4
  <2>2. Len(conns') = Len(conns)
    BY <1>1, <2>1, SameLength
  <2> QED
    BY <1>4, <2>1, <2>2 DEF OwnersStay
<1>5. CASE Connect(c)
  <2>1. \E cn : conns' = Append(conns, cn)
    BY <1>5 DEF Connect
  <2> QED
    BY <1>1, <1>2, <1>3, <2>1
<1>6. CASE Send(c) \/ RecvReply(c) \/ Step(c)
  <2>1. PICK j : j = client[c].conn
    OBVIOUS
  <2>2. \/ UNCHANGED conns
        \/ \E up : conns' = [conns EXCEPT ![j].up = up]
        \/ \E down : conns' = [conns EXCEPT ![j].down = down]
    <3>1. CASE Send(c)
      BY <2>1, <3>1 DEF Send
    <3>2. CASE RecvReply(c)
      BY <2>1, <3>2 DEF RecvReply
    <3>3. CASE Step(c)
      BY <2>1, <3>3 DEF Step
    <3> QED
      BY <1>6, <3>1, <3>2, <3>3
  <2>3. ASSUME NEW up, conns' = [conns EXCEPT ![j].up = up]
        PROVE  OwnersStay
    <3>1. PICK cn : cn = [conns[j] EXCEPT !.up = up]
      OBVIOUS
    <3>2. conns' = [conns EXCEPT ![j] = cn]
      BY <1>1, <2>3, <3>1
    <3>3. j \in 1 .. Len(conns) => cn.owner = conns[j].owner
      BY <1>2, <3>1 DEF Connections
    <3> QED
      BY <1>4, <3>2, <3>3
  <2>4. ASSUME NEW down, conns' = [conns EXCEPT ![j].down = down]
        PROVE  OwnersStay
    <3>1. PICK cn : cn = [conns[j] EXCEPT !.down = down]
      OBVIOUS
    <3>2. conns' = [conns EXCEPT ![j] = cn]
      BY <1>1, <2>4, <3>1
    <3>3. j \in 1 .. Len(conns) => cn.owner = conns[j].owner
      BY <1>2, <3>1 DEF Connections
    <3> QED
      BY <1>4, <3>2, <3>3
  <2> QED
    BY <2>2, <2>3, <2>4, NoConnection
<1>7. CASE Reconnect(c)
  <2>1. PICK j, cs : j = client[c].conn /\ cs = [conns EXCEPT ![j] = [conns[j] EXCEPT !.open = FALSE]]
    OBVIOUS
  <2>2. \E cn : conns' = Append(cs, cn)
    BY <1>1, <1>7, <2>1 DEF Reconnect
  <2>3. j \in 1 .. Len(conns)
    BY <1>7, <2>1, OwnConnection DEF Reconnect
  <2>4. PICK old : old = [conns[j] EXCEPT !.open = FALSE]
    OBVIOUS
  <2>5. old \in Connections /\ old.owner = conns[j].owner
    BY <1>2, <2>3, <2>4 DEF Connections
  <2>6. cs \in Seq(Connections) /\ Len(cs) = Len(conns) /\ \A i \in 1 .. Len(conns) : cs[i] = IF i = j THEN old ELSE conns[i]
    BY <1>1, <2>1, <2>3, <2>4, <2>5, ExceptSeq
  <2> QED
    BY <1>2, <1>3, <2>2, <2>5, <2>6, LenProperties
<1>8. CASE Exit(c)
  <2>1. \E toks : conns' = [k \in DOMAIN conns |->
                       IF conns[k].owner # c THEN conns[k]
                       ELSE [conns[k] EXCEPT !.open = FALSE,
                                             !.up = IF k = client[c].conn THEN @ \o toks ELSE @]]
    BY <1>8 DEF Exit
  <2>2. DOMAIN conns' = DOMAIN conns
    BY <2>1
  <2>4. Len(conns') = Len(conns)
    BY <1>1, <2>2, SameLength
  <2>3. ASSUME NEW i \in 1 .. Len(conns)
        PROVE  conns'[i].owner = conns[i].owner
    <3>1. conns'[i] = conns[i] \/ \E up : conns'[i] = [conns[i] EXCEPT !.open = FALSE, !.up = up]
      BY <1>1, <2>1
    <3> QED
      BY <1>2, <3>1 DEF Connections
  <2> QED
    BY <2>3, <2>4 DEF OwnersStay
<1> QED
  BY <1>5, <1>6, <1>7, <1>8 DEF ClientStep

(* What a callback was called with stays right, and what it is called with *)
(* is right, in every step.                                                *)
LEMMA NothingCalled ==
  ASSUME TypeOK, OwnReply, OwnersStay, got' = got, stale \subseteq stale',
         conns' \in Seq(Connections)
  PROVE  OwnReply'
<1>1. DOMAIN conns = 1 .. Len(conns) /\ DOMAIN conns' = 1 .. Len(conns')
  BY LenProperties DEF TypeOK
<1>2. ASSUME NEW g \in got, g.client \notin stale'
      PROVE  \E k \in DOMAIN conns' : conns'[k].owner = g.client /\ g.result = Expected(g, k)
  <2>1. PICK k \in DOMAIN conns : conns[k].owner = g.client /\ g.result = Expected(g, k)
    BY <1>2 DEF OwnReply
  <2>2. k \in DOMAIN conns' /\ conns'[k].owner = conns[k].owner
    BY <1>1, <2>1 DEF OwnersStay
  <2> QED
    BY <2>1, <2>2
<1> QED
  BY <1>2 DEF OwnReply, Expected, Result

(* The same in a round of step(), which calls at most one callback. *)
LEMMA StepCalls ==
  ASSUME ServerInv, ServerInv', OwnReply, NEW c \in Clients, Step(c),
         c \notin stale => CalledRight(c)
  PROVE  OwnReply'
<1>1. TypeOK /\ conns' \in Seq(Connections) /\ OwnersStay /\ stale' = stale
  BY ClientOwners DEF ServerInv, TypeOK, Step, ClientStep
<1>2. got' = got \/ \A g \in got' : g.client = c
  <2>1. got' = got \/ \E n, e, p : got' = {[client |-> c, call |-> n, eid |-> e, result |-> p]}
    BY DEF Step
  <2> QED
    BY <2>1
<1>3. CASE got' = got
  BY <1>1, <1>3, NothingCalled
<1>4. CASE got' # got /\ c \in stale
  BY <1>1, <1>2, <1>4 DEF OwnReply
<1>5. CASE got' # got /\ c \notin stale
  <2>1. PICK k \in DOMAIN conns, g \in got' :
          conns[k].owner = c /\ got' = {g} /\ g.client = c /\ g.result = Expected(g, k)
    BY <1>5 DEF CalledRight
  <2>2. DOMAIN conns = 1 .. Len(conns) /\ DOMAIN conns' = 1 .. Len(conns')
    BY <1>1, LenProperties DEF TypeOK
  <2>3. k \in DOMAIN conns' /\ conns'[k].owner = c
    BY <1>1, <2>1, <2>2 DEF OwnersStay
  <2> QED
    BY <2>1, <2>3 DEF OwnReply, Expected, Result
<1> QED
  BY <1>3, <1>4, <1>5

(* Both hold in every step.                                                *)
LEMMA RepliesKept ==
  ASSUME ServerInv, ServerInv', ClientsInStep, OwnReply, [Next]_vars
  PROVE  ClientsInStep' /\ OwnReply'
<1>1. TypeOK /\ conns' \in Seq(Connections)
  BY DEF ServerInv, TypeOK
<1>2. CASE Loop
  <2>1. got' = got /\ stale' = stale /\ alive
    BY <1>2 DEF Loop, Accept, Evaluate
  <2>2. OwnReply'
    BY <1>1, <1>2, <2>1, ServerOwners, NothingCalled
  <2>3. CASE UNCHANGED <<limit, alive, conns, backlog, connAt, cnetFns, client, got, made, stale>>
    BY <2>2, <2>3, QuietInStep
  <2>4. CASE Accept
    BY <2>2, <2>4, AcceptInStep
  <2>5. CASE Evaluate
    BY <2>1, <2>2, <2>5, EvaluateInStep
  <2> QED
    BY <1>2, <2>3, <2>4, <2>5 DEF Loop
<1>3. CASE Clock
  <2>1. UNCHANGED <<limit, alive, conns, backlog, connAt, cnetFns, client, got, made, stale>>
    BY <1>3 DEF Clock
  <2>2. OwnersStay
    BY <2>1, NoConnection
  <2> QED
    BY <1>1, <2>1, <2>2, QuietInStep, NothingCalled
<1>4. ASSUME NEW c \in Clients, Step(c)
      PROVE  ClientsInStep' /\ OwnReply'
  BY <1>4, StepInStep, StepCalls
<1>5. ASSUME NEW c \in Clients, Connect(c) \/ Send(c) \/ RecvReply(c) \/ Reconnect(c) \/ Exit(c)
      PROVE  ClientsInStep' /\ OwnReply'
  <2>1. got' = got /\ stale \subseteq stale'
    BY <1>5 DEF Connect, Send, RecvReply, Reconnect, Exit
  <2>2. OwnersStay
    BY <1>5, ClientOwners DEF ClientStep
  <2>3. OwnReply'
    BY <1>1, <2>1, <2>2, NothingCalled
  <2>4. ClientsInStep'
    BY <1>5, ConnectInStep, SendInStep, RecvReplyInStep, ReconnectInStep, ExitInStep
  <2> QED
    BY <2>3, <2>4
<1>6. CASE UNCHANGED vars
  <2>1. UNCHANGED <<alive, conns, connAt, cnetFns, client, got, made, stale>>
    BY <1>6 DEF vars
  <2>2. OwnersStay
    BY <2>1, NoConnection
  <2> QED
    BY <1>1, <2>1, <2>2, QuietInStep, NothingCalled
<1> QED
  BY <1>2, <1>3, <1>4, <1>5, <1>6 DEF Next, ClientStep

(* A callback is called with the result of its own call, for any number of *)
(* clients, functions and descriptors: net.H:1241.                         *)
THEOREM OwnReplies == Spec => []OwnReply
<1>1. Init => ServerInv
  BY ServerInit
<1>2. Init => ClientsInStep /\ OwnReply
  <2>1. SUFFICES ASSUME Init PROVE ClientsInStep /\ OwnReply
    OBVIOUS
  <2>2. \A c \in Clients : client[c] = NewClient /\ client[c].phase = "new"
    BY <2>1 DEF Init, NewClient
  <2> QED
    BY <2>1, <2>2 DEF ClientsInStep, ClientInStep, OwnReply, Init
<1>3. ServerInv /\ [Next]_vars => ServerInv'
  BY ServerNext
<1>4. ServerInv /\ ServerInv' /\ ClientsInStep /\ OwnReply /\ [Next]_vars => ClientsInStep' /\ OwnReply'
  BY RepliesKept
<1> QED
  BY <1>1, <1>2, <1>3, <1>4, PTL DEF Spec
===============================================================================
