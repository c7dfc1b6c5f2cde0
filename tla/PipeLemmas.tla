------------------------------ MODULE PipeLemmas ------------------------------
(***************************************************************************)
(* What is on a pipe after one message was written to it or read from it:   *)
(* shared by the proofs about TunnelHost, TunnelClient and Tunnel.           *)
(***************************************************************************)
EXTENDS SequenceTheorems, TLAPS

\* A Write puts its message on the pipe.
LEMMA RangeAppended ==
    ASSUME NEW S, NEW pipe \in Seq(S), NEW m \in S
    PROVE  Range(Append(pipe, m)) = Range(pipe) \cup {m}
<1>1. /\ Append(pipe, m) \in Seq(S) /\ Len(Append(pipe, m)) = Len(pipe) + 1
      /\ \A i \in 1 .. Len(pipe) : Append(pipe, m)[i] = pipe[i]
      /\ Append(pipe, m)[Len(pipe) + 1] = m
  BY AppendProperties
<1>2. /\ DOMAIN pipe = 1 .. Len(pipe) /\ Len(pipe) \in Nat
      /\ DOMAIN Append(pipe, m) = 1 .. Len(pipe) + 1
  BY <1>1, LenProperties
<1>3. ASSUME NEW x \in Range(Append(pipe, m)) PROVE x \in Range(pipe) \cup {m}
  <2>1. PICK i \in 1 .. Len(pipe) + 1 : x = Append(pipe, m)[i]
    BY <1>2, <1>3 DEF Range
  <2>2. i \in 1 .. Len(pipe) \/ i = Len(pipe) + 1
    BY <1>2
  <2> QED
    BY <1>1, <1>2, <2>1, <2>2 DEF Range
<1>4. Range(pipe) \subseteq Range(Append(pipe, m))
  <2> SUFFICES ASSUME NEW i \in 1 .. Len(pipe) PROVE pipe[i] \in Range(Append(pipe, m))
    BY <1>2 DEF Range
  <2>1. i \in 1 .. Len(pipe) + 1
    BY <1>2
  <2> QED
    BY <1>1, <1>2, <2>1 DEF Range
<1>5. m \in Range(Append(pipe, m))
  <2>1. Len(pipe) + 1 \in 1 .. Len(pipe) + 1
    BY <1>2
  <2> QED
    BY <1>1, <1>2, <2>1 DEF Range
<1> QED
  BY <1>3, <1>4, <1>5

\* A Read takes one message off it.
LEMMA RangeRead ==
    ASSUME NEW S, NEW pipe \in Seq(S), pipe # <<>>
    PROVE  /\ Head(pipe) \in Range(pipe)
           /\ Range(pipe) = Range(Tail(pipe)) \cup {Head(pipe)}
<1>1. /\ Tail(pipe) \in Seq(S) /\ Len(Tail(pipe)) = Len(pipe) - 1
      /\ \A i \in 1 .. Len(Tail(pipe)) : Tail(pipe)[i] = pipe[i + 1]
  BY HeadTailProperties
<1>2. /\ DOMAIN pipe = 1 .. Len(pipe) /\ Len(pipe) \in Nat /\ Len(pipe) > 0
      /\ DOMAIN Tail(pipe) = 1 .. Len(pipe) - 1 /\ Head(pipe) = pipe[1]
  BY <1>1, LenProperties, EmptySeq
<1>3. Head(pipe) \in Range(pipe)
  <2>1. 1 \in 1 .. Len(pipe)
    BY <1>2
  <2> QED
    BY <1>2, <2>1 DEF Range
<1>4. Range(Tail(pipe)) \subseteq Range(pipe)
  <2> SUFFICES ASSUME NEW i \in 1 .. Len(pipe) - 1 PROVE Tail(pipe)[i] \in Range(pipe)
    BY <1>2 DEF Range
  <2>1. i + 1 \in 1 .. Len(pipe) /\ Tail(pipe)[i] = pipe[i + 1]
    BY <1>1, <1>2
  <2> QED
    BY <1>2, <2>1 DEF Range
<1>5. ASSUME NEW x \in Range(pipe), x # Head(pipe) PROVE x \in Range(Tail(pipe))
  <2>1. PICK i \in 1 .. Len(pipe) : x = pipe[i]
    BY <1>2, <1>5 DEF Range
  <2>2. i # 1
    BY <1>2, <1>5, <2>1
  <2>3. i - 1 \in 1 .. Len(pipe) - 1 /\ (i - 1) + 1 = i
    BY <1>2, <2>2
  <2>4. Tail(pipe)[i - 1] = x
    BY <1>1, <1>2, <2>1, <2>3
  <2> QED
    BY <1>2, <2>3, <2>4 DEF Range
<1> QED
  BY <1>3, <1>4, <1>5

\* No message but any is on the pipe twice: one that is not on it joins it without
\* making a pair, and one that is read does not come again.
Distinct(pipe, any) == \A i, j \in DOMAIN pipe : pipe[i] = pipe[j] /\ pipe[i] # any => i = j

LEMMA DistinctAppended ==
    ASSUME NEW S, NEW pipe \in Seq(S), NEW any, Distinct(pipe, any),
           NEW m \in S, m = any \/ m \notin Range(pipe)
    PROVE  Distinct(Append(pipe, m), any)
<1>1. /\ Append(pipe, m) \in Seq(S) /\ Len(Append(pipe, m)) = Len(pipe) + 1
      /\ \A i \in 1 .. Len(pipe) : Append(pipe, m)[i] = pipe[i]
      /\ Append(pipe, m)[Len(pipe) + 1] = m
  BY AppendProperties
<1>2. /\ DOMAIN pipe = 1 .. Len(pipe) /\ Len(pipe) \in Nat
      /\ DOMAIN Append(pipe, m) = 1 .. Len(pipe) + 1
  BY <1>1, LenProperties
<1>3. ASSUME NEW i \in 1 .. Len(pipe) PROVE pipe[i] # m \/ m = any
  BY <1>2, <1>3 DEF Range
<1> SUFFICES ASSUME NEW i \in 1 .. Len(pipe) + 1, NEW j \in 1 .. Len(pipe) + 1,
                    Append(pipe, m)[i] = Append(pipe, m)[j], Append(pipe, m)[i] # any
             PROVE  i = j
  BY <1>2 DEF Distinct
<1>4. /\ i \in 1 .. Len(pipe) \/ i = Len(pipe) + 1
      /\ j \in 1 .. Len(pipe) \/ j = Len(pipe) + 1
  BY <1>2
<1> QED
  BY <1>1, <1>2, <1>3, <1>4 DEF Distinct

LEMMA DistinctRead ==
    ASSUME NEW S, NEW pipe \in Seq(S), NEW any, Distinct(pipe, any), pipe # <<>>
    PROVE  Distinct(Tail(pipe), any) /\ (Head(pipe) # any => Head(pipe) \notin Range(Tail(pipe)))
<1>1. /\ Tail(pipe) \in Seq(S) /\ Len(Tail(pipe)) = Len(pipe) - 1
      /\ \A i \in 1 .. Len(Tail(pipe)) : Tail(pipe)[i] = pipe[i + 1]
  BY HeadTailProperties
<1>2. /\ DOMAIN pipe = 1 .. Len(pipe) /\ Len(pipe) \in Nat /\ Len(pipe) > 0
      /\ DOMAIN Tail(pipe) = 1 .. Len(pipe) - 1 /\ Head(pipe) = pipe[1]
  BY <1>1, LenProperties, EmptySeq
<1>3. ASSUME NEW i \in 1 .. Len(pipe) - 1
      PROVE  i + 1 \in 1 .. Len(pipe) /\ Tail(pipe)[i] = pipe[i + 1] /\ i + 1 # 1
  BY <1>1, <1>2
<1>4. 1 \in 1 .. Len(pipe)
  BY <1>2
<1>5. ASSUME NEW i \in 1 .. Len(pipe) - 1, Head(pipe) # any
      PROVE  Tail(pipe)[i] # Head(pipe)
  BY <1>2, <1>3, <1>4, <1>5 DEF Distinct
<1>6. ASSUME NEW i \in 1 .. Len(pipe) - 1, NEW j \in 1 .. Len(pipe) - 1,
             Tail(pipe)[i] = Tail(pipe)[j], Tail(pipe)[i] # any
      PROVE  i = j
  <2>1. i + 1 = j + 1
    BY <1>2, <1>3, <1>6 DEF Distinct
  <2> QED
    BY <2>1
<1> QED
  BY <1>2, <1>5, <1>6 DEF Distinct, Range

LEMMA EmptyPipe == Range(<<>>) = {} /\ \A any : Distinct(<<>>, any)
  BY DEF Range, Distinct
===============================================================================
