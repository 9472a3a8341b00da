----------------------------- MODULE AnswerProofs -----------------------------
(***************************************************************************)
(* Every buffer the guest gives the decoder of Codec is answered once: by  *)
(* counting the places an answer goes through, the queues of the component *)
(* and of the worker threads and the callbacks that are waiting for the    *)
(* ring.                                                                   *)
(***************************************************************************)
EXTENDS CodecProofs

-------------------------------------------------------------------------------
(* Counting in sequences.                                                  *)
LEMMA SameElements ==
  ASSUME NEW S, NEW s \in Seq(S), NEW r \in Seq(S), Len(s) = Len(r),
         \A i \in 1 .. Len(s) : s[i] = r[i]
  PROVE  s = r
OBVIOUS

LEMMA AppendIsConcat ==
  ASSUME NEW S, NEW s \in Seq(S), NEW x \in S PROVE Append(s, x) = s \o <<x>>
OBVIOUS

LEMMA TailIs ==
  ASSUME NEW S, NEW s \in Seq(S), s # <<>>
  PROVE  /\ Tail(s) \in Seq(S) /\ Len(Tail(s)) = Len(s) - 1
         /\ \A i \in 1 .. Len(Tail(s)) : Tail(s)[i] = s[i + 1]
OBVIOUS

LEMMA CountNat ==
  ASSUME NEW S, NEW s \in Seq(S), NEW e
  PROVE  /\ IsFiniteSet({i \in 1 .. Len(s) : s[i] = e}) /\ Count(e, s) \in Nat
         /\ Count(e, s) = Cardinality({i \in 1 .. Len(s) : s[i] = e})
<1>1. DOMAIN s = 1 .. Len(s) /\ Len(s) \in Nat
  OBVIOUS
<1>2. IsFiniteSet(1 .. Len(s))
  BY <1>1, FS_Interval
<1>3. IsFiniteSet({i \in 1 .. Len(s) : s[i] = e})
  BY <1>2, FS_Subset
<1> QED BY <1>1, <1>3, FS_CardinalityType, Zenon DEF Count

LEMMA CountEmpty == \A e : Count(e, <<>>) = 0
<1> SUFFICES ASSUME NEW e PROVE Count(e, <<>>) = 0
  OBVIOUS
<1>1. {i \in DOMAIN <<>> : <<>>[i] = e} = {}
  OBVIOUS
<1> QED BY <1>1, FS_EmptySet DEF Count

LEMMA CountOne == ASSUME NEW x, NEW e PROVE Count(e, <<x>>) = One(x = e)
<1>1. DOMAIN <<x>> = {1} /\ <<x>>[1] = x
  OBVIOUS
<1>2. CASE x = e
  <2>1. {i \in DOMAIN <<x>> : <<x>>[i] = e} = {1}
    BY <1>1, <1>2
  <2> QED BY <1>2, <2>1, FS_Singleton, ZenonT(30) DEF Count, One
<1>3. CASE x # e
  <2>1. {i \in DOMAIN <<x>> : <<x>>[i] = e} = {}
    BY <1>1, <1>3
  <2> QED BY <1>3, <2>1, FS_EmptySet DEF Count, One
<1> QED BY <1>2, <1>3

LEMMA CountConcat ==
  ASSUME NEW S, NEW s \in Seq(S), NEW r \in Seq(S), NEW e
  PROVE  Count(e, s \o r) = Count(e, s) + Count(e, r)
<1> DEFINE A == {i \in 1 .. Len(s) : s[i] = e}
           B == {i \in 1 .. Len(r) : r[i] = e}
           C == {i + Len(s) : i \in B}
           f == [i \in B |-> i + Len(s)]
           u == s \o r
           T == {i \in 1 .. Len(u) : u[i] = e}
<1>1. /\ u \in Seq(S) /\ Len(u) = Len(s) + Len(r) /\ Len(s) \in Nat /\ Len(r) \in Nat
      /\ \A i \in 1 .. Len(s) : u[i] = s[i]
      /\ \A i \in 1 .. Len(r) : u[i + Len(s)] = r[i]
  OBVIOUS
<1> HIDE DEF u
<1>2. T = A \cup C
  <2>1. ASSUME NEW i \in T PROVE i \in A \cup C
    <3>1. CASE i <= Len(s)
      BY <1>1, <3>1
    <3>2. CASE i > Len(s)
      <4>1. i - Len(s) \in 1 .. Len(r) /\ i = (i - Len(s)) + Len(s)
        BY <1>1, <3>2
      <4>2. i - Len(s) \in B
        BY <1>1, <4>1
      <4> QED BY <4>1, <4>2
    <3> QED BY <1>1, <3>1, <3>2
  <2>2. ASSUME NEW i \in A PROVE i \in T
    BY <1>1
  <2>3. ASSUME NEW i \in B PROVE i + Len(s) \in T
    BY <1>1
  <2> QED BY <2>1, <2>2, <2>3, Zenon
<1>3. A \cap C = {}
  BY <1>1
<1>4. f \in Bijection(B, C)
  <2>1. f \in [B -> C] /\ \A i, j \in B : f[i] = f[j] => i = j
    BY <1>1
  <2>2. \A j \in C : \E i \in B : f[i] = j
    OBVIOUS
  <2> QED BY <2>1, <2>2 DEF Bijection, Injection, Surjection, IsInjective
<1>5. /\ IsFiniteSet(A) /\ Count(e, s) = Cardinality(A) /\ Count(e, s) \in Nat
      /\ IsFiniteSet(B) /\ Count(e, r) = Cardinality(B) /\ Count(e, r) \in Nat
      /\ Count(e, u) = Cardinality(T)
  BY <1>1, CountNat, Zenon
<1> HIDE DEF A, B, C, T, f
<1>6. ExistsBijection(B, C)
  BY <1>4 DEF ExistsBijection
<1>7. IsFiniteSet(C) /\ Cardinality(C) = Cardinality(B)
  BY <1>5, <1>6, FS_Bijection
<1>8. Cardinality(T) = Cardinality(A) + Cardinality(C) - Cardinality(A \cap C)
  BY <1>2, <1>5, <1>7, FS_Union
<1>9. Cardinality(A \cap C) = 0
  BY <1>3, FS_EmptySet, Zenon
<1> QED BY <1>5, <1>7, <1>8, <1>9 DEF u

LEMMA CountAppend ==
  ASSUME NEW S, NEW s \in Seq(S), NEW x \in S, NEW e
  PROVE  Count(e, Append(s, x)) = Count(e, s) + One(x = e)
<1>1. Append(s, x) = s \o <<x>> /\ <<x>> \in Seq(S)
  BY AppendIsConcat
<1>2. Count(e, s \o <<x>>) = Count(e, s) + Count(e, <<x>>)
  BY <1>1, CountConcat, Zenon
<1>3. Count(e, <<x>>) = One(x = e)
  BY CountOne
<1> QED BY <1>1, <1>2, <1>3

LEMMA CountTail ==
  ASSUME NEW S, NEW s \in Seq(S), s # <<>>, NEW e
  PROVE  /\ Head(s) \in S /\ Tail(s) \in Seq(S)
         /\ Count(e, s) = One(Head(s) = e) + Count(e, Tail(s))
<1>1. <<Head(s)>> \o Tail(s) = s /\ Head(s) \in S /\ <<Head(s)>> \in Seq(S) /\ Tail(s) \in Seq(S)
  OBVIOUS
<1>2. Count(e, <<Head(s)>> \o Tail(s)) = Count(e, <<Head(s)>>) + Count(e, Tail(s))
  BY <1>1, CountConcat, Zenon
<1>3. Count(e, <<Head(s)>>) = One(Head(s) = e)
  BY CountOne
<1> QED BY <1>1, <1>2, <1>3, Zenon

LEMMA CountSplit ==
  ASSUME NEW S, NEW s \in Seq(S), NEW n \in 0 .. Len(s), NEW e
  PROVE  /\ SubSeq(s, 1, n) \in Seq(S) /\ SubSeq(s, n + 1, Len(s)) \in Seq(S)
         /\ Count(e, s) = Count(e, SubSeq(s, 1, n)) + Count(e, SubSeq(s, n + 1, Len(s)))
<1> DEFINE a == SubSeq(s, 1, n)
           b == SubSeq(s, n + 1, Len(s))
<1>1. /\ a \in Seq(S) /\ b \in Seq(S) /\ Len(a) = n /\ Len(b) = Len(s) - n /\ Len(s) \in Nat
      /\ \A i \in 1 .. n : a[i] = s[i]
      /\ \A i \in 1 .. Len(s) - n : b[i] = s[i + n]
  OBVIOUS
<1> HIDE DEF a, b
<1>2. a \o b \in Seq(S) /\ Len(a \o b) = Len(s)
  BY <1>1
<1>3. \A i \in 1 .. Len(s) : (a \o b)[i] = s[i]
  <2> SUFFICES ASSUME NEW i \in 1 .. Len(s) PROVE (a \o b)[i] = s[i]
    BY ZenonT(30)
  <2>1. CASE i <= n
    BY <1>1, <2>1
  <2>2. CASE i > n
    <3>1. i - n \in 1 .. Len(s) - n /\ (i - n) + n = i
      BY <1>1, <2>2
    <3>2. (a \o b)[i] = b[i - n]
      BY <1>1, <2>2
    <3> QED BY <1>1, <3>1, <3>2
  <2> QED BY <1>1, <2>1, <2>2
<1>4. a \o b = s
  BY <1>2, <1>3, SameElements, Zenon
<1>5. Count(e, s) = Count(e, a) + Count(e, b)
  BY <1>1, <1>4, CountConcat, Zenon
<1> QED BY <1>1, <1>5 DEF a, b

-------------------------------------------------------------------------------
(* Every input buffer is answered once.                                    *)
Answered(i) == Count(i, InputIds) + Callbacks(i) + One(i \in given)
InAnswered == \A i \in Inputs : Answered(i) = 1

LEMMA SaySets ==
  ASSUME NotifyIInv, cpc # "say", NEW s, NEW pc, Say(s, pc)
  PROVE  say = <<>> /\ say' = s
BY DEF Say, NotifyIInv

LEMMA CountsNat ==
  ASSUME CodecIInv, NEW e
  PROVE  /\ Count(e, InputIds) \in Nat /\ Count(e, say) \in Nat /\ Count(e, callbacks) \in Nat
         /\ Count(e, output_buffers) \in Nat /\ Callbacks(e) \in Nat
<1>1. InputIds \in Seq(Inputs)
  BY Ids DEF CodecIInv
<1>2. Count(e, InputIds) \in Nat
  BY <1>1, CountNat, Zenon
<1>3. Count(e, say) \in Nat /\ Count(e, callbacks) \in Nat
  BY CountNat, Zenon DEF CodecIInv, QueueIInv
<1>4. Count(e, output_buffers) \in Nat
  BY CountNat, Zenon DEF CodecIInv, OutputIInv
<1> QED BY <1>2, <1>3, <1>4 DEF Callbacks

LEMMA OneOrZero == \A test \in BOOLEAN : One(test) \in {0, 1} /\ (One(test) = 1 <=> test)
BY DEF One

(* The "event" is no buffer, and no buffer is input and output.            *)
LEMMA CountEvent ==
  ASSUME NEW s \in Seq(Callback), NEW e \in Inputs \cup Bufs
  PROVE  Append(s, "event") \in Seq(Callback) /\ Count(e, Append(s, "event")) = Count(e, s)
<1>1. "event" \in Callback /\ "event" # e
  BY InputsAssumption DEF Callback
<1>2. Count(e, Append(s, "event")) = Count(e, s) + One("event" = e)
  BY <1>1, CountAppend
<1>3. Count(e, s) \in Nat
  BY CountNat, Zenon
<1> QED BY <1>1, <1>2, <1>3 DEF One

LEMMA CountOther ==
  ASSUME NEW S, NEW s \in Seq(S), NEW e, e \notin S PROVE Count(e, s) = 0
<1>1. {i \in 1 .. Len(s) : s[i] = e} = {}
  OBVIOUS
<1> QED BY <1>1, CountNat, FS_EmptySet

LEMMA SeqIsFunction ==
  ASSUME NEW S, NEW q \in Seq(S) PROVE q = [i \in 1 .. Len(q) |-> q[i]]
OBVIOUS

LEMMA IdsTail ==
  ASSUME QueueIInv, input_buffers # <<>>, input_buffers' = Tail(input_buffers)
  PROVE  InputIds # <<>> /\ InputIds' = Tail(InputIds)
<1>1. /\ InputIds \in Seq(Inputs) /\ Len(InputIds) = Len(input_buffers) /\ Len(input_buffers) \in Nat
      /\ \A i \in 1 .. Len(input_buffers) : InputIds[i] = input_buffers[i][1]
  BY Ids
<1>2. input_buffers \in Seq(Inputs \X Flags)
  BY DEF QueueIInv
<1>3. InputIds # <<>> /\ Len(input_buffers) > 0
  BY <1>1, <1>2
<1>4. Len(Tail(input_buffers)) = Len(input_buffers) - 1
      /\ \A i \in 1 .. Len(input_buffers) - 1 : Tail(input_buffers)[i] = input_buffers[i + 1]
  BY <1>2, <1>3
<1>5. InputIds' = [i \in 1 .. Len(input_buffers) - 1 |-> input_buffers[i + 1][1]]
  BY <1>4 DEF InputIds
<1>6. Tail(InputIds) = [i \in 1 .. Len(InputIds) - 1 |-> InputIds[i + 1]]
  <2> DEFINE q == Tail(InputIds)
  <2>1. /\ q \in Seq(Inputs) /\ Len(q) = Len(InputIds) - 1
        /\ \A i \in 1 .. Len(q) : q[i] = InputIds[i + 1]
    BY <1>1, <1>3, TailIs
  <2> HIDE DEF q
  <2>2. q = [i \in 1 .. Len(q) |-> q[i]]
    BY <2>1, SeqIsFunction
  <2>3. q = [i \in 1 .. Len(InputIds) - 1 |-> InputIds[i + 1]]
    BY <2>1, <2>2
  <2> QED BY <2>3 DEF q
<1>7. \A i \in 1 .. Len(input_buffers) - 1 : InputIds[i + 1] = input_buffers[i + 1][1]
  BY <1>1
<1> QED BY <1>1, <1>3, <1>5, <1>6, <1>7

LEMMA IdsSuffix ==
  ASSUME QueueIInv, NEW n \in 0 .. Len(input_buffers),
         input_buffers' = SubSeq(input_buffers, n + 1, Len(input_buffers))
  PROVE  InputIds' = SubSeq(InputIds, n + 1, Len(InputIds))
<1>1. /\ InputIds \in Seq(Inputs) /\ Len(InputIds) = Len(input_buffers) /\ Len(input_buffers) \in Nat
      /\ \A i \in 1 .. Len(input_buffers) : InputIds[i] = input_buffers[i][1]
  BY Ids
<1>2. input_buffers \in Seq(Inputs \X Flags)
  BY DEF QueueIInv
<1> DEFINE m == Len(input_buffers) - n
<1>3. /\ Len(input_buffers') = m /\ m \in Nat
      /\ \A i \in 1 .. m : input_buffers'[i] = input_buffers[i + n]
  BY <1>1, <1>2
<1>4. InputIds' = [i \in 1 .. m |-> input_buffers[i + n][1]]
  BY <1>3 DEF InputIds
<1>5. SubSeq(InputIds, n + 1, Len(InputIds)) = [i \in 1 .. m |-> InputIds[i + n]]
  BY <1>1
<1>6. \A i \in 1 .. m : InputIds[i + n] = input_buffers[i + n][1]
  BY <1>1
<1> QED BY <1>4, <1>5, <1>6, Zenon

LEMMA IdsAppend ==
  ASSUME QueueIInv, NEW b \in Inputs, NEW flag \in Flags, input_buffers' = Append(input_buffers, <<b, flag>>)
  PROVE  InputIds' = Append(InputIds, b)
<1>1. /\ InputIds \in Seq(Inputs) /\ Len(InputIds) = Len(input_buffers) /\ Len(input_buffers) \in Nat
      /\ \A i \in 1 .. Len(input_buffers) : InputIds[i] = input_buffers[i][1]
  BY Ids
<1>2. input_buffers \in Seq(Inputs \X Flags)
  BY DEF QueueIInv
<1> DEFINE m == Len(input_buffers)
<1>3. /\ Len(input_buffers') = m + 1 /\ input_buffers'[m + 1] = <<b, flag>>
      /\ \A i \in 1 .. m : input_buffers'[i] = input_buffers[i]
  BY <1>1, <1>2
<1>4. InputIds' = [i \in 1 .. m + 1 |-> input_buffers'[i][1]]
  BY <1>3 DEF InputIds
<1>5. /\ Append(InputIds, b) \in Seq(Inputs) /\ Len(Append(InputIds, b)) = m + 1
      /\ \A i \in 1 .. m : Append(InputIds, b)[i] = InputIds[i]
      /\ Append(InputIds, b)[m + 1] = b
  BY <1>1
<1>6. \A i \in 1 .. m + 1 : Append(InputIds, b)[i] = input_buffers'[i][1]
  BY <1>1, <1>3, <1>5
<1>7. Append(InputIds, b) = [i \in 1 .. m + 1 |-> Append(InputIds, b)[i]]
  BY <1>5, SeqIsFunction, ZenonT(30)
<1> QED BY <1>4, <1>6, <1>7

(* What D takes from the input queue it says, and it says it once.         *)
LEMMA InSay ==
  ASSUME CodecIInv, CodecIInv', InAnswered, cpc # "say", NEW s, NEW pc, Say(s, pc),
         UNCHANGED <<callbacks, given>>,
         \A i \in Inputs : Count(i, InputIds) = Count(i, s) + Count(i, InputIds')
  PROVE  InAnswered'
<1> SUFFICES ASSUME NEW i \in Inputs PROVE Answered(i)' = 1
  BY DEF InAnswered
<1>1. say = <<>> /\ say' = s
  BY SaySets DEF CodecIInv
<1>2. Count(i, say) = 0
  BY <1>1, CountEmpty
<1>3. Count(i, InputIds) + (Count(i, say) + Count(i, callbacks)) + One(i \in given) = 1
  BY DEF InAnswered, Answered, Callbacks
<1>4. Count(i, InputIds)' = Count(i, InputIds') /\ Count(i, say)' = Count(i, s)
      /\ Count(i, callbacks)' = Count(i, callbacks) /\ One(i \in given)' = One(i \in given)
  BY <1>1 DEF Count, One
<1>5. /\ Count(i, s) \in Nat /\ Count(i, callbacks) \in Nat /\ Count(i, InputIds') \in Nat
      /\ Count(i, InputIds) \in Nat
  <2>1. s \in Seq(Callback) /\ callbacks \in Seq(Callback)
    BY <1>1, ZenonT(30) DEF CodecIInv, QueueIInv
  <2>2. Count(i, InputIds)' \in Nat
    <3>1. InputIds' \in Seq(Inputs)
      <4>1. input_buffers' \in Seq(Inputs \X Flags)
        BY DEF CodecIInv, QueueIInv
      <4> QED BY <4>1 DEF InputIds
    <3> QED BY <1>4, <3>1, CountNat, ZenonT(30)
  <2> QED BY <1>4, <2>1, <2>2, CountNat, CountsNat, ZenonT(30)
<1>6. One(i \in given) \in {0, 1}
  BY DEF One
<1> QED BY <1>2, <1>3, <1>4, <1>5, <1>6 DEF Answered, Callbacks

LEMMA InSame ==
  ASSUME InAnswered, UNCHANGED <<input_buffers, say, callbacks, given>> PROVE InAnswered'
BY DEF InAnswered, Answered, Callbacks, Count, InputIds, One

LEMMA InTaken ==
  ASSUME CodecIInv, NEW n \in 0 .. Len(input_buffers), Takes(n), NEW i \in Inputs
  PROVE  Count(i, InputIds) = Count(i, SubSeq(InputIds, 1, n)) + Count(i, InputIds')
<1>1. InputIds \in Seq(Inputs) /\ Len(InputIds) = Len(input_buffers)
  BY Ids DEF CodecIInv
<1>2. InputIds' = SubSeq(InputIds, n + 1, Len(InputIds))
  BY IdsSuffix DEF CodecIInv, Takes
<1> QED BY <1>1, <1>2, CountSplit

LEMMA InEmptied ==
  ASSUME CodecIInv, CodecIInv', InAnswered, Emptied,
         Say(<<Head(InputIds)>>, "fill") \/ Fails(<<Head(InputIds)>>)
  PROVE  InAnswered'
<1>1. /\ cpc # "say" /\ UNCHANGED <<callbacks, given>>
      /\ input_buffers # <<>> /\ input_buffers' = Tail(input_buffers)
  BY ZenonT(30) DEF Emptied, CodecIInv, QueueIInv, note
<1>2. InputIds # <<>> /\ InputIds' = Tail(InputIds) /\ InputIds \in Seq(Inputs)
  BY <1>1, IdsTail, Ids DEF CodecIInv
<1>3. Head(InputIds) \in Callback /\ <<Head(InputIds)>> \in Seq(Callback)
  BY <1>2 DEF Callback
<1>4. ASSUME NEW i \in Inputs
      PROVE  /\ Count(i, InputIds) = Count(i, <<Head(InputIds)>>) + Count(i, InputIds')
             /\ Count(i, Append(<<Head(InputIds)>>, "event")) = Count(i, <<Head(InputIds)>>)
  <2>1. Count(i, InputIds) = One(Head(InputIds) = i) + Count(i, Tail(InputIds))
    BY <1>2, CountTail
  <2>2. Count(i, <<Head(InputIds)>>) = One(Head(InputIds) = i)
    BY CountOne
  <2>3. Count(i, Append(<<Head(InputIds)>>, "event")) = Count(i, <<Head(InputIds)>>)
    BY <1>3, CountEvent, ZenonT(30)
  <2> QED BY <1>2, <2>1, <2>2, <2>3
<1>5. CASE Say(<<Head(InputIds)>>, "fill")
  BY <1>1, <1>4, <1>5, InSay
<1>6. CASE Fails(<<Head(InputIds)>>)
  BY <1>1, <1>4, <1>6, InSay DEF Fails
<1> QED BY <1>5, <1>6

LEMMA InOpen ==
  ASSUME CodecIInv, CodecIInv', InAnswered, NEW n \in 0 .. Len(input_buffers),
         cpc # "say", Takes(n), UNCHANGED <<callbacks, given>>,
         Say(SubSeq(InputIds, 1, n), "empty") \/ Fails(SubSeq(InputIds, 1, n))
  PROVE  InAnswered'
<1> DEFINE s == SubSeq(InputIds, 1, n)
<1>1. InputIds \in Seq(Callback) /\ Len(InputIds) = Len(input_buffers) /\ Len(input_buffers) \in Nat
  BY Ids DEF CodecIInv
<1>2. s \in Seq(Callback)
  BY <1>1
<1>3. \A i \in Inputs : Count(i, InputIds) = Count(i, s) + Count(i, InputIds')
  BY InTaken
<1>4. Say(s, "empty") \/ Fails(s)
  OBVIOUS
<1> HIDE DEF s
<1>5. \A i \in Inputs : Count(i, Append(s, "event")) = Count(i, s)
  BY <1>2, CountEvent
<1>6. CASE Say(s, "empty")
  BY <1>3, <1>6, InSay
<1>7. CASE Fails(s)
  BY <1>3, <1>5, <1>7, InSay DEF Fails
<1> QED BY <1>4, <1>6, <1>7

(* No output buffer counts as input.                                       *)
LEMMA InOutput ==
  ASSUME CodecIInv, NEW i \in Inputs
  PROVE  /\ Count(i, output_buffers) = 0 /\ output_buffers \in Seq(Callback)
         /\ output_buffers # <<>> => Count(i, <<Head(output_buffers)>>) = 0
<1>1. output_buffers \in Seq(Bufs) /\ i \notin Bufs
  BY InputsAssumption DEF CodecIInv, OutputIInv
<1>2. Count(i, output_buffers) = 0
  BY <1>1, CountOther
<1>3. ASSUME output_buffers # <<>> PROVE Count(i, <<Head(output_buffers)>>) = 0
  <2>1. <<Head(output_buffers)>> \in Seq(Bufs)
    BY <1>1, <1>3
  <2> QED BY <1>1, <2>1, CountOther, ZenonT(30)
<1> QED BY <1>1, <1>2, <1>3 DEF Callback

LEMMA InFilled ==
  ASSUME CodecIInv, CodecIInv', InAnswered, D_End \/ D_Frame \/ D_ReceiveFails PROVE InAnswered'
<1>1. cpc # "say" /\ UNCHANGED <<callbacks, given, input_buffers>>
  BY DEF D_End, D_Frame, D_ReceiveFails, Filled, note
<1>2. InputIds' = InputIds
  BY <1>1 DEF InputIds
<1>3. PICK s, pc : /\ Say(s, pc)
                   /\ \/ s = <<>> \/ s = Append(<<>>, "event")
                      \/ cpc = "got" /\ s = <<Head(output_buffers)>>
  BY DEF D_End, D_Frame, D_ReceiveFails, Filled, Fails
<1>4. ASSUME NEW i \in Inputs PROVE Count(i, s) = 0
  <2>1. Count(i, <<>>) = 0
    BY CountEmpty
  <2>2. Count(i, Append(<<>>, "event")) = 0
    <3>1. <<>> \in Seq(Callback)
      OBVIOUS
    <3> QED BY <2>1, <3>1, CountEvent, Zenon
  <2>3. cpc = "got" => Count(i, <<Head(output_buffers)>>) = 0
    BY InOutput DEF CodecIInv, OutputIInv
  <2> QED BY <1>3, <2>1, <2>2, <2>3
<1>5. \A i \in Inputs : Count(i, InputIds) = Count(i, s) + Count(i, InputIds')
  BY <1>2, <1>4, CountsNat
<1> QED BY <1>1, <1>3, <1>5, InSay

LEMMA InFlush ==
  ASSUME CodecIInv, CodecIInv', InAnswered,
         SendIdle \/ \E input, output \in BOOLEAN : SendFlush(input, output)
  PROVE  InAnswered'
<1>1. cpc # "say" /\ UNCHANGED <<callbacks, given>>
  BY DEF SendIdle, SendFlush, note
<1>2. InputIds \in Seq(Callback) /\ output_buffers \in Seq(Callback) /\ "event" \in Callback
  BY Ids DEF CodecIInv, OutputIInv, Callback
<1>3. ASSUME input_buffers' = <<>>, NEW i PROVE Count(i, InputIds') = 0
  <2>1. InputIds' = <<>>
    BY <1>3 DEF InputIds
  <2> QED BY <2>1, CountEmpty
<1>4. CASE SendIdle
  <2> DEFINE r == InputIds \o output_buffers
  <2>1. r \in Seq(Callback) /\ r \o <<"event">> = Append(r, "event")
    BY <1>2, AppendIsConcat
  <2>2. ASSUME NEW i \in Inputs PROVE Count(i, Append(r, "event")) = Count(i, InputIds)
    <3>1. Count(i, r) = Count(i, InputIds) + Count(i, output_buffers)
      BY <1>2, CountConcat
    <3>2. Count(i, output_buffers) = 0 /\ Count(i, InputIds) \in Nat
      BY InOutput, CountsNat
    <3>3. Count(i, Append(r, "event")) = Count(i, r)
      BY <2>1, CountEvent, ZenonT(30)
    <3> QED BY <3>1, <3>2, <3>3
  <2>3. Say(r \o <<"event">>, "idle") /\ input_buffers' = <<>>
    BY <1>4 DEF SendIdle
  <2> HIDE DEF r
  <2>4. \A i \in Inputs : Count(i, InputIds) = Count(i, Append(r, "event")) + Count(i, InputIds')
    BY <1>3, <2>2, <2>3, CountsNat
  <2> QED BY <1>1, <2>1, <2>3, <2>4, InSay, ZenonT(30)
<1>5. ASSUME NEW input \in BOOLEAN, NEW output \in BOOLEAN, SendFlush(input, output) PROVE InAnswered'
  <2> DEFINE s == IF input THEN Append(InputIds, "event") ELSE <<>>
             r == IF output THEN Append(output_buffers, "event") ELSE <<>>
  <2>1. s \in Seq(Callback) /\ r \in Seq(Callback)
    BY <1>2
  <2>2. Say(s \o r, "idle") /\ input_buffers' = IF input THEN <<>> ELSE input_buffers
    BY <1>5 DEF SendFlush
  <2>3. ASSUME NEW i \in Inputs PROVE Count(i, InputIds) = Count(i, s \o r) + Count(i, InputIds')
    <3>1. Count(i, s \o r) = Count(i, s) + Count(i, r)
      BY <2>1, CountConcat, ZenonT(30)
    <3>2. Count(i, r) = 0
      BY <1>2, InOutput, CountEvent, CountEmpty
    <3>3. CASE input
      <4>1. Count(i, s) = Count(i, InputIds) /\ Count(i, InputIds') = 0
        BY <1>2, <1>3, <2>2, <3>3, CountEvent
      <4> QED BY <3>1, <3>2, <4>1, CountsNat
    <3>4. CASE ~input
      <4>1. Count(i, s) = 0 /\ InputIds' = InputIds
        BY <2>2, <3>4, CountEmpty DEF InputIds
      <4> QED BY <3>1, <3>2, <4>1, CountsNat
    <3> QED BY <3>3, <3>4
  <2> HIDE DEF s, r
  <2> QED BY <1>1, <2>2, <2>3, InSay
<1> QED BY <1>4, <1>5

(* Publishing moves a callback of D to the ring; the guest takes it from   *)
(* there.                                                                  *)
LEMMA PublishMoves ==
  ASSUME CodecIInv, D_Publish, NEW e PROVE Callbacks(e)' = Callbacks(e)
<1>1. N_Publish(D) /\ D \in Notifiers /\ Message(D) = Head(say) /\ say' = Tail(say)
  BY DEF D_Publish, Notifiers, Message
<1>2. say \in Seq(Callback) /\ say # <<>> /\ callbacks \in Seq(Callback)
  BY <1>1, Zenon DEF CodecIInv, QueueIInv, NotifyIInv, N_Publish, Sends
<1>3. callbacks' = Append(callbacks, Head(say))
  BY <1>1, QueuePublish DEF CodecIInv
<1>4. Head(say) \in Callback /\ Count(e, say) = One(Head(say) = e) + Count(e, Tail(say))
      /\ Tail(say) \in Seq(Callback)
  BY <1>2, CountTail
<1>5. Count(e, Append(callbacks, Head(say))) = Count(e, callbacks) + One(Head(say) = e)
  BY <1>2, <1>4, CountAppend
<1>6. Count(e, Tail(say)) \in Nat /\ Count(e, callbacks) \in Nat /\ One(Head(say) = e) \in Nat
  BY <1>2, <1>4, CountNat, ZenonT(30) DEF One
<1>7. Callbacks(e)' = Count(e, Tail(say)) + Count(e, Append(callbacks, Head(say)))
  BY <1>1, <1>3 DEF Callbacks, Count
<1> QED BY <1>4, <1>5, <1>6, <1>7 DEF Callbacks

LEMMA ReadingTakes ==
  ASSUME CodecIInv, GuestReads, NEW e
  PROVE  /\ Callbacks(e)' \in Nat /\ Callbacks(e) = Callbacks(e)' + One(Head(callbacks) = e)
<1>1. callbacks \in Seq(Callback) /\ callbacks # <<>> /\ callbacks' = Tail(callbacks) /\ say' = say
  BY Zenon DEF CodecIInv, QueueIInv, GuestReads, run
<1>2. Count(e, callbacks) = One(Head(callbacks) = e) + Count(e, Tail(callbacks))
      /\ Tail(callbacks) \in Seq(Callback)
  BY <1>1, CountTail
<1>3. Count(e, Tail(callbacks)) \in Nat /\ Count(e, say) \in Nat /\ One(Head(callbacks) = e) \in Nat
  BY <1>2, CountNat, CountsNat, ZenonT(30) DEF One
<1>4. Callbacks(e)' = Count(e, say) + Count(e, Tail(callbacks))
  BY <1>1 DEF Callbacks, Count
<1> QED BY <1>2, <1>3, <1>4 DEF Callbacks

(* The worker w sends the callback of its task's buffer.                   *)
LEMMA WorkerPublishes ==
  ASSUME CodecIInv, NEW w \in Workers, W_Publish(w), NEW e
  PROVE  /\ wpc[w] = "pre" /\ wtask[w] \in Task /\ wtask[w].kind = "guest"
         /\ Callbacks(e)' = Callbacks(e) + One(wtask[w].buf = e)
<1>1. N_Publish(w) /\ w \in Notifiers /\ Message(w) = wtask[w].buf /\ say' = say
  BY DecoderAssumption DEF W_Publish, Notifiers, Message, run
<1>2. Sends(w)
  BY <1>1 DEF CodecIInv, NotifyIInv, N_Publish
<1>3. wpc[w] = "pre" /\ wtask[w].kind = "guest"
  BY <1>2, DecoderAssumption DEF Sends
<1>4. wtask[w] \in Task
  BY <1>3 DEF CodecIInv, TransferIInv, Own, Owns, At
<1>5. callbacks' = Append(callbacks, wtask[w].buf) /\ callbacks \in Seq(Callback)
  BY <1>1, QueuePublish, ZenonT(30) DEF CodecIInv, QueueIInv
<1>6. wtask[w].buf \in Callback
  BY <1>4 DEF Task, Callback
<1>7. Count(e, Append(callbacks, wtask[w].buf)) = Count(e, callbacks) + One(wtask[w].buf = e)
  BY <1>5, <1>6, CountAppend
<1>8. Callbacks(e)' = Count(e, say) + Count(e, Append(callbacks, wtask[w].buf))
  BY <1>1, <1>5, ZenonT(30) DEF Callbacks, Count
<1> QED BY <1>3, <1>4, <1>7, <1>8, CountsNat DEF Callbacks, One

LEMMA InProcess ==
  ASSUME CodecIInv, InAnswered, NEW b \in Inputs, NEW flag \in Flags, ProcessInput(b, flag)
  PROVE  InAnswered'
<1>1. /\ b \in given /\ given' = given \ {b} /\ UNCHANGED <<say, callbacks>>
      /\ input_buffers' = Append(input_buffers, <<b, flag>>)
  BY ZenonT(30) DEF ProcessInput, Process, note
<1>2. InputIds' = Append(InputIds, b) /\ InputIds \in Seq(Inputs)
  BY <1>1, IdsAppend, Ids DEF CodecIInv
<1> SUFFICES ASSUME NEW i \in Inputs PROVE Answered(i)' = 1
  BY DEF InAnswered
<1>3. Count(i, Append(InputIds, b)) = Count(i, InputIds) + One(b = i)
  BY <1>2, CountAppend
<1>4. Count(i, InputIds)' = Count(i, InputIds) + One(b = i)
  BY <1>2, <1>3, ZenonT(30) DEF Count
<1>5. Callbacks(i)' = Callbacks(i)
  BY <1>1 DEF Callbacks, Count
<1>6. One(i \in given) = One(i \in given') + One(b = i) /\ One(i \in given)' = One(i \in given')
  BY <1>1 DEF One
<1>7. One(i \in given') \in Nat /\ One(b = i) \in Nat
  BY DEF One
<1>8. Answered(i) = 1
  BY DEF InAnswered
<1> QED BY <1>4, <1>5, <1>6, <1>7, <1>8, CountsNat DEF Answered

LEMMA InReads == ASSUME CodecIInv, InAnswered, GuestReads PROVE InAnswered'
<1> SUFFICES ASSUME NEW i \in Inputs PROVE Answered(i)' = 1
  BY DEF InAnswered
<1>1. Callbacks(i)' \in Nat /\ Callbacks(i) = Callbacks(i)' + One(Head(callbacks) = i)
  BY ReadingTakes
<1>2. Count(i, InputIds)' = Count(i, InputIds) /\ given' = given \cup ({Head(callbacks)} \cap Inputs)
  BY DEF GuestReads, component, Count, InputIds
<1>3. Count(i, InputIds) + Callbacks(i) + One(i \in given) = 1 /\ Count(i, InputIds) \in Nat
  BY CountsNat DEF InAnswered, Answered
<1>4. CASE Head(callbacks) = i
  BY <1>1, <1>2, <1>3, <1>4 DEF One, Answered
<1>5. CASE Head(callbacks) # i
  <2>1. One(i \in given)' = One(i \in given) /\ One(Head(callbacks) = i) = 0
    BY <1>2, <1>5 DEF One
  <2> QED BY <1>1, <1>2, <1>3, <2>1 DEF Answered
<1> QED BY <1>4, <1>5

LEMMA InStep == CodecIInv /\ CodecIInv' /\ InAnswered /\ [CodecNext]_codecvars => InAnswered'
<1> SUFFICES ASSUME CodecIInv, CodecIInv', InAnswered, CodecNext \/ UNCHANGED codecvars PROVE InAnswered'
  BY DEF codecvars
<1>1. CASE D_Open
  <2>1. Cardinality(Configs) \in 0 .. Len(input_buffers)
    BY <1>1, ConfigsBound DEF CodecIInv
  <2> QED BY <1>1, <2>1, InOpen DEF D_Open, note
<1>2. CASE D_OpenFails(0) \/ D_OpenFails(Cardinality(Configs))
  <2>1. 0 \in 0 .. Len(input_buffers) /\ Cardinality(Configs) \in 0 .. Len(input_buffers)
    BY ConfigsBound, Ids DEF CodecIInv
  <2>2. \E n \in 0 .. Len(input_buffers) : D_OpenFails(n)
    BY <1>2, <2>1
  <2> QED BY <2>2, InOpen DEF D_OpenFails, note
<1>3. CASE D_Config \/ D_Decode(FALSE) \/ D_Decode(TRUE) \/ D_DecodeFails
  BY <1>3, InEmptied DEF D_Config, D_Decode, D_DecodeFails
<1>4. CASE D_NoOutput \/ D_Again \/ D_Asks \/ D_QueueFull
  BY <1>4, InSame DEF D_NoOutput, D_Again, D_Asks, D_QueueFull, TurnEnds, component, note
<1>5. CASE D_End \/ D_Frame \/ D_ReceiveFails
  BY <1>5, InFilled
<1>6. ASSUME NEW t, N_Lock(t) \/ N_Write(t) PROVE InAnswered'
  BY <1>6, InSame DEF N_Lock, N_Write, component, run
<1>7. CASE D_Publish
  <2>1. ASSUME NEW i \in Inputs PROVE Answered(i)' = Answered(i)
    <3>1. Callbacks(i)' = Callbacks(i)
      BY <1>7, PublishMoves
    <3>2. Count(i, InputIds)' = Count(i, InputIds) /\ One(i \in given)' = One(i \in given)
      BY <1>7 DEF D_Publish, component, Count, InputIds, One
    <3> QED BY <3>1, <3>2 DEF Answered
  <2> QED BY <2>1 DEF InAnswered
<1>8. ASSUME NEW w \in Workers, W_Publish(w) PROVE InAnswered'
  <2>1. ASSUME NEW i \in Inputs PROVE Answered(i)' = Answered(i)
    <3>1. wtask[w] \in Task /\ Callbacks(i)' = Callbacks(i) + One(wtask[w].buf = i)
      BY <1>8, WorkerPublishes, ZenonT(30)
    <3>2. wtask[w].buf # i
      BY <3>1, InputsAssumption DEF Task
    <3>3. Callbacks(i)' = Callbacks(i)
      BY <3>1, <3>2, CountsNat DEF One
    <3>4. Count(i, InputIds)' = Count(i, InputIds) /\ One(i \in given)' = One(i \in given)
      BY <1>8, ZenonT(30) DEF W_Publish, component, Count, InputIds, One
    <3> QED BY <3>3, <3>4 DEF Answered
  <2> QED BY <2>1 DEF InAnswered
<1>9. ASSUME NEW b, ProcessOutput(b) PROVE InAnswered'
  BY <1>9, InSame, ZenonT(30) DEF ProcessOutput, Process, note
<1>10. ASSUME \/ ResetComponent \/ UNCHANGED codecvars
              \/ \E b \in Bufs : GuestTakes(b) \/ GuestUses(b)
              \/ \E w \in Workers : W_Step(w) \/ W_Fails(w)
       PROVE  InAnswered'
  <2>1. UNCHANGED <<input_buffers, say, callbacks, given>>
    BY <1>10, ZenonT(30) DEF ResetComponent, codecvars, GuestTakes, GuestUses, W_Step, W_Fails, component, run, note
  <2> QED BY <2>1, InSame
<1> QED
  BY <1>1, <1>2, <1>3, <1>4, <1>5, <1>6, <1>7, <1>8, <1>9, <1>10, InFlush, InProcess, InReads, ZenonT(30)
  DEF CodecNext, dcodec_process_buffers, worker

-------------------------------------------------------------------------------
(* Every output buffer is answered once, unless its transfer fails.        *)
GuestTask(b) == [kind |-> "guest", buf |-> b]
Sending(b) == {w \in Workers : wpc[w] = "pre" /\ wtask[w] = GuestTask(b)}
Answers(b) == Callbacks(b) + Owed(b) + One(b \in told)

OutAnswered(b) ==
  /\ Count(b, output_buffers) = One(st[b] = "codec")
  /\ IF st[b] = "out" THEN Answers(b) = 1 \/ (Answers(b) = 0 /\ b \in stuck) ELSE Answers(b) = 0

LEMMA OwedIs ==
  ASSUME Typed, NEW b
  PROVE  /\ Owed(b) = Count(GuestTask(b), queue) + Cardinality(Sending(b))
         /\ Count(GuestTask(b), queue) \in Nat /\ Cardinality(Sending(b)) \in Nat
         /\ IsFiniteSet(Sending(b)) /\ Owed(b) \in Nat
<1>1. queue \in Seq(Task)
  BY DEF Typed
<1>2. /\ Count(GuestTask(b), queue) = Cardinality({i \in 1 .. Len(queue) : queue[i] = GuestTask(b)})
      /\ Count(GuestTask(b), queue) \in Nat
  BY <1>1, CountNat, ZenonT(30)
<1>3. Sending(b) \subseteq Workers
  BY DEF Sending
<1>4. IsFiniteSet(Sending(b)) /\ Cardinality(Sending(b)) \in Nat
  BY <1>3, ThreadsAssumption, FS_Subset, FS_CardinalityType
<1>5. Owed(b) = Count(GuestTask(b), queue) + Cardinality(Sending(b))
  BY <1>2 DEF Owed, Sending, GuestTask
<1> QED BY <1>2, <1>4, <1>5

OwedSplits(b) ==
  /\ Owed(b) = Count(GuestTask(b), queue) + Cardinality(Sending(b))
  /\ Count(GuestTask(b), queue) \in Nat /\ Cardinality(Sending(b)) \in Nat /\ Owed(b) \in Nat

LEMMA OwedSplitsNow == Typed => \A b : OwedSplits(b)
BY OwedIs DEF OwedSplits

LEMMA OwedSplitsNext == (Typed => \A b : OwedSplits(b))'
BY OwedSplitsNow, PTL

LEMMA OwedIsNext ==
  ASSUME Typed', NEW b
  PROVE  /\ Owed(b)' = Count(GuestTask(b), queue)' + Cardinality(Sending(b))'
         /\ Count(GuestTask(b), queue)' \in Nat /\ Cardinality(Sending(b))' \in Nat
         /\ Owed(b)' \in Nat
BY OwedSplitsNext DEF OwedSplits

LEMMA AnswersNat ==
  ASSUME CodecIInv, NEW b
  PROVE  /\ Callbacks(b) \in Nat /\ Owed(b) \in Nat /\ One(b \in told) \in Nat /\ Answers(b) \in Nat
<1>1. Callbacks(b) \in Nat /\ Owed(b) \in Nat
  BY CountsNat, OwedIs DEF CodecIInv, TransferIInv
<1>2. One(b \in told) \in Nat
  BY DEF One
<1> QED BY <1>1, <1>2 DEF Answers

LEMMA OwedSame == ASSUME UNCHANGED <<queue, wpc, wtask>>, NEW b PROVE Owed(b)' = Owed(b)
BY DEF Owed

LEMMA OwedPush ==
  ASSUME Typed, Typed', UNCHANGED <<wpc, wtask>>, NEW kind \in Kinds, NEW a \in Bufs,
         mem_transfer_async(kind, a), NEW b
  PROVE  Owed(b)' = Owed(b) + One(kind = "guest" /\ a = b)
<1>1. queue \in Seq(Task) /\ [kind |-> kind, buf |-> a] \in Task
  BY DEF Typed, Task
<1>2. Count(GuestTask(b), Append(queue, [kind |-> kind, buf |-> a]))
        = Count(GuestTask(b), queue) + One([kind |-> kind, buf |-> a] = GuestTask(b))
  BY <1>1, CountAppend
<1>3. ([kind |-> kind, buf |-> a] = GuestTask(b)) <=> (kind = "guest" /\ a = b)
  BY DEF GuestTask
<1>4. Count(GuestTask(b), queue)' = Count(GuestTask(b), queue) + One(kind = "guest" /\ a = b)
  BY <1>2, <1>3, ZenonT(30) DEF mem_transfer_async, Count, GuestTask, One
<1>5. Cardinality(Sending(b))' = Cardinality(Sending(b))
  BY Zenon DEF Sending, GuestTask
<1>6. /\ Owed(b) = Count(GuestTask(b), queue) + Cardinality(Sending(b))
      /\ Count(GuestTask(b), queue) \in Nat /\ Cardinality(Sending(b)) \in Nat
  BY OwedIs
<1>7. Owed(b)' = Count(GuestTask(b), queue)' + Cardinality(Sending(b))'
  BY OwedIsNext
<1>8. One(kind = "guest" /\ a = b) \in Nat
  BY DEF One
<1> QED BY <1>4, <1>5, <1>6, <1>7, <1>8

LEMMA OwedTake ==
  ASSUME Typed, Typed', NEW w \in Workers, K_Take(w), NEW b PROVE Owed(b)' = Owed(b)
<1>1. /\ queue \in Seq(Task) /\ queue # <<>> /\ queue' = Tail(queue) /\ wpc[w] = "idle"
      /\ wpc' = [wpc EXCEPT ![w] = IF Head(queue).kind = "guest" THEN "pre" ELSE "map"]
      /\ wtask' = [wtask EXCEPT ![w] = Head(queue)]
  BY DEF K_Take, WGo, Typed
<1>2. Head(queue) \in Task /\ Count(GuestTask(b), queue)
        = One(Head(queue) = GuestTask(b)) + Count(GuestTask(b), Tail(queue))
  BY <1>1, CountTail
<1>3. Count(GuestTask(b), queue)' = Count(GuestTask(b), Tail(queue))
  BY <1>1 DEF Count, GuestTask
<1>4. w \notin Sending(b)
  BY <1>1 DEF Sending
<1>5. /\ wpc'[w] = (IF Head(queue).kind = "guest" THEN "pre" ELSE "map") /\ wtask'[w] = Head(queue)
      /\ \A v \in Workers : v # w => wpc'[v] = wpc[v] /\ wtask'[v] = wtask[v]
  BY <1>1 DEF Typed
<1>6. Cardinality(Sending(b))' = Cardinality(Sending(b)) + One(Head(queue) = GuestTask(b))
  <2>1. CASE Head(queue) = GuestTask(b)
    <3>1. Sending(b)' = Sending(b) \cup {w}
      <4>1. wpc'[w] = "pre" /\ wtask'[w] = GuestTask(b)
        BY <1>5, <2>1 DEF GuestTask
      <4> QED BY <1>5, <4>1 DEF Sending, GuestTask
    <3>2. Cardinality(Sending(b) \cup {w}) = Cardinality(Sending(b)) + 1
      BY <1>4, OwedIs, FS_AddElement
    <3> QED BY <2>1, <3>1, <3>2 DEF One
  <2>2. CASE Head(queue) # GuestTask(b)
    <3>1. Sending(b)' = Sending(b)
      BY <1>4, <1>5, <2>2 DEF Sending, GuestTask
    <3> QED BY <2>2, <3>1, OwedIs DEF One
  <2> QED BY <2>1, <2>2
<1>7. /\ Owed(b) = Count(GuestTask(b), queue) + Cardinality(Sending(b))
      /\ Cardinality(Sending(b)) \in Nat
  BY OwedIs
<1>8. /\ Owed(b)' = Count(GuestTask(b), queue)' + Cardinality(Sending(b))'
      /\ Count(GuestTask(b), queue)' \in Nat
  BY OwedIsNext
<1>9. One(Head(queue) = GuestTask(b)) \in Nat
  BY DEF One
<1> QED BY <1>2, <1>3, <1>6, <1>7, <1>8, <1>9

(* A worker leaves pre_cb: what it owed it owes no more.                   *)
LEMMA OwedLeave ==
  ASSUME Typed, Typed', NEW w \in Workers, UNCHANGED <<queue, wtask>>, wpc[w] = "pre",
         NEW to, to # "pre", wpc' = [wpc EXCEPT ![w] = to], NEW b
  PROVE  Owed(b) = Owed(b)' + One(wtask[w] = GuestTask(b))
<1>1. wpc'[w] = to /\ \A v \in Workers : v # w => wpc'[v] = wpc[v]
  BY DEF Typed
<1>2. Sending(b)' = Sending(b) \ {w}
  BY <1>1 DEF Sending, GuestTask
<1>3. w \in Sending(b) <=> wtask[w] = GuestTask(b)
  BY DEF Sending
<1>4. Cardinality(Sending(b)) = Cardinality(Sending(b) \ {w}) + One(wtask[w] = GuestTask(b))
  <2>1. CASE w \in Sending(b)
    <3>1. Cardinality(Sending(b) \ {w}) = Cardinality(Sending(b)) - 1
      BY <2>1, OwedIs, FS_RemoveElement, ZenonT(30)
    <3> QED BY <1>3, <2>1, <3>1, OwedIs DEF One
  <2>2. CASE w \notin Sending(b)
    <3>1. Sending(b) \ {w} = Sending(b) /\ One(wtask[w] = GuestTask(b)) = 0
      BY <1>3, <2>2, ZenonT(30) DEF One
    <3>2. Cardinality(Sending(b)) \in Nat
      BY OwedIs
    <3>3. Cardinality(Sending(b) \ {w}) = Cardinality(Sending(b))
      BY <3>1, ZenonT(30)
    <3> QED BY <3>1, <3>2, <3>3
  <2> QED BY <2>1, <2>2, ZenonT(30)
<1>5. Count(GuestTask(b), queue)' = Count(GuestTask(b), queue)
  BY DEF Count, GuestTask
<1>6. /\ Owed(b) = Count(GuestTask(b), queue) + Cardinality(Sending(b))
      /\ Count(GuestTask(b), queue) \in Nat
  BY OwedIs
<1>7. /\ Owed(b)' = Count(GuestTask(b), queue)' + Cardinality(Sending(b))'
      /\ Cardinality(Sending(b))' \in Nat
  BY OwedIsNext
<1>8. One(wtask[w] = GuestTask(b)) \in Nat
  BY DEF One
<1> QED BY <1>2, <1>4, <1>5, <1>6, <1>7, <1>8

(* The other steps of a worker, which sends nothing.                       *)
LEMMA OwedNot ==
  ASSUME Typed, NEW w \in Workers, UNCHANGED queue, NEW to, wpc' = [wpc EXCEPT ![w] = to],
         \A v \in Workers : v # w => wtask'[v] = wtask[v],
         wpc[w] # "pre" \/ wtask[w].kind # "guest", to # "pre" \/ wtask'[w].kind # "guest", NEW b
  PROVE  Owed(b)' = Owed(b)
<1>1. wpc'[w] = to /\ \A v \in Workers : v # w => wpc'[v] = wpc[v]
  BY DEF Typed
<1>2. GuestTask(b).kind = "guest"
  BY DEF GuestTask
<1>3. Sending(b)' = Sending(b)
  <2>1. w \notin Sending(b) /\ w \notin Sending(b)'
    BY <1>1, <1>2 DEF Sending, GuestTask
  <2> QED BY <1>1, <2>1, ZenonT(30) DEF Sending, GuestTask
<1>4. Owed(b)' = Cardinality({i \in 1 .. Len(queue) : queue[i] = GuestTask(b)}) + Cardinality(Sending(b)')
  BY ZenonT(30) DEF Owed, Sending, GuestTask
<1> QED BY <1>3, <1>4, ZenonT(30) DEF Owed, Sending, GuestTask

LEMMA OutKept ==
  ASSUME NEW b, OutAnswered(b), st'[b] = st[b], Count(b, output_buffers)' = Count(b, output_buffers),
         Answers(b)' = Answers(b), stuck \subseteq stuck'
  PROVE  OutAnswered(b)'
BY ZenonT(30) DEF OutAnswered, One

LEMMA SayAnswers ==
  ASSUME CodecIInv, cpc # "say", NEW s, NEW pc, Say(s, pc), UNCHANGED <<callbacks, told>>, NEW b,
         Count(b, s) \in Nat
  PROVE  Callbacks(b)' = Callbacks(b) + Count(b, s) /\ One(b \in told)' = One(b \in told)
<1>1. say = <<>> /\ say' = s
  BY SaySets DEF CodecIInv
<1>2. Count(b, say) = 0 /\ Count(b, say)' = Count(b, s) /\ Count(b, callbacks)' = Count(b, callbacks)
  BY <1>1, CountEmpty, ZenonT(30) DEF Count
<1>3. One(b \in told)' = One(b \in told)
  BY DEF One
<1> QED BY <1>2, <1>3, CountsNat DEF Callbacks

(* D returns input buffers, or reports an event.                           *)
LEMMA OutSays ==
  ASSUME CodecIInv, cpc # "say", NEW s \in Seq(Inputs), NEW pc,
         Say(s, pc) \/ Say(Append(s, "event"), pc),
         UNCHANGED <<callbacks, told, output_buffers, st, queue, wpc, wtask, stuck>>,
         NEW b \in Bufs, OutAnswered(b)
  PROVE  OutAnswered(b)'
<1>1. s \in Seq(Callback) /\ b \notin Inputs
  BY InputsAssumption DEF Callback
<1>2. Count(b, s) = 0 /\ Count(b, Append(s, "event")) = 0
  BY <1>1, CountOther, CountEvent
<1>3. PICK r : Say(r, pc) /\ Count(b, r) = 0
  BY <1>2
<1>4. Callbacks(b)' = Callbacks(b) + Count(b, r) /\ One(b \in told)' = One(b \in told)
  BY <1>3, SayAnswers
<1>5. Owed(b)' = Owed(b) /\ Count(b, output_buffers)' = Count(b, output_buffers)
  BY OwedSame DEF Count
<1>6. Answers(b)' = Answers(b)
  BY <1>3, <1>4, <1>5, CountsNat DEF Answers
<1> QED BY <1>5, <1>6, OutKept

(* D fills the first output buffer h.                                      *)
LEMMA OutPop ==
  ASSUME CodecIInv, NEW b \in Bufs, OutAnswered(b), output_buffers # <<>>, NEW h, h = Head(output_buffers),
         output_buffers' = Tail(output_buffers), st[h] = "codec", st' = [st EXCEPT ![h] = "out"],
         \/ Answers(b)' = Answers(b) + One(h = b) /\ stuck' = stuck
         \/ Answers(b)' = Answers(b) /\ stuck' = stuck \cup {h}
  PROVE  OutAnswered(b)'
<1>1. output_buffers \in Seq(Bufs) /\ DOMAIN st = Bufs
  BY DEF CodecIInv, OutputIInv, TransferIInv, Typed
<1>2. Count(b, output_buffers) = One(h = b) + Count(b, Tail(output_buffers))
      /\ Tail(output_buffers) \in Seq(Bufs)
  BY <1>1, CountTail
<1>3. Count(b, Tail(output_buffers)) \in Nat
  BY <1>2, CountNat, Zenon
<1>4. Count(b, output_buffers)' = Count(b, Tail(output_buffers))
  BY Zenon DEF Count
<1>5. Answers(b) \in Nat
  BY AnswersNat
<1>6. CASE h = b
  <2>1. st[b] = "codec" /\ st'[b] = "out" /\ One(h = b) = 1
    BY <1>1, <1>6 DEF One
  <2>2. Answers(b) = 0 /\ Count(b, output_buffers) = 1
    BY <2>1 DEF OutAnswered, One
  <2>3. Count(b, output_buffers)' = 0 /\ One(st[b] = "codec")' = 0
    BY <1>2, <1>3, <1>4, <2>1, <2>2 DEF One
  <2>4. Answers(b)' = 1 \/ (Answers(b)' = 0 /\ b \in stuck')
    BY <1>6, <2>1, <2>2
  <2> QED BY <2>1, <2>3, <2>4 DEF OutAnswered
<1>7. CASE h # b
  <2>1. st'[b] = st[b] /\ One(h = b) = 0
    BY <1>1, <1>7 DEF One
  <2>2. Count(b, output_buffers)' = Count(b, output_buffers) /\ Answers(b)' = Answers(b)
    BY <1>2, <1>3, <1>4, <1>5, <2>1
  <2> QED BY <2>1, <2>2, OutKept
<1> QED BY <1>6, <1>7

LEMMA OutFilled ==
  ASSUME CodecIInv, CodecIInv', NEW b \in Bufs, OutAnswered(b), D_End \/ D_Frame
  PROVE  OutAnswered(b)'
<1> DEFINE h == Head(output_buffers)
<1>1. /\ cpc = "got" /\ output_buffers # <<>> /\ output_buffers' = Tail(output_buffers)
      /\ UNCHANGED <<callbacks, told>> /\ h \in Bufs
  BY DEF D_End, D_Frame, Filled, note, CodecIInv, OutputIInv
<1>2. Count(b, <<h>>) = One(h = b) /\ Count(b, <<>>) = 0 /\ Count(b, Append(<<>>, "event")) = 0
  <2>1. <<>> \in Seq(Callback) /\ Count(b, <<>>) = 0
    BY CountEmpty
  <2>2. Count(b, Append(<<>>, "event")) = Count(b, <<>>)
    BY <2>1, CountEvent, Zenon
  <2>3. Count(b, <<h>>) = One(h = b)
    BY CountOne
  <2> QED BY <2>1, <2>2, <2>3
<1>3. Typed /\ Typed'
  BY DEF CodecIInv, TransferIInv
<1>4. One(h = b) \in Nat /\ Callbacks(b) \in Nat /\ Owed(b) \in Nat /\ One(b \in told) \in Nat
  BY AnswersNat DEF One
<1>5. ASSUME NEW s, NEW pc, Say(s, pc), Count(b, s) \in Nat
      PROVE  Callbacks(b)' = Callbacks(b) + Count(b, s) /\ One(b \in told)' = One(b \in told)
  BY <1>1, <1>5, SayAnswers
<1> HIDE DEF h
<1>6. ASSUME UNCHANGED <<queue, wpc, wtask, stuck>>, Say(<<h>>, "fill"), st[h] = "codec",
             st' = [st EXCEPT ![h] = "out"]
      PROVE  OutAnswered(b)'
  <2>1. Owed(b)' = Owed(b)
    BY <1>6, OwedSame
  <2>2. Answers(b)' = Answers(b) + One(h = b)
    BY <1>2, <1>4, <1>5, <1>6, <2>1 DEF Answers
  <2> QED BY <1>1, <1>6, <2>2, OutPop, ZenonT(30) DEF h
<1>7. CASE D_End
  BY <1>6, <1>7 DEF D_End, D_Eos, h
<1>8. CASE D_InGpu(D, h) /\ Say(<<h>>, "fill")
  BY <1>6, <1>8 DEF D_InGpu, D_Pop
<1>9. CASE D_ToGuest(D, h) /\ Say(<<>>, "fill")
  <2>1. Owed(b)' = Owed(b) + One("guest" = "guest" /\ h = b)
    BY <1>1, <1>3, <1>9, OwedPush DEF D_ToGuest, D_Pop, Kinds, h
  <2>2. Owed(b)' = Owed(b) + One(h = b)
    BY <2>1 DEF One
  <2>3. Answers(b)' = Answers(b) + One(h = b)
    BY <1>2, <1>4, <1>5, <1>9, <2>2 DEF Answers
  <2> QED BY <1>1, <1>9, <2>3, OutPop, ZenonT(30) DEF D_ToGuest, D_Pop, h
<1>10. CASE D_ToTexture(D, h) /\ Say(<<h>>, "fill")
  <2>1. Owed(b)' = Owed(b) + One("frame" = "guest" /\ h = b)
    BY <1>1, <1>3, <1>10, OwedPush DEF D_ToTexture, D_Pop, Kinds, h
  <2>2. Owed(b)' = Owed(b)
    BY <1>4, <2>1 DEF One
  <2>3. Answers(b)' = Answers(b) + One(h = b)
    BY <1>2, <1>4, <1>5, <1>10, <2>2 DEF Answers
  <2> QED BY <1>1, <1>10, <2>3, OutPop, ZenonT(30) DEF D_ToTexture, D_Pop, h
<1>11. CASE D_BadFormat(D, h) /\ Fails(<<>>)
  <2>1. Owed(b)' = Owed(b)
    BY <1>11, OwedSame DEF D_BadFormat, D_Pop
  <2>2. Answers(b)' = Answers(b)
    BY <1>2, <1>4, <1>5, <1>11, <2>1 DEF Answers, Fails
  <2> QED BY <1>1, <1>11, <2>2, OutPop, ZenonT(30) DEF D_BadFormat, D_Pop, h
<1>12. CASE D_Unsupported(D, h) /\ Say(<<>>, "fill")
  <2>1. Owed(b)' = Owed(b)
    BY <1>12, OwedSame DEF D_Unsupported, D_Pop
  <2>2. Answers(b)' = Answers(b)
    BY <1>2, <1>4, <1>5, <1>12, <2>1 DEF Answers
  <2> QED BY <1>1, <1>12, <2>2, OutPop, ZenonT(30) DEF D_Unsupported, D_Pop, h
<1> QED BY <1>7, <1>8, <1>9, <1>10, <1>11, <1>12 DEF D_Frame, h

(* What leaves the output queue without a frame is returned.               *)
LEMMA OutFlushed ==
  ASSUME CodecIInv, NEW b \in Bufs, OutAnswered(b), cpc # "say", UNCHANGED <<callbacks, told>>,
         FlushOutput, NEW s, NEW pc, Say(s, pc), Count(b, s) = Count(b, output_buffers)
  PROVE  OutAnswered(b)'
<1>1. /\ output_buffers' = <<>> /\ st' = [a \in Bufs |-> IF st[a] = "codec" THEN "out" ELSE st[a]]
      /\ UNCHANGED <<queue, wpc, wtask, stuck>>
  BY DEF FlushOutput, dcodec_flush_buffers
<1>2. Count(b, output_buffers)' = 0
  BY <1>1, CountEmpty, ZenonT(30) DEF Count
<1>3. Callbacks(b)' = Callbacks(b) + Count(b, output_buffers) /\ One(b \in told)' = One(b \in told)
  BY SayAnswers, CountsNat
<1>4. Owed(b)' = Owed(b)
  BY <1>1, OwedSame
<1>5. Answers(b)' = Answers(b) + Count(b, output_buffers)
  BY <1>3, <1>4, AnswersNat, CountsNat DEF Answers
<1>6. CASE st[b] = "codec"
  <2>1. st'[b] = "out" /\ Answers(b) = 0 /\ Count(b, output_buffers) = 1
    BY <1>1, <1>6 DEF OutAnswered, One
  <2> QED BY <1>2, <1>5, <2>1 DEF OutAnswered, One
<1>7. CASE st[b] # "codec"
  <2>1. st'[b] = st[b] /\ Count(b, output_buffers) = 0
    BY <1>1, <1>7 DEF OutAnswered, One
  <2>2. Answers(b)' = Answers(b) /\ Count(b, output_buffers)' = Count(b, output_buffers)
    BY <1>2, <1>5, <2>1, AnswersNat
  <2> QED BY <1>1, <2>1, <2>2, OutKept
<1> QED BY <1>6, <1>7

LEMMA OutFlush ==
  ASSUME CodecIInv, NEW b \in Bufs, OutAnswered(b),
         SendIdle \/ \E input, output \in BOOLEAN : SendFlush(input, output)
  PROVE  OutAnswered(b)'
<1>1. cpc # "say" /\ UNCHANGED <<callbacks, told>>
  BY DEF SendIdle, SendFlush, note
<1>2. /\ InputIds \in Seq(Inputs) /\ InputIds \in Seq(Callback) /\ output_buffers \in Seq(Callback)
      /\ "event" \in Callback /\ b \notin Inputs
  BY Ids, InputsAssumption DEF CodecIInv, OutputIInv, Callback
<1>3. Count(b, InputIds) = 0 /\ Count(b, output_buffers) \in Nat
  BY <1>2, CountOther, CountsNat
<1>4. CASE SendIdle
  <2> DEFINE r == InputIds \o output_buffers
  <2>1. r \in Seq(Callback) /\ r \o <<"event">> = Append(r, "event")
    BY <1>2, AppendIsConcat
  <2>2. Count(b, r) = Count(b, InputIds) + Count(b, output_buffers)
    BY <1>2, CountConcat
  <2>3. Say(r \o <<"event">>, "idle") /\ FlushOutput
    BY <1>4 DEF SendIdle
  <2> HIDE DEF r
  <2>4. Count(b, r \o <<"event">>) = Count(b, output_buffers)
    <3>1. Count(b, Append(r, "event")) = Count(b, r)
      BY <2>1, CountEvent
    <3>2. Count(b, r) = Count(b, output_buffers)
      BY <1>3, <2>2
    <3> QED BY <2>1, <3>1, <3>2, Zenon
  <2> QED BY <1>1, <2>3, <2>4, OutFlushed
<1>5. ASSUME NEW input \in BOOLEAN, NEW output \in BOOLEAN, SendFlush(input, output)
      PROVE  OutAnswered(b)'
  <2> DEFINE s == IF input THEN Append(InputIds, "event") ELSE <<>>
             r == IF output THEN Append(output_buffers, "event") ELSE <<>>
  <2>1. s \in Seq(Callback) /\ r \in Seq(Callback)
    BY <1>2
  <2>2. Count(b, <<>>) = 0 /\ Count(b, Append(InputIds, "event")) = 0
        /\ Count(b, Append(output_buffers, "event")) = Count(b, output_buffers)
    BY <1>2, <1>3, CountEmpty, CountEvent
  <2>3. /\ Count(b, s) = 0 /\ (output => Count(b, r) = Count(b, output_buffers))
        /\ (~output => Count(b, r) = 0)
    BY <2>2
  <2>4. Say(s \o r, "idle")
    BY <1>5 DEF SendFlush
  <2> HIDE DEF s, r
  <2>5. Count(b, s \o r) = Count(b, s) + Count(b, r)
    BY <2>1, CountConcat
  <2>6. CASE output
    <3>1. FlushOutput /\ Count(b, s \o r) = Count(b, output_buffers)
      BY <1>3, <1>5, <2>3, <2>5, <2>6 DEF SendFlush
    <3> QED BY <1>1, <2>4, <3>1, OutFlushed
  <2>7. CASE ~output
    <3>1. UNCHANGED <<vars, output_buffers>> /\ Count(b, s \o r) = 0
      BY <1>5, <2>3, <2>5, <2>7 DEF SendFlush
    <3>2. Callbacks(b)' = Callbacks(b) + Count(b, s \o r) /\ One(b \in told)' = One(b \in told)
      BY <1>1, <2>4, <3>1, SayAnswers
    <3>3. Owed(b)' = Owed(b) /\ Count(b, output_buffers)' = Count(b, output_buffers)
      BY <3>1, OwedSame, ZenonT(30) DEF vars, Count
    <3>4. Answers(b)' = Answers(b)
      BY <3>1, <3>2, <3>3, AnswersNat DEF Answers
    <3> QED BY <3>1, <3>3, <3>4, OutKept DEF vars, bvars
  <2> QED BY <2>6, <2>7
<1> QED BY <1>4, <1>5

(* The workers: a callback is sent or the transfer has failed.             *)
LEMMA OutWorker ==
  ASSUME CodecIInv, CodecIInv', NEW b \in Bufs, OutAnswered(b), NEW w \in Workers,
         W_Step(w) \/ W_Fails(w) \/ W_Publish(w)
  PROVE  OutAnswered(b)'
<1>1. UNCHANGED <<output_buffers, say, told, st>> /\ stuck \subseteq stuck'
  BY ZenonT(30) DEF W_Step, W_Fails, W_Publish, component, run, bvars, K_Take, K_Map, K_MapFails, K_Pre, K_PreFails,
         K_End, K_Signal, K_Exit
<1>2. Typed /\ Typed' /\ DOMAIN wtask = Workers /\ DOMAIN wpc = Workers
  BY DEF CodecIInv, TransferIInv, Typed
<1>3. Count(b, output_buffers)' = Count(b, output_buffers) /\ One(b \in told)' = One(b \in told)
  BY <1>1 DEF Count, One
<1>4. Callbacks(b) \in Nat /\ Owed(b) \in Nat /\ One(b \in told) \in Nat /\ Owed(b)' \in Nat
  BY <1>2, AnswersNat, OwedIsNext, ZenonT(30)
<1>5. ASSUME UNCHANGED callbacks PROVE Callbacks(b)' = Callbacks(b)
  BY <1>1, <1>5, ZenonT(30) DEF Callbacks, Count
<1>6. ASSUME Owed(b)' = Owed(b), UNCHANGED callbacks PROVE OutAnswered(b)'
  <2>1. Answers(b)' = Answers(b)
    BY <1>3, <1>5, <1>6 DEF Answers
  <2> QED BY <1>1, <1>3, <2>1, OutKept
<1>7. CASE W_Step(w) /\ K_Take(w)
  BY <1>2, <1>6, <1>7, OwedTake, ZenonT(30) DEF W_Step, note
<1>8. CASE (W_Step(w) /\ ~K_Take(w)) \/ (W_Fails(w) /\ (K_MapFails(w) \/ wtask[w].kind # "guest"))
  <2>1. UNCHANGED <<callbacks, queue>>
    BY <1>8, ZenonT(30) DEF W_Step, W_Fails, note, K_Map, K_MapFails, K_Pre, K_PreFails, K_End, K_Signal, K_Exit
  <2>2. \A v \in Workers : v # w => wtask'[v] = wtask[v]
    BY <1>2, <1>8, ZenonT(30) DEF W_Step, W_Fails, K_Map, K_MapFails, K_Pre, K_PreFails, K_End, K_Signal, K_Exit
  <2>3. wpc[w] = "map" => wtask[w].kind # "guest"
    BY ZenonT(30) DEF CodecIInv, TransferIInv, Own
  <2>4. wpc[w] # "pre" \/ wtask[w].kind # "guest"
    BY <1>8, ZenonT(30) DEF W_Step, W_Fails, K_Map, K_MapFails, K_End, K_Signal, K_Exit, WGo
  <2>5. \E to : /\ wpc' = [wpc EXCEPT ![w] = to]
                /\ to # "pre" \/ wtask'[w].kind # "guest"
    BY <1>8, <2>3, ZenonT(30) DEF W_Step, W_Fails, K_Map, K_MapFails, K_Pre, K_PreFails, K_End, K_Signal, K_Exit, WGo
  <2>6. Owed(b)' = Owed(b)
    BY <1>2, <2>1, <2>2, <2>4, <2>5, OwedNot, ZenonT(30)
  <2> QED BY <1>6, <2>1, <2>6
<1>9. CASE W_Fails(w) /\ K_PreFails(w) /\ wtask[w].kind = "guest"
  <2>1. /\ UNCHANGED <<callbacks, queue, wtask>> /\ wpc[w] = "pre" /\ stuck' = stuck \cup {wtask[w].buf}
        /\ wpc' = [wpc EXCEPT ![w] = "exit"]
    BY <1>9, ZenonT(30) DEF W_Fails, note, K_PreFails, WGo
  <2>2. Owed(b) = Owed(b)' + One(wtask[w] = GuestTask(b))
    BY <1>2, <2>1, OwedLeave, ZenonT(30)
  <2>3. Callbacks(b)' = Callbacks(b)
    BY <1>5, <2>1
  <2>4. CASE wtask[w] = GuestTask(b)
    <3>1. wtask[w].buf = b /\ b \in stuck'
      BY <2>1, <2>4 DEF GuestTask
    <3>2. Owed(b) = Owed(b)' + 1
      BY <2>2, <2>4 DEF One
    <3>3. Answers(b) = Answers(b)' + 1 /\ Answers(b)' \in Nat
      BY <1>3, <1>4, <2>3, <3>2 DEF Answers
    <3>4. st'[b] = "out" /\ st[b] = "out" /\ Answers(b) = 1
      BY <1>1, <3>3 DEF OutAnswered
    <3>5. Count(b, output_buffers)' = One(st[b] = "codec")'
      BY <1>1, <1>3 DEF OutAnswered, One
    <3> QED BY <3>1, <3>3, <3>4, <3>5 DEF OutAnswered
  <2>5. CASE wtask[w] # GuestTask(b)
    <3>1. Owed(b)' = Owed(b)
      BY <1>4, <2>2, <2>5 DEF One
    <3> QED BY <1>6, <2>1, <3>1
  <2> QED BY <2>4, <2>5
<1>10. CASE W_Publish(w)
  <2>1. /\ wpc[w] = "pre" /\ wtask[w] \in Task /\ wtask[w].kind = "guest"
        /\ Callbacks(b)' = Callbacks(b) + One(wtask[w].buf = b)
    BY <1>10, WorkerPublishes
  <2>2. UNCHANGED <<queue, wtask>> /\ wpc' = [wpc EXCEPT ![w] = "exit"]
    BY <1>10, <2>1, ZenonT(30) DEF W_Publish, K_Pre, WGo
  <2>3. Owed(b) = Owed(b)' + One(wtask[w] = GuestTask(b))
    BY <1>2, <2>1, <2>2, OwedLeave, ZenonT(30)
  <2>4. wtask[w] = GuestTask(b) <=> wtask[w].buf = b
    BY <2>1 DEF GuestTask, Task
  <2>5. PICK one \in Nat : one = One(wtask[w].buf = b) /\ one = One(wtask[w] = GuestTask(b))
    BY <2>4 DEF One
  <2>6. Callbacks(b)' = Callbacks(b) + one /\ Owed(b) = Owed(b)' + one
    BY <2>1, <2>3, <2>5
  <2>7. Answers(b)' = Answers(b)
    BY <1>3, <1>4, <2>6 DEF Answers
  <2> QED BY <1>1, <1>3, <2>7, OutKept
<1>11. W_Fails(w) => K_MapFails(w) \/ K_PreFails(w)
  BY DEF W_Fails
<1> QED BY <1>7, <1>8, <1>9, <1>10, <1>11, ZenonT(30)

LEMMA OutProcess ==
  ASSUME CodecIInv, NEW b \in Bufs, OutAnswered(b), NEW a \in Bufs, ProcessOutput(a)
  PROVE  OutAnswered(b)'
<1>1. /\ output_buffers' = Append(output_buffers, a) /\ st[a] = "guest" /\ st' = [st EXCEPT ![a] = "codec"]
      /\ UNCHANGED <<say, callbacks, told, queue, wpc, wtask, stuck>>
  BY Zenon DEF ProcessOutput, ProcessThisBuffer, Process, note
<1>2. output_buffers \in Seq(Bufs) /\ DOMAIN st = Bufs
  BY DEF CodecIInv, OutputIInv, TransferIInv, Typed
<1>3. Count(b, Append(output_buffers, a)) = Count(b, output_buffers) + One(a = b)
  BY <1>2, CountAppend
<1>4. Count(b, output_buffers)' = Count(b, output_buffers) + One(a = b)
  BY <1>1, <1>3, ZenonT(30) DEF Count
<1>5. Answers(b)' = Answers(b)
  BY <1>1, OwedSame, ZenonT(30) DEF Answers, Callbacks, Count, One
<1>6. CASE a = b
  BY <1>1, <1>2, <1>4, <1>5, <1>6 DEF OutAnswered, One
<1>7. CASE a # b
  <2>1. st'[b] = st[b] /\ Count(b, output_buffers)' = Count(b, output_buffers)
    BY <1>1, <1>2, <1>4, <1>7, CountsNat DEF One
  <2> QED BY <1>1, <1>5, <2>1, OutKept
<1> QED BY <1>6, <1>7

(* The guest reads, takes a buffer of which it has read, uploads.          *)
LEMMA OutGuest ==
  ASSUME CodecIInv, CodecIInv', NEW b \in Bufs, OutAnswered(b),
         GuestReads \/ \E a \in Bufs : GuestTakes(a) \/ GuestUses(a)
  PROVE  OutAnswered(b)'
<1>1. Callbacks(b) \in Nat /\ Owed(b) \in Nat /\ One(b \in told) \in Nat /\ Answers(b) \in Nat
  BY AnswersNat
<1>2. Typed /\ Typed' /\ DOMAIN st = Bufs
  BY DEF CodecIInv, TransferIInv, Typed
<1>3. UNCHANGED output_buffers /\ Count(b, output_buffers)' = Count(b, output_buffers)
  BY ZenonT(30) DEF GuestReads, GuestTakes, GuestUses, component, Count
<1>4. ASSUME UNCHANGED <<run, note>> PROVE Callbacks(b)' = Callbacks(b)
  BY <1>4, Zenon DEF run, note, Callbacks, Count
<1>5. CASE GuestReads
  <2>1. Callbacks(b)' \in Nat /\ Callbacks(b) = Callbacks(b)' + One(Head(callbacks) = b)
    BY <1>5, ReadingTakes
  <2>2. /\ told' = told \cup ({Head(callbacks)} \cap Bufs)
        /\ UNCHANGED <<st, queue, wpc, wtask, stuck>>
    BY <1>5 DEF GuestReads, vars, bvars
  <2>3. Owed(b)' = Owed(b)
    BY <2>2, OwedSame
  <2>4. Answers(b) \in {0, 1}
    BY DEF OutAnswered
  <2>5. Answers(b)' = Answers(b)
    <3>1. CASE Head(callbacks) = b
      <4>1. One(Head(callbacks) = b) = 1 /\ One(b \in told)' = 1
        BY <2>2, <3>1 DEF One
      <4>2. One(b \in told) = 0 /\ Callbacks(b)' = 0 /\ Owed(b) = 0
        BY <1>1, <2>1, <2>4, <4>1 DEF Answers
      <4> QED BY <2>1, <2>3, <4>1, <4>2 DEF Answers
    <3>2. CASE Head(callbacks) # b
      <4>1. One(Head(callbacks) = b) = 0 /\ One(b \in told)' = One(b \in told)
        BY <2>2, <3>2 DEF One
      <4> QED BY <2>1, <2>3, <4>1 DEF Answers
    <3> QED BY <3>1, <3>2
  <2> QED BY <1>3, <2>2, <2>5, OutKept
<1>6. ASSUME NEW a \in Bufs, GuestTakes(a) PROVE OutAnswered(b)'
  <2>1. /\ st[a] = "out" /\ st' = [st EXCEPT ![a] = "guest"] /\ a \in told /\ told' = told \ {a}
        /\ UNCHANGED <<run, note, queue, wpc, wtask, stuck>>
    BY <1>6 DEF GuestTakes, GuestTakesBack
  <2>2. Callbacks(b)' = Callbacks(b) /\ Owed(b)' = Owed(b)
    BY <1>4, <2>1, OwedSame
  <2>3. CASE a = b
    <3>1. One(b \in told) = 1 /\ One(b \in told)' = 0 /\ st'[b] = "guest"
      BY <1>2, <2>1, <2>3 DEF One
    <3>2. Callbacks(b) = 0 /\ Owed(b) = 0
      BY <1>1, <2>1, <2>3, <3>1 DEF OutAnswered, Answers
    <3>3. Answers(b)' = 0
      BY <2>2, <3>1, <3>2 DEF Answers
    <3> QED BY <1>3, <2>1, <2>3, <3>1, <3>3 DEF OutAnswered, One
  <2>4. CASE a # b
    <3>1. st'[b] = st[b] /\ One(b \in told)' = One(b \in told)
      BY <1>2, <2>1, <2>4 DEF One
    <3>2. Answers(b)' = Answers(b)
      BY <2>2, <3>1, ZenonT(30) DEF Answers
    <3> QED BY <1>3, <2>1, <3>1, <3>2, OutKept
  <2> QED BY <2>3, <2>4
<1>7. ASSUME NEW a \in Bufs, GuestUses(a), Alloc_Gbuffer(a) \/ Terminate_Gbuffer(a), UNCHANGED told
      PROVE  OutAnswered(b)'
  <2>1. UNCHANGED <<run, note, st, queue, wpc, wtask, stuck>>
    BY <1>7, ZenonT(30) DEF GuestUses, Alloc_Gbuffer, Terminate_Gbuffer
  <2>2. Answers(b)' = Answers(b)
    BY <1>4, <1>7, <2>1, OwedSame DEF Answers, One
  <2> QED BY <1>3, <2>1, <2>2, OutKept
<1>8. ASSUME NEW a \in Bufs, GuestUses(a), gbuffer_data_guest_to_host(a), told' = told \cup {a}
      PROVE  OutAnswered(b)'
  <2>1. /\ st[a] = "guest" /\ st' = [st EXCEPT ![a] = "out"] /\ stuck \subseteq stuck'
        /\ UNCHANGED <<run, note, wpc, wtask>>
        /\ mem_transfer_async("upload", a) \/ UNCHANGED queue
    BY <1>8, ZenonT(30) DEF GuestUses, gbuffer_data_guest_to_host
  <2>2. Owed(b)' = Owed(b)
    <3>1. CASE mem_transfer_async("upload", a)
      <4>1. Owed(b)' = Owed(b) + One("upload" = "guest" /\ a = b)
        BY <1>2, <2>1, <3>1, OwedPush DEF Kinds
      <4> QED BY <1>1, <4>1 DEF One
    <3> QED BY <2>1, <3>1, OwedSame
  <2>3. Callbacks(b)' = Callbacks(b)
    BY <1>4, <2>1
  <2>4. CASE a = b
    <3>1. Answers(b) = 0 /\ st'[b] = "out" /\ One(b \in told)' = 1
      BY <1>2, <1>8, <2>1, <2>4 DEF OutAnswered, One
    <3>2. Answers(b)' = 1
      BY <1>1, <2>2, <2>3, <3>1 DEF Answers
    <3> QED BY <1>3, <2>1, <2>4, <3>1, <3>2 DEF OutAnswered, One
  <2>5. CASE a # b
    <3>1. st'[b] = st[b] /\ One(b \in told)' = One(b \in told)
      BY <1>2, <1>8, <2>1, <2>5 DEF One
    <3>2. Answers(b)' = Answers(b)
      BY <2>2, <2>3, <3>1, ZenonT(30) DEF Answers
    <3> QED BY <1>3, <2>1, <3>1, <3>2, OutKept
  <2> QED BY <2>4, <2>5
<1> QED BY <1>5, <1>6, <1>7, <1>8 DEF GuestUses

LEMMA OutStep ==
  ASSUME CodecIInv, CodecIInv', NEW b \in Bufs, OutAnswered(b), CodecNext \/ UNCHANGED codecvars
  PROVE  OutAnswered(b)'
<1>1. ASSUME UNCHANGED <<say, callbacks, told, output_buffers, st, queue, wpc, wtask, stuck>>
      PROVE  OutAnswered(b)'
  BY <1>1, OwedSame, ZenonT(30) DEF OutAnswered, Answers, Callbacks, Count, One
<1>2. /\ InputIds \in Seq(Inputs) /\ \A n \in 0 .. Len(input_buffers) : SubSeq(InputIds, 1, n) \in Seq(Inputs)
      /\ 0 \in 0 .. Len(input_buffers) /\ Cardinality(Configs) \in 0 .. Len(input_buffers)
  <2>1. InputIds \in Seq(Inputs) /\ Len(InputIds) = Len(input_buffers) /\ Len(input_buffers) \in Nat
    BY Ids DEF CodecIInv
  <2>2. \A n \in 0 .. Len(input_buffers) : SubSeq(InputIds, 1, n) \in Seq(Inputs)
    BY <2>1
  <2> QED BY <2>1, <2>2, ConfigsBound DEF CodecIInv
<1>3. ASSUME UNCHANGED <<vars, output_buffers, note, told>>, cpc # "say", NEW s \in Seq(Inputs), NEW pc,
             Say(s, pc) \/ Say(Append(s, "event"), pc)
      PROVE  OutAnswered(b)'
  BY <1>3, OutSays DEF vars, bvars, note
<1>4. CASE D_Open
  BY <1>2, <1>3, <1>4, Zenon DEF D_Open
<1>5. ASSUME NEW n \in 0 .. Len(input_buffers), D_OpenFails(n) PROVE OutAnswered(b)'
  BY <1>2, <1>3, <1>5, Zenon DEF D_OpenFails, Fails
<1>6. CASE D_Config \/ D_Decode(FALSE) \/ D_Decode(TRUE) \/ D_DecodeFails
  <2>1. Emptied
    BY <1>6 DEF D_Config, D_Decode, D_DecodeFails
  <2>2. <<Head(InputIds)>> \in Seq(Inputs)
    <3>1. InputIds # <<>>
      BY <2>1, IdsTail, ZenonT(30) DEF Emptied, CodecIInv, QueueIInv
    <3> QED BY <1>2, <3>1
  <2>3. \E pc : Say(<<Head(InputIds)>>, pc) \/ Say(Append(<<Head(InputIds)>>, "event"), pc)
    BY <1>6 DEF D_Config, D_Decode, D_DecodeFails, Fails
  <2> QED BY <1>3, <2>1, <2>2, <2>3, Zenon DEF Emptied
<1>7. CASE D_ReceiveFails
  <2>1. <<>> \in Seq(Inputs) /\ Say(Append(<<>>, "event"), "idle") /\ cpc # "say"
    BY <1>7 DEF D_ReceiveFails, Fails
  <2> QED BY <1>7, <2>1, OutSays, Zenon DEF D_ReceiveFails, D_NoFrame, bvars, note
<1>8. CASE D_NoOutput \/ D_Again \/ D_Asks \/ D_QueueFull
  BY <1>1, <1>8, ZenonT(30) DEF D_NoOutput, D_Again, D_Asks, D_QueueFull, TurnEnds, D_NoFrame, D_Busy, component, note,
                    vars, bvars
<1>9. ASSUME NEW t, N_Lock(t) \/ N_Write(t) PROVE OutAnswered(b)'
  BY <1>1, <1>9, ZenonT(30) DEF N_Lock, N_Write, component, run, vars, bvars
<1>10. CASE D_Publish
  <2>1. Callbacks(b)' = Callbacks(b)
    BY <1>10, PublishMoves
  <2>2. UNCHANGED <<output_buffers, told, st, queue, wpc, wtask, stuck>>
    BY <1>10 DEF D_Publish, component, vars, bvars
  <2>3. Answers(b)' = Answers(b) /\ Count(b, output_buffers)' = Count(b, output_buffers)
    BY <2>1, <2>2, OwedSame DEF Answers, Count, One
  <2> QED BY <2>2, <2>3, OutKept
<1>11. ASSUME ResetComponent \/ UNCHANGED codecvars \/ \E a \in Inputs, flag \in Flags : ProcessInput(a, flag)
       PROVE  OutAnswered(b)'
  BY <1>1, <1>11, ZenonT(30) DEF ResetComponent, codecvars, ProcessInput, Process, component, run, note, vars, bvars
<1> QED
  BY <1>2, <1>4, <1>5, <1>6, <1>7, <1>8, <1>9, <1>10, <1>11, OutFilled, OutFlush, OutWorker, OutProcess,
     OutGuest, ZenonT(30)
  DEF CodecNext, dcodec_process_buffers, worker

(* Every buffer the guest hands to the decoder is in one queue and has one *)
(* callback (dcodec_component.c, dcodec_vdec.c), although the decoder and  *)
(* the workers share the ring of callbacks and the guest flushes and       *)
(* resets the component as it likes: for any number of buffers and workers *)
(* and any length of the ring.                                             *)
THEOREM BuffersAreAnswered == CodecSpec => []BufferAnsweredOnce
<1> DEFINE AnswerIInv == InAnswered /\ \A b \in Bufs : OutAnswered(b)
<1>1. CodecInit => AnswerIInv
  <2> SUFFICES ASSUME CodecInit PROVE AnswerIInv
    OBVIOUS
  <2>1. /\ InputIds = <<>> /\ output_buffers = <<>> /\ say = <<>> /\ callbacks = <<>> /\ given = Inputs
        /\ told = {} /\ queue = <<>> /\ st = [b \in Bufs |-> "guest"] /\ wpc = [w \in Workers |-> "idle"]
    BY DEF CodecInit, Init, InputIds
  <2>2. \A e : Callbacks(e) = 0 /\ Count(e, InputIds) = 0 /\ Count(e, output_buffers) = 0
    BY <2>1, CountEmpty DEF Callbacks
  <2>3. \A i \in Inputs : Answered(i) = 1
    BY <2>1, <2>2 DEF Answered, One
  <2>4. ASSUME NEW b \in Bufs PROVE OutAnswered(b)
    <3>1. Count(GuestTask(b), queue) = 0
      BY <2>1, CountEmpty
    <3>2. Sending(b) = {}
      BY <2>1 DEF Sending
    <3>3. Typed
      BY TransferInit DEF CodecInit, TransferIInv
    <3>4. Owed(b) = 0
      BY <3>1, <3>2, <3>3, OwedIs, FS_EmptySet
    <3> QED BY <2>1, <2>2, <3>4 DEF OutAnswered, Answers, One
  <2> QED BY <2>3, <2>4 DEF InAnswered
<1>2. CodecIInv /\ CodecIInv' /\ AnswerIInv /\ [CodecNext]_codecvars => AnswerIInv'
  BY InStep, OutStep DEF codecvars
<1>3. AnswerIInv => BufferAnsweredOnce
  BY Zenon DEF InAnswered, Answered, OutAnswered, Answers, BufferAnsweredOnce
<1> HIDE DEF AnswerIInv
<1> QED BY <1>1, <1>2, <1>3, CodecInvariant, PTL DEF CodecSpec
===============================================================================
